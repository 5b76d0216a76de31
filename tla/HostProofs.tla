----------------------------- MODULE HostProofs ------------------------------
(***************************************************************************)
(* Proofs about the commands that run on a host: the updater, the service  *)
(* installer, the diagnostics, the commands on named tunnels and on IP     *)
(* routes, the connectivity pre-checks and the options of a tunnel's       *)
(* connections.                                                            *)
(* Each part has a specification of its own (they share no state) and an   *)
(* inductive invariant that implies the property of the part.              *)
(***************************************************************************)
EXTENDS AutoUpdate, ServiceInstall, Diagnostics, TunnelCommands, Prechecks, TunnelConfig, NetworkRoutes,
        FiniteSetTheorems, TLAPS

-----------------------------------------------------------------------------
(* The updater *)

UpdSpec == UpdInit /\ [][UpdNext]_updVars

USE UpdateAssumption

\* The steps of an update by what they have done: it has an offer, the new
\* file is verified, and on Windows the batch runs.
Offered == {"remove", "download", "copy", "verify"}
UnixSwap == {"moveOut", "moveIn", "rollback", "clean"}
BatchSteps == {"batch", "renameTarget", "renameNew"}

UpdTypeOK ==
    /\ onWindows \in BOOLEAN
    /\ target \in Released \union {0} /\ oldFile \in Released \union {0} /\ latest \in Released
    /\ running \in Released \union {0}
    /\ update \in [by : {"none", "command", "auto"}, at : {"-", "check"} \union Offered \union UnixSwap \union BatchSteps,
                   current : Released \union {0}, offer : Released \union {0}]
    /\ update.at = "-" => update = NoUpdate

\* Where an update stands and what is on the disk: a verified file is the
\* offered version until it is moved, target is away exactly between the two
\* renames, and no step that deletes the old file is reached without a target.
DiskMatchesStep ==
    /\ target = 0 => oldFile \in Released
    /\ update.at \in Offered \union UnixSwap \union BatchSteps => update.offer \in Released
    /\ update.at \in {"moveOut", "moveIn"} \union BatchSteps => newFile = update.offer
    /\ update.at \in UnixSwap => ~onWindows
    /\ update.at \in BatchSteps => onWindows
    /\ update.at \in {"moveIn", "rollback"} => target = 0
    /\ update.at = "clean" => target = update.offer
    /\ (onWindows /\ update.at \notin {"-", "renameNew"}) => target # 0
    /\ update # NoUpdate => outcome[1] = "none"
    /\ (outcome[1] = "updated" /\ ~onWindows) => target = outcome[2] /\ target # 0

UpdInv == UpdTypeOK /\ DiskMatchesStep

\* Version 1 is installed at first.
LEMMA UpdInitInv == UpdInit => UpdInv
BY DEF UpdInit, UpdInv, UpdTypeOK, DiskMatchesStep, NoUpdate, Released, Offered, UnixSwap, BatchSteps

\* Every step of an update, its failure and the death of the updater keep the
\* invariant.
LEMMA UpdStepInv == UpdInv /\ [UpdNext]_updVars => UpdInv'
<1> SUFFICES ASSUME UpdInv, [UpdNext]_updVars PROVE UpdInv'  OBVIOUS
<1> USE DEF UpdInv, UpdTypeOK, DiskMatchesStep, NoUpdate, Released, Offered, UnixSwap, BatchSteps, Go, Ends
<1>1. CASE Release  BY <1>1 DEF Release
<1>2. CASE BeginUpdate  BY <1>2 DEF BeginUpdate, Begin
<1>3. CASE BeginAuto  BY <1>3 DEF BeginAuto, AutoUpdates, Begin
<1>4. CASE Check
  <2>1. update.at = "check" /\ UNCHANGED <<onWindows, target, newFile, oldFile, latest, running>>
    BY <1>4 DEF Check
  <2>2. CASE Ends("failed") \/ Ends("current")  BY <2>1, <2>2
  <2>3. ASSUME NEW v \in 1..latest, update' = [update EXCEPT !.at = "remove", !.offer = v], outcome' = outcome
        PROVE  UpdInv'
    <3>1. v \in Released  BY <2>3
    <3>2. /\ update' \in [by : {"none", "command", "auto"}, at : Offered, current : Released \union {0}, offer : Released]
          /\ update'.at = "remove"
      BY <2>3, <3>1
    <3>3. UpdTypeOK'  BY <2>1, <3>2
    <3>4. outcome[1] = "none"  BY <2>1
    <3>5. DiskMatchesStep'  BY <2>1, <2>3, <3>2, <3>4
    <3> QED  BY <3>3, <3>5
  <2> QED  BY <1>4, <2>2, <2>3 DEF Check
<1>5. CASE RemoveNew  BY <1>5 DEF RemoveNew
<1>6. CASE Download  BY <1>6 DEF Download
<1>7. CASE Copy  BY <1>7 DEF Copy
<1>8. CASE Verify  BY <1>8 DEF Verify
<1>9. CASE MoveOut  BY <1>9 DEF MoveOut
<1>10. CASE MoveIn  BY <1>10 DEF MoveIn
<1>11. CASE RollbackRename  BY <1>11 DEF RollbackRename
<1>12. CASE RemoveOld  BY <1>12 DEF RemoveOld, AfterUpdate
<1>13. CASE Batch  BY <1>13 DEF Batch
<1>14. CASE RenameTarget  BY <1>14 DEF RenameTarget
<1>15. CASE RenameNew  BY <1>15 DEF RenameNew
<1>16. CASE UpdaterDies  BY <1>16 DEF UpdaterDies
<1>17. CASE HostStep  BY <1>17 DEF HostStep
<1>18. CASE UNCHANGED updVars  BY <1>18 DEF updVars
<1> QED  BY <1>1, <1>2, <1>3, <1>4, <1>5, <1>6, <1>7, <1>8, <1>9, <1>10, <1>11, <1>12, <1>13, <1>14, <1>15,
            <1>16, <1>17, <1>18 DEF UpdNext

\* For any number of releases and any sequence of updates, failures and deaths
\* of the updater, a complete binary is on the disk: it is installed, or it is
\* the old file while nothing is installed.  An update that reports success has
\* installed its version, except through the batch on Windows.
THEOREM UpdateSafe == UpdSpec => []BinaryRecoverable
<1>1. UpdInv => BinaryRecoverable
  BY DEF UpdInv, UpdTypeOK, DiskMatchesStep, BinaryRecoverable
<1> QED  BY <1>1, UpdInitInv, UpdStepInv, PTL DEF UpdSpec
-----------------------------------------------------------------------------
(* The service installer *)

SvcSpec == SvcInit /\ [][SvcNext]_svcVars

SvcFiles == {"conf", "service", "update", "timer"}
SvcTypeOK ==
    /\ job \in [cmd : {"none", "install", "uninstall"},
                at : {"-", "exists", "token", "config", "generate", "enable", "start", "stop", "remove"},
                token : BOOLEAN, update : BOOLEAN, written : SUBSET SvcFiles]
    /\ job.cmd = "none" => job = NoJob

\* On systemd what runs or is enabled has its unit on the disk, so that an
\* uninstall, which looks only for the units that exist, finds it.
UnitsKnown ==
    platform = "systemd" =>
       /\ "service" \notin units => service = "off" /\ ~enabled
       /\ "timer" \notin units => ~timer
       /\ (job.cmd = "uninstall" /\ job.at = "remove") => service = "off" /\ ~enabled /\ ~timer

\* What an install has written is on the disk, all of it once Generate is done.
WrittenKnown ==
    job.cmd = "install" =>
       /\ job.written \subseteq units
       /\ job.at \in {"enable", "start"} => Templates(job.update) \subseteq job.written

\* Only one command runs at a time, and it has reported nothing yet.
SvcInv ==
    /\ SvcTypeOK /\ UnitsKnown /\ WrittenKnown
    /\ job.cmd # "none" => last = "none"
    /\ (last = "uninstalled" /\ platform # "launchd") => units = {}

\* The token file or configuration that an install writes into the unit was there
\* before and is still there, and the unit is the install's own.
Provided ==
    /\ job.cmd = "install" =>
          /\ job.at = "exists" => platform = "windows"
          /\ job.at = "token" => job.token
          /\ job.at = "config" => ~job.token
          /\ job.at \in {"exists", "token", "config"} => job.written = {}
          /\ job.at \in {"generate", "enable", "start"} =>
                IF job.token THEN platform = "windows" \/ tokenFile ELSE Linux => configFile
          /\ "service" \in job.written => unitArg = IF job.token THEN "token" ELSE "config"
    /\ last = "installed" => CanRun

\* Nothing is installed at first.
LEMMA SvcInitInv == SvcInit => SvcInv /\ Provided
BY DEF SvcInit, SvcInv, SvcTypeOK, UnitsKnown, WrittenKnown, Provided, NoJob

\* Every step of a command that succeeds or fails, and every step of the
\* service manager, keeps the invariant.
LEMMA SvcStepInv == SvcInv /\ [SvcNext]_svcVars => SvcInv'
<1> SUFFICES ASSUME SvcInv, [SvcNext]_svcVars PROVE SvcInv'  OBVIOUS
<1> USE DEF SvcInv, SvcTypeOK, UnitsKnown, WrittenKnown, At
<1> DEFINE Fixed == UNCHANGED <<platform, units, enabled, timer, service>>
           Moves(at) == job' = [job EXCEPT !.at = at] /\ last' = last
           Returns(result) == job' = NoJob /\ last' = result
\* A command moves on without touching the service, and a command ends.
<1>moves. ASSUME Fixed, job.cmd # "none", NEW at \in {"exists", "token", "config", "generate"}, Moves(at)
          PROVE  SvcInv'
  BY <1>moves DEF NoJob
<1>ends. ASSUME NEW result \in {"failed", "installed"}, Returns(result), UNCHANGED platform,
                platform = "systemd" => /\ "service" \notin units' => service' = "off" /\ ~enabled'
                                        /\ "timer" \notin units' => ~timer'
         PROVE  SvcInv'
  BY <1>ends DEF NoJob
<1>fails. ASSUME Fixed, Returns("failed") PROVE SvcInv'  BY <1>fails, <1>ends
<1>1. ASSUME NEW token \in BOOLEAN, NEW upd \in BOOLEAN, Install(token, upd) PROVE SvcInv'
  BY <1>1 DEF Install, NoJob
<1>2. CASE WriteToken
  <2>1. Fixed /\ job.cmd # "none" /\ (Returns("failed") \/ Moves("generate"))  BY <1>2 DEF WriteToken, InstallFails
  <2> QED  BY <2>1, <1>fails, <1>moves
<1>3. CASE BuildArgsForConfig
  <2>1. Fixed /\ job.cmd # "none" /\ (Returns("failed") \/ Moves("generate"))
    BY <1>3 DEF BuildArgsForConfig, CopyFile, InstallFails
  <2> QED  BY <2>1, <1>fails, <1>moves
<1>4. CASE OpenService
  <2>1. Fixed /\ job.at = "exists" /\ (Returns("failed") \/ Moves("generate"))  BY <1>4 DEF OpenService, InstallFails
  <2>2. job.cmd # "none"  BY <2>1 DEF NoJob
  <2> QED  BY <2>1, <2>2, <1>fails, <1>moves
<1>5. CASE Generate
  <2>1. job.cmd = "install" /\ job.at = "generate" /\ UNCHANGED <<platform, enabled, timer, service>>
    BY <1>5 DEF Generate
  <2>2. CASE InstallFails /\ units \subseteq units'
    <3>1. Returns("failed")  BY <2>2 DEF InstallFails
    <3> QED  BY <2>1, <2>2, <3>1, <1>ends
  <2>3. ASSUME NEW f \in Templates(job.update), units' = units \union {f}, last' = last,
               LET w == job.written \union {f} IN
               job' = [job EXCEPT !.written = w, !.at = IF Templates(job.update) \subseteq w THEN "enable" ELSE @]
        PROVE  SvcInv'
    <3> DEFINE w == job.written \union {f}
               at == IF Templates(job.update) \subseteq w THEN "enable" ELSE "generate"
    <3>1. f \in SvcFiles  BY DEF Templates, SvcFiles
    <3>2. w \in SUBSET SvcFiles /\ at \in {"enable", "generate"} /\ w \subseteq units'
      BY <2>1, <2>3, <3>1
    <3>3. job' = [[job EXCEPT !.written = w] EXCEPT !.at = at]  BY <2>1, <2>3
    <3>4. at = "enable" => Templates(job.update) \subseteq w  OBVIOUS
    <3> HIDE DEF w, at
    <3>5. /\ job'.cmd = "install" /\ job'.at = at /\ job'.written = w
          /\ job'.token = job.token /\ job'.update = job.update
      BY <2>1, <3>3
    <3>6. SvcTypeOK'  BY <2>1, <3>2, <3>3, <3>5
    <3>7. WrittenKnown'  BY <2>1, <3>2, <3>4, <3>5 DEF Templates
    <3>8. UnitsKnown'  BY <2>1, <2>3, <3>5
    <3> QED  BY <2>1, <2>3, <3>5, <3>6, <3>7, <3>8
  <2> QED  BY <1>5, <2>2, <2>3 DEF Generate
<1>6. CASE EnableSystemd
  <2>1. UNCHANGED <<platform, units, service>> /\ job.cmd = "install" /\ job.at = "enable" /\ platform = "systemd"
    BY <1>6 DEF EnableSystemd
  <2>4. "service" \in units /\ (job.update => "timer" \in units)  BY <2>1 DEF Templates
  <2>2. CASE /\ InstallFails /\ enabled' \in BOOLEAN
             /\ timer' \in IF job.update /\ enabled' THEN BOOLEAN ELSE {timer}
    <3>1. Returns("failed")  BY <2>2 DEF InstallFails
    <3>2. timer' => timer \/ job.update  BY <2>2
    <3>3. "service" \in units /\ ("timer" \notin units => ~timer')  BY <2>1, <2>4, <3>2
    <3> QED  BY <2>1, <3>1, <3>3, <1>ends
  <2>3. CASE Moves("start") /\ enabled' = TRUE /\ timer' = (timer \/ job.update)
    BY <2>1, <2>3, <2>4 DEF NoJob, Templates
  <2> QED  BY <1>6, <2>2, <2>3 DEF EnableSystemd
<1>7. CASE LinkSysv  BY <1>7 DEF LinkSysv, NoJob, Templates
<1>8. CASE EnableOpenRC
  <2>1. /\ UNCHANGED <<platform, units>> /\ platform = "openrc" /\ job.cmd = "install" /\ job.at = "enable"
        /\ Returns("failed") \/ Moves("start")
    BY <1>8 DEF EnableOpenRC, InstallFails
  <2>2. CASE Moves("start")  BY <2>1, <2>2 DEF NoJob, Templates
  <2> QED  BY <2>1, <2>2, <1>ends
<1>9. CASE InstallEventLog
  <2>1. /\ UNCHANGED platform /\ platform = "windows" /\ job.cmd = "install" /\ job.at = "enable"
        /\ Returns("failed") \/ (Moves("start") /\ UNCHANGED units)
    BY <1>9 DEF InstallEventLog, InstallFails
  <2>2. CASE Moves("start") /\ UNCHANGED units  BY <2>1, <2>2 DEF NoJob, Templates
  <2> QED  BY <2>1, <2>2, <1>ends
<1>10. CASE LoadLaunchd
  <2>1. UNCHANGED platform /\ platform = "launchd" /\ (Returns("failed") \/ Returns("installed"))
    BY <1>10 DEF LoadLaunchd, InstallFails
  <2> QED  BY <2>1, <1>ends
<1>11. CASE StartService
  <2>1. UNCHANGED <<platform, units, enabled, timer>> /\ job.cmd = "install" /\ job.at = "start"
    BY <1>11 DEF StartService
  <2>2. CASE InstallFails /\ UNCHANGED service
    <3>1. Returns("failed")  BY <2>2 DEF InstallFails
    <3> QED  BY <2>1, <2>2, <3>1, <1>fails
  <2>3. CASE service' = "on" /\ Returns("installed")
    <3>1. platform = "systemd" => "service" \in units'  BY <2>1 DEF Templates
    <3> QED  BY <2>1, <2>3, <3>1, <1>ends
  <2> QED  BY <1>11, <2>2, <2>3 DEF StartService
<1>12. CASE Uninstall  BY <1>12 DEF Uninstall, NoJob
<1>13. CASE StopSystemd
  <2>1. platform = "systemd" /\ job.cmd = "uninstall" /\ UNCHANGED <<platform, units>>  BY <1>13 DEF StopSystemd, Stopping
  <2>2. CASE /\ Moves("remove") /\ service' = IF "service" \in units THEN "off" ELSE service
             /\ enabled' = (enabled /\ "service" \notin units) /\ timer' = (timer /\ "timer" \notin units)
    BY <2>1, <2>2 DEF NoJob
  <2>3. CASE /\ UninstallReturns("failed") /\ UNCHANGED timer
             /\ enabled' \in IF "service" \in units THEN {enabled, FALSE} ELSE {enabled}
             /\ service' \in IF "service" \in units /\ ~enabled' THEN {service, "off"} ELSE {service}
    <3>1. Returns("failed")  BY <2>3 DEF UninstallReturns
    <3> QED  BY <2>1, <2>3, <3>1, <1>ends
  <2> QED  BY <1>13, <2>2, <2>3 DEF StopSystemd
<1>14. CASE StopSysv \/ StopOpenRC \/ UnloadLaunchd \/ ControlStop
  <2>1. /\ UNCHANGED <<platform, units>> /\ platform # "systemd" /\ job.cmd = "uninstall"
        /\ Returns("failed") \/ Moves("remove")
    BY <1>14 DEF StopSysv, StopOpenRC, UnloadLaunchd, ControlStop, Stopping, UninstallReturns
  <2>2. CASE Moves("remove")  BY <2>1, <2>2 DEF NoJob
  <2> QED  BY <2>1, <2>2, <1>ends
<1>15. CASE RemoveUnits
  <2>1. /\ job.cmd = "uninstall" /\ job.at = "remove" /\ UNCHANGED <<platform, timer, service>>
        /\ platform = "systemd" => enabled' = enabled
    BY <1>15 DEF RemoveUnits
  <2>2. CASE UNCHANGED <<job, last>>  BY <2>1, <2>2
  <2>3. CASE Returns("failed")  BY <2>1, <2>3, <1>ends
  <2>4. CASE Returns("uninstalled") /\ (platform # "launchd" => units' = {})  BY <2>1, <2>4 DEF NoJob
  <2> QED  BY <1>15, <2>2, <2>3, <2>4 DEF RemoveUnits, UninstallReturns, Installed
<1>16. CASE ServiceEnds \/ ManagerStarts  BY <1>16 DEF ServiceEnds, ManagerStarts, NoJob, Templates
<1>17. CASE StopRequest  BY <1>17 DEF StopRequest, Templates
<1>18. CASE UNCHANGED svcVars  BY <1>18 DEF svcVars, Templates
<1> QED  BY <1>1, <1>2, <1>3, <1>4, <1>5, <1>6, <1>7, <1>8, <1>9, <1>10, <1>11, <1>12, <1>13, <1>14, <1>15,
            <1>16, <1>17, <1>18 DEF SvcNext

\* Every step keeps what an install relies on: nothing takes the token file or
\* the configuration away while it runs, nor before the next command.
LEMMA SvcStepProvided == SvcInv /\ Provided /\ [SvcNext]_svcVars => Provided'
<1> SUFFICES ASSUME SvcInv, Provided, [SvcNext]_svcVars PROVE Provided'  OBVIOUS
<1> DEFINE Files == <<platform, units, unitArg, tokenFile, configFile>>
           Moves(at) == job' = [job EXCEPT !.at = at] /\ last' = last
\* A command ends without an install, an uninstall goes on, an install that has
\* written its unit goes on, and nothing happens to the files.
<1>ends. ASSUME job' = NoJob, last' # "installed" PROVE Provided'
  BY <1>ends DEF Provided, NoJob
<1>uninstalls. ASSUME job.cmd = "uninstall", job'.cmd = "uninstall", last' = last PROVE Provided'
  BY <1>uninstalls DEF Provided, SvcInv
<1>kept. ASSUME UNCHANGED Files, UNCHANGED <<job, last>> PROVE Provided'
  BY <1>kept DEF Provided, CanRun, Linux
<1>runs. ASSUME job.cmd = "install", job.at \in {"enable", "start"} PROVE CanRun
  BY <1>runs DEF SvcInv, SvcTypeOK, WrittenKnown, Templates, Provided, CanRun, Linux
<1>starts. ASSUME job.cmd = "install", job.at = "enable", Moves("start"), UNCHANGED Files PROVE Provided'
  BY <1>starts DEF Provided, SvcInv, SvcTypeOK, Linux
<1>1. ASSUME NEW token \in BOOLEAN, NEW upd \in BOOLEAN, Install(token, upd) PROVE Provided'
  BY <1>1 DEF Install, Provided
<1>2. CASE WriteToken
  <2>1. CASE job' = NoJob /\ last' = "failed"  BY <2>1, <1>ends
  <2>2. CASE tokenFile' = TRUE /\ Moves("generate")
    <3>1. job.cmd = "install" /\ job.token /\ job.written = {} /\ last = "none"
      BY <1>2 DEF WriteToken, Provided, SvcInv
    <3> QED  BY <2>2, <3>1 DEF Provided, SvcInv, SvcTypeOK
  <2> QED  BY <1>2, <2>1, <2>2 DEF WriteToken, At
<1>3. CASE BuildArgsForConfig
  <2>1. CASE InstallFails  BY <2>1, <1>ends DEF InstallFails
  <2>2. CASE Moves("generate") /\ (Linux => configFile')
    <3>1. job.cmd = "install" /\ ~job.token /\ job.written = {} /\ last = "none" /\ platform' = platform
      BY <1>3 DEF BuildArgsForConfig, Provided, SvcInv
    <3> QED  BY <2>2, <3>1 DEF Provided, SvcInv, SvcTypeOK, Linux
  <2> QED  BY <1>3, <2>1, <2>2 DEF BuildArgsForConfig, CopyFile, At
<1>4. CASE OpenService
  <2>1. CASE InstallFails  BY <2>1, <1>ends DEF InstallFails
  <2>2. CASE Moves("generate")
    <3>1. job.at = "exists" /\ platform' = platform /\ job.cmd # "none"
      BY <1>4 DEF OpenService, SvcInv, SvcTypeOK, NoJob
    <3> QED  BY <2>2, <3>1 DEF Provided, SvcInv, SvcTypeOK, Linux
  <2> QED  BY <1>4, <2>1, <2>2 DEF OpenService, At
<1>5. CASE Generate
  <2>1. CASE InstallFails  BY <2>1, <1>ends DEF InstallFails
  <2>2. ASSUME NEW f \in Templates(job.update) \ job.written, UNCHANGED <<tokenFile, last>>,
               unitArg' = IF f = "service" THEN (IF job.token THEN "token" ELSE "config") ELSE unitArg,
               LET w == job.written \union {f} IN
               job' = [job EXCEPT !.written = w, !.at = IF Templates(job.update) \subseteq w THEN "enable" ELSE @]
        PROVE  Provided'
    <3> DEFINE w == job.written \union {f}
               at == IF Templates(job.update) \subseteq w THEN "enable" ELSE "generate"
    <3>1. job.cmd = "install" /\ job.at = "generate" /\ last = "none" /\ UNCHANGED <<platform, configFile>>
      BY <1>5 DEF Generate, SvcInv
    <3>2. at \in {"enable", "generate"} /\ ("service" \in w => f = "service" \/ "service" \in job.written)
      OBVIOUS
    <3>3. job' = [[job EXCEPT !.written = w] EXCEPT !.at = at]  BY <2>2, <3>1 DEF SvcInv, SvcTypeOK
    <3> HIDE DEF w, at
    <3>4. job'.cmd = "install" /\ job'.at = at /\ job'.written = w /\ job'.token = job.token
      BY <3>1, <3>3 DEF SvcInv, SvcTypeOK
    <3>5. unitArg' = (IF job.token THEN "token" ELSE "config") \/ "service" \notin w
      BY <2>2, <3>1, <3>2 DEF Provided
    <3>6. IF job.token THEN platform = "windows" \/ tokenFile ELSE Linux => configFile
      BY <3>1 DEF Provided
    <3> QED  BY <2>2, <3>1, <3>2, <3>4, <3>5, <3>6 DEF Provided, Linux
  <2> QED  BY <1>5, <2>1, <2>2 DEF Generate
<1>6. CASE EnableSystemd \/ LinkSysv \/ EnableOpenRC \/ InstallEventLog
  <2>1. job.cmd = "install" /\ job.at = "enable" /\ (InstallFails \/ (Moves("start") /\ UNCHANGED Files))
    BY <1>6 DEF EnableSystemd, LinkSysv, EnableOpenRC, InstallEventLog, At
  <2> QED  BY <2>1, <1>ends, <1>starts DEF InstallFails
<1>7. CASE LoadLaunchd \/ StartService
  <2>1. job.cmd = "install" /\ job.at \in {"enable", "start"}  BY <1>7 DEF LoadLaunchd, StartService
  <2>2. CASE InstallFails  BY <2>2, <1>ends DEF InstallFails
  <2>3. CASE job' = NoJob /\ UNCHANGED Files
    <3>1. CanRun'  BY <2>1, <2>3, <1>runs DEF CanRun, Linux
    <3> QED  BY <2>3, <3>1 DEF Provided, NoJob
  <2> QED  BY <1>7, <2>2, <2>3 DEF LoadLaunchd, StartService
<1>8. CASE Uninstall  BY <1>8 DEF Uninstall, Provided, NoJob
<1>9. CASE StopSystemd \/ StopSysv \/ StopOpenRC \/ UnloadLaunchd \/ ControlStop
  <2>1. job.cmd = "uninstall" /\ (UninstallReturns("failed") \/ Moves("remove"))
    BY <1>9 DEF StopSystemd, StopSysv, StopOpenRC, UnloadLaunchd, ControlStop, Stopping, At
  <2>2. CASE Moves("remove")
    <3>1. job'.cmd = "uninstall"  BY <2>1, <2>2 DEF SvcInv, SvcTypeOK
    <3> QED  BY <2>1, <2>2, <3>1, <1>uninstalls
  <2> QED  BY <2>1, <2>2, <1>ends DEF UninstallReturns
<1>10. CASE RemoveUnits
  <2>1. job.cmd = "uninstall"  BY <1>10 DEF RemoveUnits
  <2>2. CASE UNCHANGED <<job, last>>  BY <2>1, <2>2, <1>uninstalls
  <2>3. ASSUME NEW result \in {"failed", "uninstalled"}, UninstallReturns(result) PROVE Provided'
    BY <2>3, <1>ends DEF UninstallReturns
  <2> QED  BY <1>10, <2>2, <2>3 DEF RemoveUnits
<1>11. CASE ServiceEnds \/ ManagerStarts \/ StopRequest
  BY <1>11, <1>kept DEF ServiceEnds, ManagerStarts, StopRequest
<1>12. CASE UNCHANGED svcVars  BY <1>12, <1>kept DEF svcVars
<1> QED  BY <1>1, <1>2, <1>3, <1>4, <1>5, <1>6, <1>7, <1>8, <1>9, <1>10, <1>11, <1>12 DEF SvcNext

\* After any sequence of installs and uninstalls, whichever of their steps
\* failed: an uninstall that reports success has left no file or registration of
\* the service, and on systemd neither the service nor the timer runs or is
\* enabled; and a service reported as installed has its own unit and the token
\* file or configuration that the unit names.
THEOREM ServiceSafe == SvcSpec => []ServiceReported
<1>1. SvcInv /\ Provided => ServiceReported
  BY DEF SvcInv, SvcTypeOK, UnitsKnown, Provided, UninstallCleans, InstalledRuns, ServiceReported
<1> QED  BY <1>1, SvcInitInv, SvcStepInv, SvcStepProvided, PTL DEF SvcSpec
-----------------------------------------------------------------------------
(* The diagnostics *)

DiagSpec == DiagInit /\ [][DiagNext]_diagVars

\* The jobs whose file is reported whatever happens to the job.
AlwaysReported == {"state", "network", "prechecks"}

DiagRun == [at : {"start", "jobs", "clean", "ended"}, next : Nat, paths : SUBSET JobSet, zipped : BOOLEAN]

DiagTypeOK ==
    /\ tmp \in [JobSet -> DiagRuns \union {"none"}]
    /\ diag \in [DiagRuns -> DiagRun]

\* Some run that has not ended still has every such file on its list: another
\* run that removed the file under the same name has removed this data, too.
FilesListed ==
    /\ \A j \in AlwaysReported : tmp[j] # "none" => \E r \in DiagRuns : j \in diag[r].paths
    /\ \A r \in DiagRuns : diag[r].at \in {"start", "ended"} => diag[r].paths = {}

DiagInv == DiagTypeOK /\ FilesListed

\* The names of the jobs.
LEMMA JobNames == JobSet = {"state", "logs", "network", "prechecks", "report"}
<1>1. DOMAIN DiagJobs = 1..5  BY DEF DiagJobs
<1>2. JobSet = {DiagJobs[1], DiagJobs[2], DiagJobs[3], DiagJobs[4], DiagJobs[5]}  BY <1>1 DEF JobSet
<1> QED  BY <1>2 DEF DiagJobs

\* What the steps of a run make of its record is a record again.
LEMMA DiagRunUpdates ==
    ASSUME NEW d \in DiagRun, NEW paths \in SUBSET JobSet, NEW z \in BOOLEAN
    PROVE  /\ [d EXCEPT !.next = @ + 1, !.paths = @ \union paths] \in DiagRun
           /\ [d EXCEPT !.at = "clean", !.zipped = z] \in DiagRun
<1>1. [d EXCEPT !.next = @ + 1, !.paths = @ \union paths] \in DiagRun
  <2>1. d.next + 1 \in Nat /\ d.paths \union paths \in SUBSET JobSet  BY DEF DiagRun
  <2>2. [d EXCEPT !.next = @ + 1, !.paths = @ \union paths] = [[d EXCEPT !.next = d.next + 1] EXCEPT !.paths = d.paths \union paths]
    BY DEF DiagRun
  <2>3. ASSUME NEW n \in Nat, NEW ps \in SUBSET JobSet PROVE [[d EXCEPT !.next = n] EXCEPT !.paths = ps] \in DiagRun
    BY <2>3 DEF DiagRun
  <2> QED  BY <2>1, <2>2, <2>3
<1>2. [d EXCEPT !.at = "clean", !.zipped = z] \in DiagRun  BY DEF DiagRun
<1> QED  BY <1>1, <1>2

\* No file exists at first.
LEMMA DiagInitInv == DiagInit => DiagInv
BY JobNames DEF DiagInit, DiagInv, DiagTypeOK, DiagRun, FilesListed, AlwaysReported

\* Every job of every run keeps the invariant.
LEMMA DiagStepInv == DiagInv /\ [DiagNext]_diagVars => DiagInv'
<1> SUFFICES ASSUME DiagInv, [DiagNext]_diagVars PROVE DiagInv'  OBVIOUS
<1> USE JobNames DEF DiagInv, DiagTypeOK, FilesListed, AlwaysReported
\* A job ends with or without a file, and reports it unless it is one that may be forgotten.
<1>job. ASSUME NEW r \in DiagRuns, diag[r].at = "jobs", NEW paths \in SUBSET JobSet, JobEnds(r, paths),
               \/ tmp' = tmp
               \/ \E j \in JobSet : tmp' = [tmp EXCEPT ![j] = r] /\ (j \in AlwaysReported => j \in paths)
        PROVE  DiagInv'
  <2>1. diag' = [diag EXCEPT ![r] = [diag[r] EXCEPT !.next = @ + 1, !.paths = @ \union paths]]
    BY <1>job DEF JobEnds
  <2>2. DiagTypeOK'
    <3>1. tmp' \in [JobSet -> DiagRuns \union {"none"}]  BY <1>job
    <3>2. [diag[r] EXCEPT !.next = @ + 1, !.paths = @ \union paths] \in DiagRun  BY <1>job, DiagRunUpdates
    <3>3. diag' \in [DiagRuns -> DiagRun]  BY <2>1, <3>2
    <3> QED  BY <3>1, <3>3
  <2>3. \A q \in DiagRuns : diag[q].paths \subseteq diag'[q].paths /\ diag'[q].at = diag[q].at /\ (q # r => diag'[q] = diag[q])
    BY <2>1 DEF DiagRun
  <2>4. paths \subseteq diag'[r].paths  BY <2>1 DEF DiagRun
  <2> QED  BY <1>job, <2>2, <2>3, <2>4
<1>1. ASSUME NEW r \in DiagRuns, ResolveInstance(r) PROVE DiagInv'  BY <1>1 DEF ResolveInstance, DiagAt, DiagRun
<1>2. ASSUME NEW r \in DiagRuns, NoFile(r) PROVE DiagInv'  BY <1>2, <1>job DEF NoFile
<1>3. ASSUME NEW r \in DiagRuns, CollectEndpoint(r) \/ CollectNetwork(r) \/ CollectPrechecks(r) PROVE DiagInv'
  <2>1. /\ diag[r].at = "jobs"
        /\ \E j \in AlwaysReported : tmp' = [tmp EXCEPT ![j] = r] /\ JobEnds(r, {j})
    BY <1>3 DEF CollectEndpoint, CollectNetwork, CollectPrechecks, IsNext
  <2> QED  BY <2>1, <1>job
<1>4. ASSUME NEW r \in DiagRuns, CollectLogs(r) PROVE DiagInv'
  <2>1. CASE LogFile(r)  BY <1>4, <2>1, <1>job DEF LogFile, CollectLogs, IsNext
  <2>2. CASE JobEnds(r, {}) /\ tmp' = tmp  BY <1>4, <2>2, <1>job DEF CollectLogs, IsNext
  <2> QED  BY <1>4, <2>1, <2>2
           DEF CollectLogs, KubernetesLogs, DockerLogs, HostLogs, PipeCommandOutputToFile, CopyFilesFromDirectory
<1>5. ASSUME NEW r \in DiagRuns, ReportJobs(r) PROVE DiagInv'  BY <1>5, <1>job DEF ReportJobs, IsNext
<1>6. ASSUME NEW r \in DiagRuns, ZipFile(r) PROVE DiagInv'
  <2>1. PICK complete \in BOOLEAN : diag' = [diag EXCEPT ![r] = [diag[r] EXCEPT !.at = "clean", !.zipped = complete]]
    BY <1>6 DEF ZipFile
  <2>2. \A q \in DiagRuns : diag'[q].paths = diag[q].paths /\ (q # r => diag'[q] = diag[q])  BY <2>1 DEF DiagRun
  <2>3. tmp' = tmp /\ diag'[r].at = "clean"  BY <1>6, <2>1 DEF ZipFile, DiagRun
  <2>4. [diag[r] EXCEPT !.at = "clean", !.zipped = complete] \in DiagRun  BY DiagRunUpdates
  <2>5. DiagTypeOK'  BY <2>1, <2>3, <2>4
  <2> QED  BY <2>2, <2>3, <2>5
<1>7. ASSUME NEW r \in DiagRuns, RemoveTmp(r) PROVE DiagInv'
  <2>1. ASSUME NEW j \in diag[r].paths, tmp' = [tmp EXCEPT ![j] = "none"], diag' = [diag EXCEPT ![r].paths = @ \ {j}]
        PROVE  DiagInv'
    BY <1>7, <2>1 DEF RemoveTmp, DiagRun
  <2>2. CASE diag[r].paths = {} /\ DiagAt(r, "ended") /\ tmp' = tmp  BY <2>2 DEF DiagAt, DiagRun
  <2> QED  BY <1>7, <2>1, <2>2 DEF RemoveTmp
<1>8. CASE UNCHANGED diagVars  BY <1>8 DEF diagVars
<1> QED  BY <1>1, <1>2, <1>3, <1>4, <1>5, <1>6, <1>7, <1>8 DEF DiagNext

\* However many people run the diagnostics on one host at the same time, and
\* whichever jobs fail, when all have ended nothing collected from an instance,
\* the network or the pre-checks is left under the shared temporary names.
THEOREM DiagnosticsSafe == DiagSpec => []CollectedIsRemoved
<1>1. DiagInv => CollectedIsRemoved
  BY JobNames DEF DiagInv, DiagTypeOK, DiagRun, FilesListed, AlwaysReported, CollectedIsRemoved
<1> QED  BY <1>1, DiagInitInv, DiagStepInv, PTL DEF DiagSpec
-----------------------------------------------------------------------------
(* The commands on named tunnels *)

CmdSpec == CmdInit /\ [][CmdNext]_cmdVars

Paths == CredFiles \union TunnelIDs
Entry == [name : TunnelNames \union {NoTunnel}, state : {"free", "active", "deleted"}]
Ops == {"none", "login", "create", "delete", "run", "token", "cleanup", "route"}
Ats == {"idle", "ended", "transfer", "post", "get", "find", "call", "stat", "write", "rollback", "getTunnel", "delete",
        "remove", "credentials", "running"}
Command == [op : Ops, at : Ats, name : TunnelNames \union {NoTunnel}, ids : Seq(TunnelIDs),
            path : Paths \union {NoTunnel}, force : BOOLEAN]

CmdTypeOK ==
    /\ store \in [TunnelIDs -> Entry]
    /\ file \in [Paths -> TunnelIDs \union {NoTunnel}]
    /\ cmd \in [Procs -> Command]
    /\ created \subseteq [id : TunnelIDs, path : Paths]

\* What a command c knows at each of its steps, when the store is st: what it
\* writes is named by the user or after the tunnel, a tunnel that it created is
\* no longer free, and the file that it removes is that of a deleted tunnel.
Knows(c, st) ==
    /\ c.at \in {"find", "getTunnel", "delete", "remove", "post", "get"} => c.path \in CredFiles \union {NoTunnel}
    /\ c.at \in {"get", "delete", "remove"} => c.ids # <<>>
    /\ c.at = "post" => c.op = "create"
    /\ c.at = "get" => c.op = "token" /\ c.path \in CredFiles
    /\ c.at \in {"stat", "write"} => c.ids # <<>> /\ (c.path \in CredFiles \/ c.path = c.ids[1])
    /\ (c.at \in {"stat", "write", "rollback"} /\ c.op = "create") => c.ids # <<>> /\ st[c.ids[1]].state # "free"
    /\ c.at = "rollback" => c.op = "create"
    /\ c.at = "remove" => st[Head(c.ids)].state = "deleted"

CreatedOK ==
    \A c \in created : store[c.id].state # "free" /\ (c.path \in CredFiles \/ c.path = c.id)

CmdInv ==
    /\ CmdTypeOK /\ CreatedOK /\ CredentialsKept
    /\ \A p \in Procs : Knows(cmd[p], store)

\* The store never forgets a tunnel: an id is given out once, and a deleted
\* tunnel stays deleted.
Keeps(st, stNew) ==
    /\ stNew \in [TunnelIDs -> Entry]
    /\ \A i \in TunnelIDs : /\ st[i].state # "free" => stNew[i].state # "free"
                            /\ st[i].state = "deleted" => stNew[i].state = "deleted"

\* What the steps make of a command is a command.
LEMMA CommandUpdates ==
    ASSUME NEW c \in Command, NEW a \in Ats, NEW s \in Seq(TunnelIDs), NEW f \in Paths \union {NoTunnel}
    PROVE  /\ Idle \in Command /\ Ended \in Command /\ Ended.at = "ended" /\ Idle.at = "idle"
           /\ [c EXCEPT !.at = a] \in Command
           /\ [c EXCEPT !.at = a, !.ids = s] \in Command
           /\ [c EXCEPT !.at = a, !.ids = s, !.path = f] \in Command
<1>1. Idle \in Command /\ Idle.at = "idle"  BY DEF Idle, Command, Ops, Ats
<1>2. Ended \in Command /\ Ended.at = "ended"
  <2>1. \A d \in Command : [d EXCEPT !.at = "ended"] \in Command /\ [d EXCEPT !.at = "ended"].at = "ended"
    BY DEF Command, Ats
  <2> QED  BY <1>1, <2>1 DEF Ended
<1>3. [c EXCEPT !.at = a] \in Command  BY DEF Command
<1>4. [c EXCEPT !.at = a, !.ids = s] \in Command  BY DEF Command
<1>5. [c EXCEPT !.at = a, !.ids = s, !.path = f] \in Command  BY DEF Command
<1> QED  BY <1>1, <1>2, <1>3, <1>4, <1>5

\* Nothing is created at first.
LEMMA CmdInitInv == CmdInit => CmdInv
<1> SUFFICES ASSUME CmdInit PROVE CmdInv  OBVIOUS
<1>1. Idle \in Command /\ \A st : Knows(Idle, st)
  <2>1. Idle \in Command  BY DEF Idle, Command, Ops, Ats
  <2> QED  BY <2>1 DEF Idle, Knows
<1>2. CmdTypeOK  BY <1>1 DEF CmdInit, CmdTypeOK, Entry, Paths
<1>3. CreatedOK /\ CredentialsKept  BY DEF CmdInit, CreatedOK, CredentialsKept
<1>4. \A p \in Procs : Knows(cmd[p], store)  BY <1>1 DEF CmdInit
<1> QED  BY <1>2, <1>3, <1>4 DEF CmdInv

\* A process takes a step, the store keeps what it had, and the credentials
\* that were created are still there: then the invariant holds again.
LEMMA CmdStep ==
    ASSUME CmdInv, NEW p \in Procs, NEW c \in Command, cmd' = [cmd EXCEPT ![p] = c], Knows(c, store'),
           Keeps(store, store')
    PROVE  /\ cmd' \in [Procs -> Command]
           /\ \A q \in Procs : Knows(cmd'[q], store')
<1>1. cmd' \in [Procs -> Command]  BY DEF CmdInv, CmdTypeOK
<1>2. ASSUME NEW q \in Procs PROVE Knows(cmd'[q], store')
  <2>1. CASE q = p  BY <2>1 DEF CmdInv, CmdTypeOK
  <2>2. CASE q # p
    <3>1. cmd'[q] = cmd[q] /\ cmd[q] \in Command /\ Knows(cmd[q], store)  BY <2>2 DEF CmdInv, CmdTypeOK
    <3>2. ASSUME cmd[q].ids # <<>> PROVE cmd[q].ids[1] \in TunnelIDs /\ Head(cmd[q].ids) \in TunnelIDs
      BY <3>1, <3>2 DEF Command
    <3> QED  BY <3>1, <3>2 DEF Knows, Keeps
  <2> QED  BY <2>1, <2>2
<1> QED  BY <1>1, <1>2

\* The same when neither files nor the account of them change.
LEMMA CmdQuiet ==
    ASSUME CmdInv, NEW p \in Procs, NEW c \in Command, cmd' = [cmd EXCEPT ![p] = c], Knows(c, store'),
           Keeps(store, store'), UNCHANGED <<file, created, swept>>
    PROVE  CmdInv'
<1>1. cmd' \in [Procs -> Command] /\ \A q \in Procs : Knows(cmd'[q], store')  BY CmdStep
<1>2. CmdTypeOK'  BY <1>1 DEF CmdInv, CmdTypeOK, Keeps
<1>3. CreatedOK'  BY DEF CmdInv, CmdTypeOK, CreatedOK, Keeps
<1>4. CredentialsKept'
  <2> SUFFICES ASSUME NEW d \in created, store'[d.id].state = "active", d.path \notin swept PROVE file[d.path] = d.id
    BY DEF CredentialsKept, Active
  <2>1. d.id \in TunnelIDs /\ store[d.id].state # "free" /\ store[d.id] \in Entry  BY DEF CmdInv, CmdTypeOK, CreatedOK
  <2>2. store[d.id].state = "active"  BY <2>1 DEF Keeps, Entry
  <2> QED  BY <2>1, <2>2 DEF CmdInv, CredentialsKept, Active
<1> QED  BY <1>1, <1>2, <1>3, <1>4 DEF CmdInv

\* A command ends.
LEMMA CmdEnds ==
    ASSUME CmdInv, NEW p \in Procs, cmd' = [cmd EXCEPT ![p] = Ended], Keeps(store, store'),
           UNCHANGED <<file, created, swept>>
    PROVE  CmdInv'
<1>1. Ended \in Command /\ Ended.at = "ended"
  <2>1. Idle \in Command  BY DEF Idle, Command, Ops, Ats
  <2> QED  BY <2>1 DEF Ended, Command, Ats
<1>2. Knows(Ended, store')  BY <1>1 DEF Knows
<1> QED  BY <1>1, <1>2, CmdQuiet

\* A command that has ended because of a failure leaves the invariant, and so
\* does every other step of a command of a user who may not write read-only
\* files.
LEMMA CmdStepInv ==
    ASSUME ~Root, CmdInv, [CmdNext]_cmdVars
    PROVE  CmdInv'
<1> USE CommandsAssumption
<1>same. store' = store => Keeps(store, store')  BY DEF CmdInv, CmdTypeOK, Keeps
<1>typed. ASSUME NEW p \in Procs
          PROVE  /\ cmd[p] \in Command /\ Knows(cmd[p], store)
                 /\ cmd[p].ids # <<>> => /\ cmd[p].ids[1] \in TunnelIDs /\ Head(cmd[p].ids) = cmd[p].ids[1]
                                         /\ Tail(cmd[p].ids) \in Seq(TunnelIDs)
  BY <1>typed DEF CmdInv, CmdTypeOK, Command
<1>deleted. ASSUME NEW i \in TunnelIDs, NEW force, StoreDeletes(i, force)
            PROVE  Keeps(store, store') /\ store'[i].state = "deleted"
  BY <1>deleted DEF StoreDeletes, CmdInv, CmdTypeOK, Keeps, Entry
<1>created. ASSUME NEW i \in TunnelIDs, NEW n \in TunnelNames \union {NoTunnel}, StoreCreates(i, n)
            PROVE  Keeps(store, store') /\ store'[i].state = "active"
  BY <1>created DEF StoreCreates, CmdInv, CmdTypeOK, Keeps, Entry
<1> DEFINE Quiet == store' = store /\ file' = file /\ created' = created /\ swept' = swept
           Becomes(p, c) == cmd' = [cmd EXCEPT ![p] = c]
<1>goto. ASSUME NEW p \in Procs, Quiet, NEW at \in Ats, Becomes(p, [cmd[p] EXCEPT !.at = at]),
                Knows([cmd[p] EXCEPT !.at = at], store)
         PROVE  CmdInv'
  <2>1. [cmd[p] EXCEPT !.at = at] \in Command  BY <1>typed DEF Command
  <2> QED  BY <2>1, <1>goto, <1>same, CmdQuiet
<1>over. ASSUME NEW p \in Procs, Quiet, Becomes(p, Ended) PROVE CmdInv'  BY <1>over, <1>same, CmdEnds
<1>end. ASSUME NEW p \in Procs PROVE (Goto(p, "failed") => Becomes(p, Ended)) /\ (Goto(p, "done") => Becomes(p, Ended))
  BY DEF Goto
<1>1. ASSUME NEW p \in Procs, Login(p) PROVE CmdInv'
  <2>1. Quiet  BY <1>1 DEF Login
  <2>2. CASE Becomes(p, Ended)  BY <2>1, <2>2, <1>over
  <2>3. CASE Becomes(p, [Idle EXCEPT !.op = "login", !.at = "transfer"])
    <3>0. Idle \in Command  BY DEF Idle, Command, Ops, Ats
    <3>1. [Idle EXCEPT !.op = "login", !.at = "transfer"] \in Command  BY <3>0 DEF Command, Ops, Ats
    <3>2. Knows([Idle EXCEPT !.op = "login", !.at = "transfer"], store')  BY DEF Idle, Knows
    <3> QED  BY <2>1, <2>3, <3>1, <3>2, <1>same, CmdQuiet
  <2> QED  BY <1>1, <2>2, <2>3 DEF Login
<1>2. ASSUME NEW p \in Procs, WriteCert(p) PROVE CmdInv'  BY <1>2, <1>over, <1>end DEF WriteCert
\* The commands that are started.
<1>3. ASSUME NEW p \in Procs, NEW op \in Ops, NEW at \in Ats, NEW n \in TunnelNames \union {NoTunnel},
             NEW ids \in Seq(TunnelIDs), NEW f \in CredFiles \union {NoTunnel}, NEW force \in BOOLEAN,
             Invoke(p, op, at, n, ids, f, force),
             at \in {"post", "get", "find", "call"},
             at = "post" => op = "create",
             at = "get" => op = "token" /\ f # NoTunnel /\ ids # <<>>
      PROVE  CmdInv'
  <2> DEFINE c == [op |-> op, at |-> at, name |-> n, ids |-> ids, path |-> f, force |-> force]
  <2>1. c \in Command  BY DEF Command, Paths
  <2>2. c.op = op /\ c.at = at /\ c.path = f /\ c.ids = ids  OBVIOUS
  <2>3. Knows(c, store')  BY <1>3, <2>2 DEF Knows
  <2>4. Quiet /\ (Becomes(p, c) \/ Becomes(p, Ended))  BY <1>3 DEF Invoke
  <2> QED  BY <2>1, <2>3, <2>4, <1>same, <1>over, CmdQuiet
<1>4. ASSUME NEW p \in Procs, Create(p) \/ Delete(p) \/ Run(p) \/ Token(p) \/ Cleanup(p) \/ Route(p) PROVE CmdInv'
  <2> USE DEF Ops, Ats
  <2>0. <<>> \in Seq(TunnelIDs) /\ \A i \in TunnelIDs : <<i>> \in Seq(TunnelIDs) /\ <<i>> # <<>>  OBVIOUS
  <2>1. CASE Create(p)  BY <2>0, <2>1, <1>3 DEF Create
  <2>2. CASE Delete(p)
    <3>1. PICK n \in TunnelNames \union {NoTunnel}, ids \in {<<>>} \union {<<i>> : i \in TunnelIDs},
               f \in CredFiles \union {NoTunnel}, force \in BOOLEAN : Invoke(p, "delete", "find", n, ids, f, force)
      BY <2>2 DEF Delete
    <3>2. ids \in Seq(TunnelIDs)  BY <2>0
    <3> QED  BY <3>1, <3>2, <1>3
  <2>3. CASE Run(p)
    <3>1. PICK n \in TunnelNames \union {NoTunnel}, i \in TunnelIDs, f \in CredFiles \union {NoTunnel} :
               Invoke(p, "run", "find", n, IF n = NoTunnel THEN <<i>> ELSE <<>>, f, FALSE)
      BY <2>3 DEF Run
    <3> QED  BY <2>0, <3>1, <1>3
  <2>4. CASE Token(p)  BY <2>0, <2>4, <1>3 DEF Token
  <2>5. CASE Cleanup(p)  BY <2>0, <2>5, <1>3 DEF Cleanup
  <2>6. CASE Route(p)  BY <2>0, <2>6, <1>3 DEF Route
  <2> QED  BY <1>4, <2>1, <2>2, <2>3, <2>4, <2>5, <2>6
<1>5. ASSUME NEW p \in Procs, CreateTunnel(p) PROVE CmdInv'
  <2>1. cmd[p].at = "post" /\ UNCHANGED <<file, created, swept>>  BY <1>5 DEF CreateTunnel
  <2>2. CASE Goto(p, "failed") /\ store' = store  BY <2>1, <2>2, <1>end, <1>over
  <2>3. ASSUME NEW i \in TunnelIDs, StoreCreates(i, cmd[p].name), Goto(p, "failed") PROVE CmdInv'
    <3>1. Keeps(store, store')  BY <2>3, <1>created, <1>typed DEF Command
    <3> QED  BY <2>1, <2>3, <3>1, <1>end, CmdEnds
  <2>4. ASSUME NEW i \in TunnelIDs, StoreCreates(i, cmd[p].name),
               cmd' = [cmd EXCEPT ![p].at = "stat", ![p].ids = <<i>>, ![p].path = IF @ = NoTunnel THEN i ELSE @]
        PROVE  CmdInv'
    <3>1. Keeps(store, store') /\ store'[i].state = "active"  BY <2>4, <1>created, <1>typed DEF Command
    <3> DEFINE f == IF cmd[p].path = NoTunnel THEN i ELSE cmd[p].path
               c == [cmd[p] EXCEPT !.at = "stat", !.ids = <<i>>, !.path = f]
    <3>2. Becomes(p, c)  BY <2>4, <1>typed DEF Command, CmdInv, CmdTypeOK
    <3>3. cmd[p].op = "create" /\ (f = i \/ f \in CredFiles)  BY <2>1, <1>typed DEF Knows
    <3>4. <<i>> \in Seq(TunnelIDs) /\ f \in Paths \union {NoTunnel} /\ "stat" \in Ats  BY <3>3 DEF Paths, Ats
    <3>5. c \in Command  BY <3>4, <1>typed, CommandUpdates
    <3>6. c.op = "create" /\ c.at = "stat" /\ c.ids = <<i>> /\ c.path = f  BY <3>3, <1>typed DEF Command
    <3>7. Knows(c, store')  BY <3>1, <3>3, <3>6 DEF Knows
    <3> HIDE DEF c
    <3> QED  BY <2>1, <3>1, <3>2, <3>5, <3>7, CmdQuiet
  <2> QED  BY <1>5, <2>2, <2>3, <2>4 DEF CreateTunnel
<1>6. ASSUME NEW p \in Procs, GetTunnelToken(p) PROVE CmdInv'
  <2>1. cmd[p].at = "get" /\ Quiet  BY <1>6 DEF GetTunnelToken
  <2>2. CASE Goto(p, "stat")
    <3>1. Becomes(p, [cmd[p] EXCEPT !.at = "stat"])  BY <2>2 DEF Goto
    <3>2. Knows([cmd[p] EXCEPT !.at = "stat"], store)  BY <2>1, <1>typed DEF Knows, Command
    <3> QED  BY <2>1, <3>1, <3>2, <1>goto DEF Ats
  <2>3. CASE Goto(p, "failed")  BY <2>1, <2>3, <1>end, <1>over
  <2> QED  BY <1>6, <2>2, <2>3 DEF GetTunnelToken
<1>undo. ASSUME NEW p \in Procs, Quiet, Undo(p), cmd[p].at \in {"stat", "write"} PROVE CmdInv'
  <2>1. CASE Goto(p, "failed")  BY <1>undo, <2>1, <1>end, <1>over
  <2>2. CASE cmd[p].op = "create" /\ Goto(p, "rollback")
    <3>1. Becomes(p, [cmd[p] EXCEPT !.at = "rollback"])  BY <2>2 DEF Goto
    <3>2. Knows([cmd[p] EXCEPT !.at = "rollback"], store)  BY <1>undo, <2>2, <1>typed DEF Knows, Command
    <3> QED  BY <1>undo, <3>1, <3>2, <1>goto DEF Ats
  <2> QED  BY <1>undo, <2>1, <2>2 DEF Undo
<1>7. ASSUME NEW p \in Procs, StatCredentials(p) PROVE CmdInv'
  <2>1. cmd[p].at = "stat" /\ Quiet  BY <1>7 DEF StatCredentials
  <2>2. CASE Goto(p, "write")
    <3>1. Becomes(p, [cmd[p] EXCEPT !.at = "write"])  BY <2>2 DEF Goto
    <3>2. Knows([cmd[p] EXCEPT !.at = "write"], store)  BY <2>1, <1>typed DEF Knows, Command
    <3> QED  BY <2>1, <3>1, <3>2, <1>goto DEF Ats
  <2> QED  BY <1>7, <2>1, <2>2, <1>undo DEF StatCredentials
\* The file is written only where none is: then no tunnel that exists had its
\* credentials there.
<1>8. ASSUME NEW p \in Procs, WriteCredentials(p) PROVE CmdInv'
  <2>1. cmd[p].at = "write" /\ store' = store /\ swept' = swept  BY <1>8 DEF WriteCredentials
  <2>2. CASE Undo(p) /\ UNCHANGED <<file, created>>  BY <2>1, <2>2, <1>undo
  <2>3. CASE /\ file[cmd[p].path] = NoTunnel
             /\ file' = [file EXCEPT ![cmd[p].path] = cmd[p].ids[1]] /\ Goto(p, "done")
             /\ created' = IF cmd[p].op = "create" THEN created \union {[id |-> cmd[p].ids[1], path |-> cmd[p].path]}
                           ELSE created
    <3> DEFINE i == cmd[p].ids[1]
               f == cmd[p].path
    <3>1. i \in TunnelIDs /\ (f \in CredFiles \/ f = i) /\ (cmd[p].op = "create" => store[i].state # "free")
      BY <2>1, <1>typed DEF Knows
    <3>2. Ended \in Command /\ Knows(Ended, store)
      <4>1. Idle \in Command  BY DEF Idle, Command, Ops, Ats
      <4>2. Ended \in Command /\ Ended.at = "ended"  BY <4>1 DEF Ended, Command, Ats
      <4> QED  BY <4>2 DEF Knows
    <3>3. cmd' \in [Procs -> Command] /\ \A q \in Procs : Knows(cmd'[q], store')
      BY <2>1, <2>3, <3>2, <1>end, <1>same, CmdStep
    <3> HIDE DEF i, f
    <3>4. f \in Paths /\ file' = [file EXCEPT ![f] = i] /\ file[f] = NoTunnel
      BY <2>3, <3>1 DEF Paths, i, f
    <3>5. created' \subseteq created \union {[id |-> i, path |-> f]} /\ (cmd[p].op # "create" => created' = created)
      BY <2>3 DEF i, f
    <3>6. CmdTypeOK'  BY <2>1, <3>1, <3>3, <3>4, <3>5 DEF CmdInv, CmdTypeOK
    <3>7. CreatedOK'  BY <2>1, <3>1, <3>5 DEF CmdInv, CmdTypeOK, CreatedOK
    <3>8. CredentialsKept'
      <4> SUFFICES ASSUME NEW d \in created', d.id \in Active', d.path \notin swept' PROVE file'[d.path] = d.id
        BY DEF CredentialsKept
      <4>1. Active' = Active  BY <2>1 DEF Active
      <4>2. CASE d = [id |-> i, path |-> f]  BY <3>4, <4>2 DEF CmdInv, CmdTypeOK
      <4>3. CASE d \in created
        <5>1. file[d.path] = d.id /\ d.id \in TunnelIDs /\ d.path \in Paths
          BY <2>1, <4>1, <4>3 DEF CmdInv, CmdTypeOK, CredentialsKept
        <5>2. d.path # f  BY <3>4, <5>1
        <5> QED  BY <3>4, <5>1, <5>2 DEF CmdInv, CmdTypeOK
      <4> QED  BY <3>5, <4>2, <4>3
    <3> QED  BY <3>3, <3>6, <3>7, <3>8 DEF CmdInv
  <2> QED  BY <1>8, <2>2, <2>3 DEF WriteCredentials
<1>9. ASSUME NEW p \in Procs, RollBack(p) PROVE CmdInv'
  <2>1. cmd[p].at = "rollback" /\ Becomes(p, Ended) /\ UNCHANGED <<file, created, swept>>  BY <1>9, <1>end DEF RollBack
  <2>2. cmd[p].ids[1] \in TunnelIDs  BY <2>1, <1>typed DEF Knows
  <2>3. Keeps(store, store')  BY <1>9, <2>2, <1>same, <1>deleted DEF RollBack
  <2> QED  BY <2>1, <2>3, CmdEnds
\* A step that also changes the ids of the command.
<1>ids. ASSUME NEW p \in Procs, Quiet, NEW at \in {"getTunnel", "credentials"}, NEW ids \in Seq(TunnelIDs),
               cmd' = [cmd EXCEPT ![p].at = at, ![p].ids = ids], cmd[p].path \in CredFiles \union {NoTunnel}
        PROVE  CmdInv'
  <2> DEFINE c == [cmd[p] EXCEPT !.at = at, !.ids = ids]
  <2>1. Becomes(p, c)  BY <1>ids, <1>typed DEF Command, CmdInv, CmdTypeOK
  <2>2. c \in Command  BY <1>typed, CommandUpdates DEF Ats
  <2>3. c.at = at /\ c.path = cmd[p].path  BY <1>typed DEF Command
  <2>4. Knows(c, store')  BY <1>ids, <2>3 DEF Knows
  <2> HIDE DEF c
  <2> QED  BY <1>ids, <2>1, <2>2, <2>4, <1>same, CmdQuiet
<1>10. ASSUME NEW p \in Procs, FindIDs(p) PROVE CmdInv'
  <2>1. cmd[p].at = "find" /\ Quiet  BY <1>10 DEF FindIDs
  <2>2. CASE Goto(p, "getTunnel")
    <3>1. Becomes(p, [cmd[p] EXCEPT !.at = "getTunnel"])  BY <2>2 DEF Goto
    <3>2. Knows([cmd[p] EXCEPT !.at = "getTunnel"], store)  BY <2>1, <1>typed DEF Knows, Command
    <3> QED  BY <2>1, <3>1, <3>2, <1>goto DEF Ats
  <2>3. CASE Goto(p, "failed")  BY <2>1, <2>3, <1>end, <1>over
  <2>4. ASSUME NEW i \in TunnelIDs, cmd' = [cmd EXCEPT ![p].at = "getTunnel", ![p].ids = Append(@, i)] PROVE CmdInv'
    <3>1. cmd' = [cmd EXCEPT ![p].at = "getTunnel", ![p].ids = Append(cmd[p].ids, i)]
      BY <2>4, <1>typed DEF Command, CmdInv, CmdTypeOK
    <3>2. Append(cmd[p].ids, i) \in Seq(TunnelIDs)  BY <1>typed DEF Command
    <3>3. cmd[p].path \in CredFiles \union {NoTunnel}  BY <2>1, <1>typed DEF Knows
    <3> QED  BY <2>1, <3>1, <3>2, <3>3, <1>ids
  <2> QED  BY <1>10, <2>2, <2>3, <2>4 DEF FindIDs
<1>11. ASSUME NEW p \in Procs, GetTunnel(p) PROVE CmdInv'
  <2>1. cmd[p].at = "getTunnel" /\ Quiet  BY <1>11 DEF GetTunnel
  <2>2. CASE Goto(p, "done") \/ Goto(p, "failed")  BY <2>1, <2>2, <1>end, <1>over
  <2>3. CASE cmd[p].ids # <<>> /\ Goto(p, "delete")
    <3>1. Becomes(p, [cmd[p] EXCEPT !.at = "delete"])  BY <2>3 DEF Goto
    <3>2. Knows([cmd[p] EXCEPT !.at = "delete"], store)  BY <2>1, <2>3, <1>typed DEF Knows, Command
    <3> QED  BY <2>1, <3>1, <3>2, <1>goto DEF Ats
  <2> QED  BY <1>11, <2>2, <2>3 DEF GetTunnel
<1>12. ASSUME NEW p \in Procs, DeleteTunnel(p) PROVE CmdInv'
  <2>1. cmd[p].at = "delete" /\ UNCHANGED <<file, created, swept>>  BY <1>12 DEF DeleteTunnel
  <2>2. CASE Goto(p, "failed") /\ store' = store  BY <2>1, <2>2, <1>end, <1>over
  <2>3. CASE StoreDeletes(Head(cmd[p].ids), cmd[p].force) /\ Goto(p, "remove")
    <3> DEFINE c == [cmd[p] EXCEPT !.at = "remove"]
    <3>1. cmd[p].ids # <<>> /\ Head(cmd[p].ids) \in TunnelIDs /\ cmd[p].path \in CredFiles \union {NoTunnel}
      BY <2>1, <1>typed DEF Knows
    <3>2. Keeps(store, store') /\ store'[Head(cmd[p].ids)].state = "deleted"  BY <2>3, <3>1, <1>deleted
    <3>3. Becomes(p, c)  BY <2>3 DEF Goto
    <3>4. c \in Command /\ c.at = "remove" /\ c.path = cmd[p].path /\ c.ids = cmd[p].ids  BY <1>typed DEF Command, Ats
    <3>5. Knows(c, store')  BY <3>1, <3>2, <3>4 DEF Knows
    <3> HIDE DEF c
    <3> QED  BY <2>1, <3>2, <3>3, <3>4, <3>5, CmdQuiet
  <2> QED  BY <1>12, <2>2, <2>3 DEF DeleteTunnel
\* What is removed was given to the command, or is named after a tunnel that is deleted.
<1>13. ASSUME NEW p \in Procs, RemoveCredentials(p) PROVE CmdInv'
  <2> DEFINE i == Head(cmd[p].ids)
             f == CredPath(p, i)
             c == [cmd[p] EXCEPT !.at = "getTunnel", !.ids = Tail(cmd[p].ids)]
  <2>1. cmd[p].at = "remove" /\ RemoveFile(p) /\ UNCHANGED <<store, created>>  BY <1>13 DEF RemoveCredentials
  <2>2. /\ cmd[p].ids # <<>> /\ i \in TunnelIDs /\ Tail(cmd[p].ids) \in Seq(TunnelIDs)
        /\ cmd[p].path \in CredFiles \union {NoTunnel} /\ store[i].state = "deleted"
    BY <2>1, <1>typed DEF Knows
  <2>3. Becomes(p, c)  BY <2>1, <1>typed DEF RemoveFile, Command, CmdInv, CmdTypeOK
  <2>4. c \in Command  BY <2>2, <1>typed, CommandUpdates DEF Ats
  <2>5. c.at = "getTunnel" /\ c.path = cmd[p].path  BY <1>typed DEF Command
  <2>6. Knows(c, store')  BY <2>2, <2>5 DEF Knows
  <2>7. f \in CredFiles \/ f = i  BY <2>2 DEF CredPath
  <2>8. \/ file' = [file EXCEPT ![f] = NoTunnel] /\ swept' = swept \union ({f} \intersect CredFiles)
        \/ UNCHANGED <<file, swept>>
    BY <2>1 DEF RemoveFile
  <2> HIDE DEF c, f, i
  <2>9. CASE UNCHANGED <<file, swept>>  BY <2>1, <2>3, <2>4, <2>6, <2>9, <1>same, CmdQuiet
  <2>10. CASE file' = [file EXCEPT ![f] = NoTunnel] /\ swept' = swept \union ({f} \intersect CredFiles)
    <3>1. cmd' \in [Procs -> Command] /\ \A q \in Procs : Knows(cmd'[q], store')
      BY <2>1, <2>3, <2>4, <2>6, <1>same, CmdStep
    <3>2. CmdTypeOK'  BY <2>1, <2>10, <3>1 DEF CmdInv, CmdTypeOK
    <3>3. CreatedOK'  BY <2>1 DEF CmdInv, CreatedOK
    <3>4. CredentialsKept'
      <4> SUFFICES ASSUME NEW d \in created, d.id \in Active, d.path \notin swept' PROVE file'[d.path] = d.id
        BY <2>1 DEF CredentialsKept, Active
      <4>1. file[d.path] = d.id /\ d.path \in Paths /\ (d.path \in CredFiles \/ d.path = d.id)
        BY <2>10 DEF CmdInv, CmdTypeOK, CreatedOK, CredentialsKept
      <4>2. d.path # f  BY <2>2, <2>7, <2>10, <4>1 DEF Active
      <4> QED  BY <2>10, <4>1, <4>2 DEF CmdInv, CmdTypeOK
    <3> QED  BY <3>1, <3>2, <3>3, <3>4 DEF CmdInv
  <2> QED  BY <2>8, <2>9, <2>10
<1>14. ASSUME NEW p \in Procs, FindID(p) PROVE CmdInv'
  <2>1. cmd[p].at = "find" /\ Quiet  BY <1>14 DEF FindID
  <2>2. CASE Goto(p, "credentials")
    <3>1. Becomes(p, [cmd[p] EXCEPT !.at = "credentials"])  BY <2>2 DEF Goto
    <3>2. Knows([cmd[p] EXCEPT !.at = "credentials"], store)  BY <2>1, <1>typed DEF Knows, Command
    <3> QED  BY <2>1, <3>1, <3>2, <1>goto DEF Ats
  <2>3. CASE Goto(p, "failed")  BY <2>1, <2>3, <1>end, <1>over
  <2>4. ASSUME NEW i \in TunnelIDs, cmd' = [cmd EXCEPT ![p].at = "credentials", ![p].ids = <<i>>] PROVE CmdInv'
    <3>1. <<i>> \in Seq(TunnelIDs) /\ cmd[p].path \in CredFiles \union {NoTunnel}  BY <2>1, <1>typed DEF Knows
    <3> QED  BY <2>1, <2>4, <3>1, <1>ids
  <2>5. (cmd[p].path # NoTunnel /\ file[cmd[p].path] # NoTunnel) => file[cmd[p].path] \in TunnelIDs
    BY <1>typed DEF Command, CmdInv, CmdTypeOK
  <2>6. TunnelActive(cmd[p].name) \subseteq TunnelIDs  BY DEF TunnelActive, ListTunnels, Active
  <2> QED  BY <1>14, <2>2, <2>3, <2>4, <2>5, <2>6 DEF FindID
<1>15. ASSUME NEW p \in Procs, RunWithCredentials(p) PROVE CmdInv'
  <2>1. cmd[p].at = "credentials" /\ Quiet  BY <1>15 DEF RunWithCredentials
  <2>2. CASE Goto(p, "running")
    <3>1. Becomes(p, [cmd[p] EXCEPT !.at = "running"])  BY <2>2 DEF Goto
    <3>2. Knows([cmd[p] EXCEPT !.at = "running"], store)  BY <2>1, <1>typed DEF Knows, Command
    <3> QED  BY <2>1, <3>1, <3>2, <1>goto DEF Ats
  <2>3. CASE Goto(p, "failed")  BY <2>1, <2>3, <1>end, <1>over
  <2> QED  BY <1>15, <2>2, <2>3 DEF RunWithCredentials
<1>16. ASSUME NEW p \in Procs, Stop(p) \/ CleanupConnections(p) \/ RouteTunnel(p) \/ Interrupt(p) PROVE CmdInv'
  <2>1. Quiet /\ (Goto(p, "done") \/ Goto(p, "failed"))  BY <1>16 DEF Stop, CleanupConnections, RouteTunnel, Interrupt
  <2> QED  BY <2>1, <1>end, <1>over
<1>17. CASE UNCHANGED cmdVars
  BY <1>17 DEF cmdVars, CmdInv, CmdTypeOK, CreatedOK, CredentialsKept, Active
<1> QED  BY <1>1, <1>2, <1>4, <1>5, <1>6, <1>7, <1>8, <1>9, <1>10, <1>11, <1>12, <1>13, <1>14, <1>15, <1>16, <1>17
         DEF CmdNext

\* For any number of processes, tunnels and paths, run by a user who is not
\* root: as long as a tunnel exists that a create command reported as created,
\* its credentials are in the file that the command named, unless that path was
\* given to a delete command.  Root may write the read-only file in between the
\* look and the write of another create, which is why root is excluded.
THEOREM CommandsSafe == ~Root => (CmdSpec => []CredentialsKept)
<1> SUFFICES ASSUME ~Root PROVE CmdSpec => []CredentialsKept  OBVIOUS
<1>1. CmdInv => CredentialsKept  BY DEF CmdInv
<1>2. CmdInv /\ [CmdNext]_cmdVars => CmdInv'  BY CmdStepInv
<1> QED  BY <1>1, <1>2, CmdInitInv, PTL DEF CmdSpec
-----------------------------------------------------------------------------
(* The options of a tunnel's connections *)

TCSpec == TCInit /\ [][TCNext]_tcVars

\* What the fields of a connection range over, given the flags.
FlagFeatures == UNION {f.features : f \in FlagSets}
Announceable == FlagFeatures \union {"v2", "v3_2", "postquantum"}
Strictness == {f.postQuantum : f \in FlagSets} \union {FALSE}
FamilyNames == {f.ipVersion : f \in FlagSets} \union {f.bind : f \in FlagSets} \union {"", "none", "4", "6"}
Link == [at : {"down", "dial", "handshake", "serve"}, quic : BOOLEAN, version : {"none", "v2", "v3_2"},
         announced : SUBSET Announceable, strict : Strictness, family : FamilyNames,
         port : Sockets \union {NoPort}, handler : {"none", "v2", "v3"}]

\* What is true of a connection at each of its steps, under the configuration c.
LinkOK(l, c) ==
    /\ l.at # "down" => (c.bind # "" => l.family = c.bind) /\ (c.strict => l.strict)
    /\ (l.at \in {"dial", "handshake"} /\ l.quic) \/ l.at = "serve" =>
          /\ "v3_2" \in l.announced <=> l.version = "v3_2"
          /\ c.strict => "postquantum" \in l.announced
    /\ l.at = "handshake" => l.quic
    /\ (l.at = "serve" /\ l.quic) => (l.handler = "v3" <=> l.version = "v3_2")

ConfigOK ==
    /\ config.cli \subseteq Announceable /\ config.strict \in Strictness /\ config.ipVersion \in FamilyNames
    /\ config.at = "ready" =>
          /\ config.bind # "" => config.ipVersion = config.bind /\ config.bind # "auto"
          /\ config.strict => "postquantum" \in config.cli
          /\ config.static # {} => resolvers = config.static
    /\ config.at = "none" => flags \subseteq FlagSets

TCInv ==
    /\ link \in [Indexes -> Link] /\ portFor \in [Indexes -> Sockets \union {NoPort}]
    /\ ConfigOK
    /\ config.at # "ready" => \A i \in Indexes : link[i] = Down
    /\ \A i \in Indexes : LinkOK(link[i], config)
    /\ \A i, j \in Indexes : (i # j /\ link[i].port # NoPort) => link[j].port # link[i].port

\* A connection that is down.
LEMMA DownLink == Down \in Link /\ (\A c : LinkOK(Down, c)) /\ Down.port = NoPort /\ Down.at = "down" /\ ~Down.quic
<1>1. Down \in Link  BY DEF Down, Link, Strictness, FamilyNames
<1>2. Down.port = NoPort /\ Down.at = "down" /\ ~Down.quic  BY DEF Down
<1>3. \A c : LinkOK(Down, c)  BY <1>2 DEF LinkOK
<1> QED  BY <1>1, <1>2, <1>3

\* No connection is made before the flags are read.
LEMMA TCInitInv == TCInit => TCInv
<1> SUFFICES ASSUME TCInit PROVE TCInv  OBVIOUS
<1>1. \A i \in Indexes : link[i] = Down  BY DEF TCInit
<1>2. link \in [Indexes -> Link] /\ portFor \in [Indexes -> Sockets \union {NoPort}]  BY DownLink DEF TCInit
<1>3. ConfigOK  BY DEF TCInit, ConfigOK, Announceable, Strictness, FamilyNames
<1> QED  BY <1>1, <1>2, <1>3, DownLink DEF TCInv

\* A step of one connection, to a record l that fits the configuration and has
\* no socket, the one it had, or one that nobody has.
LEMMA LinkStep ==
    ASSUME TCInv, NEW i \in Indexes, NEW l \in Link, link' = [link EXCEPT ![i] = l],
           config.at = "ready", LinkOK(l, config),
           l.port = NoPort \/ l.port = link[i].port \/ \A j \in Indexes : l.port # link[j].port,
           portFor' \in [Indexes -> Sockets \union {NoPort}], UNCHANGED <<flags, config, resolvers>>
    PROVE  TCInv'
<1>1. link' \in [Indexes -> Link] /\ link'[i] = l /\ \A j \in Indexes : j # i => link'[j] = link[j]  BY DEF TCInv
<1>2. \A j \in Indexes : LinkOK(link'[j], config')  BY <1>1 DEF TCInv
<1>3. ConfigOK'  BY DEF TCInv, ConfigOK
<1>4. \A j, k \in Indexes : (j # k /\ link'[j].port # NoPort) => link'[k].port # link'[j].port  BY <1>1 DEF TCInv
<1> QED  BY <1>1, <1>2, <1>3, <1>4 DEF TCInv

\* What may be announced contains the features of the program and of the flags.
LEMMA FeaturesNamed ==
    /\ {"v2", "v3_2", "postquantum"} \subseteq Announceable
    /\ \A f \in FlagSets : f.features \subseteq Announceable
<1>1. \A f \in FlagSets : f.features \subseteq FlagFeatures  BY DEF FlagFeatures
<1> QED  BY <1>1 DEF Announceable

\* The features that are announced for a percentage p name datagrams v3 exactly
\* when the version that is chosen for it is v3.
LEMMA SnapshotAgrees ==
    ASSUME ConfigOK, NEW p
    PROVE  /\ DatagramVersion(p) \in {"v2", "v3_2"} /\ ClientFeatures(p) \subseteq Announceable
           /\ "v3_2" \in ClientFeatures(p) <=> DatagramVersion(p) = "v3_2"
           /\ "postquantum" \in config.cli => "postquantum" \in ClientFeatures(p)
<1>1. DatagramVersion(p) \in {"v2", "v3_2"} /\ ("v3_2" \in config.cli => DatagramVersion(p) = "v3_2")
  BY DEF DatagramVersion
<1>2. ClientFeatures(p) = ({"v2"} \union config.cli \union {DatagramVersion(p)}) \ {"v3", "v3_1"}
  BY DEF ClientFeatures, DedupAndRemoveFeatures, DefaultFeatures
<1>3. config.cli \subseteq Announceable /\ {"v2", "v3_2"} \subseteq Announceable  BY FeaturesNamed DEF ConfigOK
<1> QED  BY <1>1, <1>2, <1>3

\* A connection that has just taken the snapshot of the features agrees with
\* the configuration, when it dials and when HTTP/2 serves it.
LEMMA SnapshotOK ==
    ASSUME ConfigOK, config.at = "ready", NEW p, NEW l,
           l.at = "dial" \/ (l.at = "serve" /\ ~l.quic),
           config.bind # "" => l.family = config.bind, l.strict = config.strict,
           l.version = DatagramVersion(p), l.announced = ClientFeatures(p)
    PROVE  LinkOK(l, config)
<1>1. /\ "v3_2" \in l.announced <=> l.version = "v3_2"
      /\ "postquantum" \in config.cli => "postquantum" \in l.announced
  BY SnapshotAgrees
<1>2. config.strict => "postquantum" \in config.cli  BY DEF ConfigOK
<1> QED  BY <1>1, <1>2 DEF LinkOK

\* Every step that reads the flags, refreshes the features or makes and ends
\* connections keeps the invariant.
LEMMA TCStepInv == TCInv /\ [TCNext]_tcVars => TCInv'
<1> SUFFICES ASSUME TCInv, [TCNext]_tcVars PROVE TCInv'  OBVIOUS
<1>link. ASSUME NEW i \in Indexes
         PROVE  /\ link[i] \in Link /\ LinkOK(link[i], config)
                /\ (link[i].at # "down" => config.at = "ready") /\ ConfigOK
  BY DownLink DEF TCInv
<1>1. CASE PrepareTunnelConfig
  <2>1. /\ config.at = "none" /\ UNCHANGED <<portFor, link>> /\ flags' = {}
        /\ flags \subseteq FlagSets
    BY <1>1 DEF PrepareTunnelConfig, TCInv, ConfigOK
  <2>2. PICK f \in FlagSets :
          /\ config' = [at |-> IF Invalid(f) THEN "failed" ELSE "ready",
                        ipVersion |-> AdjustIPVersionByBindAddress(f.ipVersion, f.bind), bind |-> f.bind,
                        cli |-> CliFeatures(f), strict |-> f.postQuantum, static |-> f.resolvers,
                        icmp |-> ICMPSources(f)]
          /\ resolvers' = IF f.resolvers = {} \/ Invalid(f) THEN Default ELSE f.resolvers
    BY <1>1, <2>1 DEF PrepareTunnelConfig
  <2>3. /\ config'.at \in {"failed", "ready"} /\ (config'.at = "ready" => ~Invalid(f))
        /\ config'.bind = f.bind /\ config'.cli = CliFeatures(f) /\ config'.strict = f.postQuantum
        /\ config'.static = f.resolvers /\ config'.ipVersion = AdjustIPVersionByBindAddress(f.ipVersion, f.bind)
    BY <2>2
  <2>4. config'.at = "ready" => f.bind \in {"", "4", "6"}  BY <2>3 DEF Invalid, BindAddress
  <2>5. CliFeatures(f) \subseteq Announceable /\ (f.postQuantum => "postquantum" \in CliFeatures(f))
    <3>1. f.features \subseteq Announceable /\ "postquantum" \in Announceable  BY FeaturesNamed
    <3>2. CliFeatures(f) = (f.features \union (IF f.postQuantum THEN {"postquantum"} ELSE {})) \ {"v3", "v3_1"}
      BY DEF CliFeatures, DedupAndRemoveFeatures
    <3>3. CASE f.postQuantum  BY <3>1, <3>2, <3>3
    <3>4. CASE ~f.postQuantum  BY <3>1, <3>2, <3>4
    <3> QED  BY <3>3, <3>4
  <2>6. AdjustIPVersionByBindAddress(f.ipVersion, f.bind) \in FamilyNames
        /\ (f.bind # "" => AdjustIPVersionByBindAddress(f.ipVersion, f.bind) = f.bind)
    BY DEF AdjustIPVersionByBindAddress, FamilyNames
  <2>7. (config'.at = "ready" /\ f.resolvers # {}) => resolvers' = f.resolvers  BY <2>2, <2>3
  <2>8. f.postQuantum \in Strictness  BY DEF Strictness
  <2>9. ConfigOK'  BY <2>3, <2>4, <2>5, <2>6, <2>7, <2>8 DEF ConfigOK
  <2>10. \A i \in Indexes : link'[i] = Down  BY <2>1 DEF TCInv
  <2> QED  BY <2>1, <2>9, <2>10, DownLink DEF TCInv
<1>2. CASE RefreshFeatures  BY <1>2 DEF RefreshFeatures, TCInv, ConfigOK
<1>3. CASE UpdateResolver  BY <1>3 DEF UpdateResolver, TCInv, ConfigOK
<1>family. ASSUME NEW a \in EdgeFamilies, config.at = "ready"
           PROVE  a \in FamilyNames /\ (config.bind # "" => a = config.bind)
  BY <1>family DEF EdgeFamilies, TCInv, ConfigOK, FamilyNames
<1>4. ASSUME NEW i \in Indexes, ConnectQUIC(i) PROVE TCInv'
  <2>1. config.at = "ready" /\ UNCHANGED <<flags, config, portFor, resolvers>>  BY <1>4 DEF ConnectQUIC
  <2>2. PICK a \in EdgeFamilies : link' = [link EXCEPT ![i] = [Snapshot(Down, percent) EXCEPT !.at = "dial", !.quic = TRUE, !.family = a]]
    BY <1>4 DEF ConnectQUIC
  <2> DEFINE l == [Snapshot(Down, percent) EXCEPT !.at = "dial", !.quic = TRUE, !.family = a]
  <2>3. /\ DatagramVersion(percent) \in {"v2", "v3_2"} /\ ClientFeatures(percent) \in SUBSET Announceable
        /\ config.strict \in Strictness /\ a \in FamilyNames /\ (config.bind # "" => a = config.bind)
    BY <2>1, <1>link, <1>family, SnapshotAgrees DEF ConfigOK
  <2>4. Snapshot(Down, percent) \in Link  BY <2>3, DownLink DEF Snapshot, Link
  <2>5. l \in Link  BY <2>3, <2>4 DEF Link
  <2>6. /\ l.at = "dial" /\ l.family = a /\ l.strict = config.strict /\ l.version = DatagramVersion(percent)
        /\ l.announced = ClientFeatures(percent) /\ l.port = NoPort
    BY DownLink DEF Snapshot, Link
  <2> HIDE DEF l
  <2>7. LinkOK(l, config)
    <3>1. ConfigOK  BY <1>link
    <3> QED  BY <2>1, <2>3, <2>6, <3>1, SnapshotOK
  <2>8. portFor' \in [Indexes -> Sockets \union {NoPort}]  BY <2>1 DEF TCInv
  <2>9. link' = [link EXCEPT ![i] = l]  BY <2>2 DEF l
  <2> QED  BY <2>1, <2>5, <2>6, <2>7, <2>8, <2>9, LinkStep
<1>5. ASSUME NEW i \in Indexes, CreateUDPConn(i) PROVE TCInv'
  <2>1. link[i].at = "dial" /\ link[i].quic /\ UNCHANGED <<flags, config, resolvers>>  BY <1>5 DEF CreateUDPConn
  <2>2. config.at = "ready"  BY <2>1, <1>link
  <2>3. ASSUME NEW s \in Sockets \ Busy, Listen(i, s) PROVE TCInv'
    <3> DEFINE l == [link[i] EXCEPT !.at = "handshake", !.port = s]
    <3>1. link' = [link EXCEPT ![i] = l]  BY <2>3 DEF Listen
    <3>2. l \in Link  BY <1>link DEF Link
    <3>3. /\ l.at = "handshake" /\ l.port = s /\ l.quic = link[i].quic /\ l.family = link[i].family
          /\ l.strict = link[i].strict /\ l.announced = link[i].announced /\ l.version = link[i].version
      BY <1>link DEF Link
    <3>4. LinkOK(l, config)  BY <2>1, <3>3, <1>link DEF LinkOK
    <3>5. \A j \in Indexes : l.port # link[j].port  BY <2>3, <3>3 DEF Busy
    <3>6. portFor' \in [Indexes -> Sockets \union {NoPort}]  BY <2>3 DEF Listen, TCInv
    <3> HIDE DEF l
    <3> QED  BY <2>1, <2>2, <3>1, <3>2, <3>4, <3>5, <3>6, LinkStep
  <2>4. CASE portFor' = [portFor EXCEPT ![i] = NoPort] /\ link' = [link EXCEPT ![i] = Down]
    <3>1. portFor' \in [Indexes -> Sockets \union {NoPort}]  BY <2>4 DEF TCInv
    <3> QED  BY <2>1, <2>2, <2>4, <3>1, DownLink, LinkStep
  <2> QED  BY <1>5, <2>3, <2>4 DEF CreateUDPConn
<1>6. ASSUME NEW i \in Indexes, ServeQUIC(i) PROVE TCInv'
  <2> DEFINE l == [link[i] EXCEPT !.at = "serve", !.handler = Handler(i)]
  <2>1. link[i].at = "handshake" /\ link' = [link EXCEPT ![i] = l] /\ UNCHANGED <<flags, config, portFor, resolvers>>
    BY <1>6, <1>link DEF ServeQUIC, Link, TCInv
  <2>2. Handler(i) \in {"v2", "v3"} /\ (Handler(i) = "v3" <=> link[i].version = "v3_2")  BY DEF Handler
  <2>3. l \in Link  BY <2>2, <1>link DEF Link
  <2>4. /\ l.at = "serve" /\ l.handler = Handler(i) /\ l.quic = link[i].quic /\ l.family = link[i].family
        /\ l.strict = link[i].strict /\ l.announced = link[i].announced /\ l.version = link[i].version
        /\ l.port = link[i].port
    BY <1>link DEF Link
  <2>5. LinkOK(l, config)  BY <2>1, <2>2, <2>4, <1>link DEF LinkOK
  <2>6. config.at = "ready" /\ portFor' \in [Indexes -> Sockets \union {NoPort}]  BY <2>1, <1>link DEF TCInv
  <2> HIDE DEF l
  <2> QED  BY <2>1, <2>3, <2>4, <2>5, <2>6, LinkStep
<1>7. ASSUME NEW i \in Indexes, ConnectHTTP2(i) PROVE TCInv'
  <2>1. config.at = "ready" /\ link[i] = Down /\ UNCHANGED <<flags, config, portFor, resolvers>>  BY <1>7 DEF ConnectHTTP2
  <2>2. PICK a \in EdgeFamilies : link' = [link EXCEPT ![i].at = "dial", ![i].family = a, ![i].strict = config.strict]
    BY <1>7 DEF ConnectHTTP2
  <2> DEFINE l == [Down EXCEPT !.at = "dial", !.family = a, !.strict = config.strict]
  <2>3. link' = [link EXCEPT ![i] = l]  BY <2>1, <2>2, <1>link DEF TCInv, Link
  <2>4. config.strict \in Strictness /\ a \in FamilyNames /\ (config.bind # "" => a = config.bind)
    BY <2>1, <1>link, <1>family DEF ConfigOK
  <2>5. l \in Link  BY <2>4, DownLink DEF Link
  <2>6. l.at = "dial" /\ l.family = a /\ l.strict = config.strict /\ l.port = NoPort /\ ~l.quic  BY DownLink DEF Link
  <2>7. LinkOK(l, config)  BY <2>4, <2>6 DEF LinkOK
  <2>8. portFor' \in [Indexes -> Sockets \union {NoPort}]  BY <2>1 DEF TCInv
  <2> HIDE DEF l
  <2> QED  BY <2>1, <2>3, <2>5, <2>6, <2>7, <2>8, LinkStep
<1>8. ASSUME NEW i \in Indexes, ServeHTTP2(i) PROVE TCInv'
  <2> DEFINE l == [Snapshot(link[i], percent) EXCEPT !.at = "serve"]
  <2>1. link[i].at = "dial" /\ ~link[i].quic /\ link' = [link EXCEPT ![i] = l] /\ UNCHANGED <<flags, config, portFor, resolvers>>
    BY <1>8 DEF ServeHTTP2
  <2>2. /\ l.at = "serve" /\ l.quic = link[i].quic /\ l.family = link[i].family /\ l.strict = config.strict
        /\ l.announced = ClientFeatures(percent) /\ l.version = DatagramVersion(percent) /\ l.port = link[i].port
    BY <1>link DEF Link, Snapshot
  <2>3. l \in Link
    <3>1. DatagramVersion(percent) \in {"v2", "v3_2"} /\ ClientFeatures(percent) \in SUBSET Announceable
          /\ config.strict \in Strictness
      BY <1>link, SnapshotAgrees DEF ConfigOK
    <3>2. Snapshot(link[i], percent) \in Link  BY <3>1, <1>link DEF Link, Snapshot
    <3> QED  BY <3>2 DEF Link
  <2>4. config.at = "ready" /\ portFor' \in [Indexes -> Sockets \union {NoPort}]  BY <2>1, <1>link DEF TCInv
  <2> HIDE DEF l
  <2>5. LinkOK(l, config)
    <3>1. ConfigOK /\ (config.bind # "" => link[i].family = config.bind)  BY <2>1, <1>link DEF LinkOK
    <3> QED  BY <2>1, <2>2, <2>4, <3>1, SnapshotOK
  <2> QED  BY <2>1, <2>2, <2>3, <2>4, <2>5, LinkStep
<1>9. ASSUME NEW i \in Indexes, Disconnect(i) PROVE TCInv'
  <2>1. link[i].at # "down" /\ link' = [link EXCEPT ![i] = Down] /\ UNCHANGED <<flags, config, portFor, resolvers>>
    BY <1>9 DEF Disconnect
  <2>2. config.at = "ready" /\ portFor' \in [Indexes -> Sockets \union {NoPort}]  BY <2>1, <1>link DEF TCInv
  <2> QED  BY <2>1, <2>2, DownLink, LinkStep
<1>10. CASE UNCHANGED tcVars  BY <1>10 DEF tcVars, TCInv, ConfigOK
<1> QED  BY <1>1, <1>2, <1>3, <1>4, <1>5, <1>6, <1>7, <1>8, <1>9, <1>10 DEF TCNext

\* For any flags, network interfaces and number of connections, and however
\* often the DNS record changes while connections are made: a connection reads
\* the datagram version that it announced, is made from the family of the bind
\* address and with post-quantum curves if asked for, shares its socket with no
\* other, and DNS requests go to the resolvers that were given.
THEOREM OptionsSafe == TCSpec => []OptionsAgree
<1>1. TCInv => OptionsAgree
  <2> SUFFICES ASSUME TCInv PROVE OptionsAgree  OBVIOUS
  <2>1. ASSUME NEW i \in Indexes, link[i].at = "serve"
        PROVE  /\ link[i].quic => (link[i].handler = "v3" <=> "v3_2" \in link[i].announced)
               /\ config.bind # "" => link[i].family = config.bind
               /\ config.strict => link[i].strict /\ "postquantum" \in link[i].announced
    BY <2>1 DEF TCInv, LinkOK
  <2>2. config.static # {} /\ config.at = "ready" => resolvers = config.static  BY DEF TCInv, ConfigOK
  <2>3. \A i, j \in Indexes : (i # j /\ link[i].port # NoPort) => link[j].port # link[i].port  BY DEF TCInv
  <2> QED  BY <2>1, <2>2, <2>3 DEF OptionsAgree
<1> QED  BY <1>1, TCInitInv, TCStepInv, PTL DEF TCSpec
-----------------------------------------------------------------------------
(* The connectivity pre-checks *)

PreSpec == PreInit /\ [][PreNext]_preVars

Statuses == {"Pass", "Fail", "Skip"}
Target == [done : SUBSET Families, attempt : Nat, best : {"-", "Pass", "Fail"}]

PreTypeOK ==
    /\ preAt \in {"dns", "probe", "reported"} /\ preCfg.override \in Transports \union {"none"}
    /\ groups \in Seq(SUBSET Families)
    /\ rows \in [Transports -> Seq(Statuses)]
    /\ prober \in [Transports -> Target]

\* A row says what was dialled: it passed exactly when its target was reached,
\* which needs an address that may be used, it was skipped only without one, and
\* it failed with one or without a TLS configuration.
RowJustified(t, i) ==
    /\ rows[t][i] = "Pass" <=> <<t, i>> \in reached
    /\ rows[t][i] = "Skip" => groups[i] \intersect preCfg.ip = {}
    /\ rows[t][i] = "Pass" => groups[i] \intersect preCfg.ip # {}
    /\ rows[t][i] = "Fail" => groups[i] \intersect preCfg.ip # {} \/ t \in preCfg.tls

\* The target that a prober is at: it was reached exactly when its best result
\* is a pass, no later one was, and none is without a TLS configuration.
ProberJustified(t) ==
    /\ <<t, Len(rows[t]) + 1>> \in reached <=> prober[t].best = "Pass"
    /\ prober[t].best = "Pass" => Len(rows[t]) < Len(groups) /\ ToProbe(t) # {}
    /\ \A n \in Nat : n > Len(rows[t]) + 1 => <<t, n>> \notin reached
    /\ t \in preCfg.tls => \A n \in Nat : <<t, n>> \notin reached

PreInv ==
    /\ PreTypeOK
    /\ preAt = "dns" => rows = [t \in Transports |-> <<>>] /\ reached = {}
    /\ \A t \in Transports : ProberJustified(t) /\ (Len(rows[t]) > 0 => Len(rows[t]) <= Len(groups))
    /\ \A t \in Transports : \A i \in 1..Len(rows[t]) : RowJustified(t, i)
    /\ preAt = "reported" =>
          /\ report.suggested = SuggestProtocol /\ report.hard = HasHardFail /\ report.warn = HasWarn
          /\ \A t \in Transports : Len(rows[t]) = Len(groups)

\* Nothing was dialled at first.
LEMMA PreInitInv == PreInit => PreInv
<1> SUFFICES ASSUME PreInit PROVE PreInv  OBVIOUS
<1>1. FreshTarget \in Target /\ FreshTarget.best = "-"  BY DEF FreshTarget, Target
<1>2. \A t \in Transports : rows[t] = <<>> /\ Len(rows[t]) = 0 /\ prober[t] = FreshTarget  BY DEF PreInit
<1>3. preAt = "dns" /\ groups = <<>> /\ reached = {} /\ rows = [t \in Transports |-> <<>>]  BY DEF PreInit
<1>4. PreTypeOK
  <2>1. prober \in [Transports -> Target]  BY <1>1 DEF PreInit
  <2>2. rows \in [Transports -> Seq(Statuses)]  BY <1>3
  <2>3. preCfg.override \in Transports \union {"none"}  BY DEF PreInit
  <2> QED  BY <1>3, <2>1, <2>2, <2>3 DEF PreTypeOK
<1>5. \A t \in Transports : ProberJustified(t)  BY <1>1, <1>2, <1>3 DEF ProberJustified
<1> QED  BY <1>2, <1>3, <1>4, <1>5 DEF PreInv

\* A row is added for the target that t is at: the rows before it are the same.
LEMMA RowAdded ==
    ASSUME PreInv, NEW t \in Transports, NEW status \in Statuses, Row(t, status)
    PROVE  /\ rows' \in [Transports -> Seq(Statuses)] /\ prober' \in [Transports -> Target]
           /\ Len(rows[t]) \in Nat /\ Len(rows'[t]) = Len(rows[t]) + 1 /\ rows'[t][Len(rows[t]) + 1] = status
           /\ \A i \in 1..Len(rows[t]) : rows'[t][i] = rows[t][i]
           /\ prober'[t].best = "-"
           /\ \A u \in Transports \ {t} : rows'[u] = rows[u] /\ prober'[u] = prober[u]
<1>1. rows[t] \in Seq(Statuses) /\ rows \in [Transports -> Seq(Statuses)] /\ prober \in [Transports -> Target]
  BY DEF PreInv, PreTypeOK
<1>2. FreshTarget \in Target /\ FreshTarget.best = "-"  BY DEF FreshTarget, Target
<1>3. rows' = [rows EXCEPT ![t] = Append(rows[t], status)] /\ prober' = [prober EXCEPT ![t] = FreshTarget]  BY DEF Row
<1>4. Append(rows[t], status) \in Seq(Statuses)  BY <1>1
<1>5. /\ Len(rows[t]) \in Nat /\ Len(Append(rows[t], status)) = Len(rows[t]) + 1
      /\ Append(rows[t], status)[Len(rows[t]) + 1] = status
      /\ \A i \in 1..Len(rows[t]) : Append(rows[t], status)[i] = rows[t][i]
  BY <1>1
<1> QED  BY <1>1, <1>2, <1>3, <1>4, <1>5

\* The row of the target is justified if its status is.
LEMMA RowStep ==
    ASSUME PreInv, NEW t \in Transports, NEW status \in Statuses, Pending(t), Row(t, status),
           reached' = reached \/ reached' = reached \union {<<t, Len(rows[t]) + 1>>},
           status = "Pass" <=> <<t, Len(rows[t]) + 1>> \in reached',
           status = "Skip" => ToProbe(t) = {},
           status = "Pass" => ToProbe(t) # {},
           status = "Fail" => ToProbe(t) # {} \/ t \in preCfg.tls,
           t \in preCfg.tls => reached' = reached,
           UNCHANGED <<preCfg, preAt, groups, report>>
    PROVE  PreInv'
<1> DEFINE n == Len(rows[t]) + 1
<1>0. preAt = "probe" /\ n <= Len(groups) /\ n \in Nat /\ Len(rows[t]) \in Nat /\ groups[n] \intersect preCfg.ip = ToProbe(t)
      /\ Len(groups) \in Nat
  <2>1. rows[t] \in Seq(Statuses) /\ groups \in Seq(SUBSET Families)  BY DEF PreInv, PreTypeOK
  <2>2. Len(rows[t]) \in Nat /\ Len(groups) \in Nat  BY <2>1
  <2> QED  BY <2>2 DEF Pending, ToProbe
<1>1. /\ rows' \in [Transports -> Seq(Statuses)] /\ prober' \in [Transports -> Target]
      /\ Len(rows'[t]) = n /\ rows'[t][n] = status
      /\ \A i \in 1..Len(rows[t]) : rows'[t][i] = rows[t][i]
      /\ prober'[t].best = "-"
      /\ \A u \in Transports \ {t} : rows'[u] = rows[u] /\ prober'[u] = prober[u]
  BY RowAdded
<1>2. PreTypeOK'  BY <1>1 DEF PreInv, PreTypeOK
<1>3. \A u \in Transports \ {t} : \A k : <<u, k>> \in reached' <=> <<u, k>> \in reached  OBVIOUS
<1>4. \A k \in Nat : k # n => (<<t, k>> \in reached' <=> <<t, k>> \in reached)  OBVIOUS
<1>5. ASSUME NEW u \in Transports PROVE ProberJustified(u)' /\ (Len(rows'[u]) > 0 => Len(rows'[u]) <= Len(groups'))
  <2>1. CASE u = t
    <3>1. \A k \in Nat : k > n => <<t, k>> \notin reached'  BY <1>0, <1>4 DEF PreInv, ProberJustified
    <3>2. t \in preCfg.tls => \A k \in Nat : <<t, k>> \notin reached'  BY DEF PreInv, ProberJustified
    <3>3. <<t, n + 1>> \notin reached'  BY <1>0, <3>1
    <3> QED  BY <1>0, <1>1, <2>1, <3>1, <3>2, <3>3 DEF ProberJustified
  <2>2. CASE u # t
    <3>1. ProberJustified(u)  BY DEF PreInv
    <3>2. ToProbe(u)' = ToProbe(u)  BY <1>1, <2>2 DEF ToProbe
    <3> QED  BY <1>1, <1>3, <2>2, <3>1, <3>2 DEF ProberJustified, PreInv
  <2> QED  BY <2>1, <2>2
<1>6. ASSUME NEW u \in Transports, NEW i \in 1..Len(rows'[u]) PROVE RowJustified(u, i)'
  <2>1. CASE u = t /\ i = n  BY <1>0, <1>1, <2>1 DEF RowJustified
  <2>2. CASE u = t /\ i # n
    <3>1. i \in 1..Len(rows[t]) /\ i \in Nat  BY <1>0, <1>1, <2>2
    <3>2. RowJustified(t, i)  BY <3>1 DEF PreInv
    <3> QED  BY <1>1, <1>4, <2>2, <3>1, <3>2 DEF RowJustified
  <2>3. CASE u # t
    <3>1. RowJustified(u, i)  BY <1>1, <2>3 DEF PreInv
    <3> QED  BY <1>1, <1>3, <2>3, <3>1 DEF RowJustified
  <2> QED  BY <2>1, <2>2, <2>3
<1>7. preAt' = "probe"  BY <1>0
<1> QED  BY <1>2, <1>5, <1>6, <1>7 DEF PreInv

\* Every step of the probes keeps the invariant.
LEMMA PreStepInv == PreInv /\ [PreNext]_preVars => PreInv'
<1> SUFFICES ASSUME PreInv, [PreNext]_preVars PROVE PreInv'  OBVIOUS
<1>answers. \A g \in Answers : g \in Seq(SUBSET Families)
  <2>1. ASSUME NEW S, NEW n \in 1..2, NEW g \in [1..n -> S] PROVE g \in Seq(S)  OBVIOUS
  <2>2. \A g \in Answers : \E n \in 1..2 : g \in [1..n -> SUBSET Families]  BY DEF Answers
  <2> QED  BY <2>1, <2>2
\* The addresses are resolved before anything is dialled.
<1>dns. ASSUME preAt = "dns", preAt' = "probe", groups' \in Answers, UNCHANGED <<preCfg, prober, rows, reached, report>>
        PROVE  PreInv'
  <2>1. \A t \in Transports : Len(rows[t]) = 0 /\ reached = {}  BY <1>dns DEF PreInv
  <2>2. PreTypeOK'  BY <1>dns, <1>answers DEF PreInv, PreTypeOK
  <2>3. \A t \in Transports : prober[t].best # "Pass"  BY <2>1 DEF PreInv, ProberJustified
  <2>4. \A t \in Transports : ProberJustified(t)'  BY <1>dns, <2>1, <2>3 DEF ProberJustified
  <2> QED  BY <1>dns, <2>1, <2>2, <2>4 DEF PreInv
<1>same. ASSUME UNCHANGED <<preCfg, preAt, groups, prober, rows, reached, report>>, preAt # "reported"
         PROVE  PreInv'
  <2>1. \A t \in Transports : ProberJustified(t)' <=> ProberJustified(t)  BY <1>same DEF ProberJustified, ToProbe
  <2>2. \A t \in Transports : \A i \in 1..Len(rows[t]) : RowJustified(t, i)' <=> RowJustified(t, i)
    BY <1>same DEF RowJustified
  <2>3. PreTypeOK'  BY <1>same DEF PreInv, PreTypeOK
  <2> QED  BY <1>same, <2>1, <2>2, <2>3 DEF PreInv
<1>1. CASE ResolveStaticEdge  BY <1>1, <1>dns DEF ResolveStaticEdge
<1>2. CASE RunDNSProbe
  <2>1. preAt = "dns" /\ UNCHANGED <<preCfg, prober, rows, mgmt, expired, reached, report>>  BY <1>2 DEF RunDNSProbe
  <2>2. CASE UNCHANGED <<preAt, groups>>  BY <2>1, <2>2, <1>same
  <2>3. CASE preAt' = "probe" /\ groups' \in Answers  BY <2>1, <2>3, <1>dns
  <2> QED  BY <1>2, <2>2, <2>3 DEF RunDNSProbe
<1>3. CASE ProbeManagementAPI  BY <1>3, <1>same DEF ProbeManagementAPI
<1>4. CASE Deadline  BY <1>4, <1>same DEF Deadline
<1>5. CASE MakeReport
  <2>1. /\ \A t \in Transports : Len(rows[t]) = Len(groups)
        /\ preAt' = "reported" /\ UNCHANGED <<preCfg, groups, prober, rows, mgmt, reached>>
        /\ report' = [suggested |-> SuggestProtocol, hard |-> HasHardFail, warn |-> HasWarn]
    BY <1>5 DEF MakeReport
  <2>2. /\ SuggestProtocol' = SuggestProtocol /\ HasHardFail' = HasHardFail /\ HasWarn' = HasWarn
    BY <2>1 DEF SuggestProtocol, HasHardFail, HasWarn, WorstStatus, Rows
  <2>3. \A t \in Transports : ProberJustified(t)' <=> ProberJustified(t)  BY <2>1 DEF ProberJustified, ToProbe
  <2>4. \A t \in Transports : \A i \in 1..Len(rows[t]) : RowJustified(t, i)' <=> RowJustified(t, i)
    BY <2>1 DEF RowJustified
  <2>5. PreTypeOK'  BY <2>1 DEF PreInv, PreTypeOK
  <2>6. report'.suggested = SuggestProtocol /\ report'.hard = HasHardFail /\ report'.warn = HasWarn  BY <2>1
  <2> QED  BY <2>1, <2>2, <2>3, <2>4, <2>5, <2>6 DEF PreInv
<1>6. ASSUME NEW t \in Transports, TLSConfigErr(t) PROVE PreInv'
  <2>1. /\ Pending(t) /\ t \in preCfg.tls /\ Row(t, "Fail")
        /\ UNCHANGED <<preCfg, preAt, groups, reached, report>>
    BY <1>6 DEF TLSConfigErr, ProbeTLSConfig
  <2>2. Len(rows[t]) + 1 \in Nat  BY DEF PreInv, PreTypeOK
  <2>3. <<t, Len(rows[t]) + 1>> \notin reached'  BY <2>1, <2>2 DEF PreInv, ProberJustified
  <2> QED  BY <2>1, <2>3, RowStep DEF Statuses
<1>7. ASSUME NEW t \in Transports, SkipTarget(t) PROVE PreInv'
  <2>1. /\ Pending(t) /\ Row(t, "Skip") /\ UNCHANGED <<preCfg, preAt, groups, reached, report>>
        /\ ~DNSOK \/ ToProbe(t) = {}
    BY <1>7 DEF SkipTarget
  <2>2. ToProbe(t) = {}
    <3>1. groups \in Seq(SUBSET Families) /\ rows[t] \in Seq(Statuses)  BY DEF PreInv, PreTypeOK
    <3>2. Len(rows[t]) + 1 \in DOMAIN groups  BY <2>1, <3>1 DEF Pending
    <3> QED  BY <2>1, <3>2 DEF DNSOK, ToProbe
  <2>3. <<t, Len(rows[t]) + 1>> \notin reached'  BY <2>1, <2>2 DEF PreInv, ProberJustified
  <2> QED  BY <2>1, <2>2, <2>3, RowStep DEF Statuses
<1>8. ASSUME NEW t \in Transports, Probe(t) PROVE PreInv'
  <2> DEFINE n == Len(rows[t]) + 1
  <2>1. /\ Pending(t) /\ t \notin preCfg.tls /\ UNCHANGED <<preCfg, preAt, groups, report>>
    BY <1>8 DEF Probe, ProbeTLSConfig
  <2>2. PICK f \in ToProbe(t) \ prober[t].done :
          \/ EndAddress(t, f, "Pass") /\ reached' = reached \union {<<t, n>>}
          \/ prober' = [prober EXCEPT ![t].attempt = @ + 1] /\ UNCHANGED <<rows, reached>>
          \/ EndAddress(t, f, "Fail") /\ UNCHANGED reached
    BY <1>8 DEF Probe
  <2>3. /\ prober[t] \in Target /\ prober \in [Transports -> Target] /\ n \in Nat /\ Len(rows[t]) \in Nat
        /\ Len(rows[t]) < Len(groups) /\ preAt = "probe" /\ ProberJustified(t)
    BY <2>1 DEF PreInv, PreTypeOK, Pending
  <2>4. f \in Families /\ ToProbe(t) \subseteq Families
    <3>1. groups \in Seq(SUBSET Families)  BY DEF PreInv, PreTypeOK
    <3>2. groups[n] \in SUBSET Families  BY <2>3, <3>1
    <3> QED  BY <3>2 DEF ToProbe
  \* The prober stays at its target.
  <2>5. ASSUME NEW p \in Target, prober' = [prober EXCEPT ![t] = p], UNCHANGED rows,
               reached' = reached \/ reached' = reached \union {<<t, n>>},
               p.best = "Pass" <=> <<t, n>> \in reached'
        PROVE  PreInv'
    <3>1. PreTypeOK'  BY <2>1, <2>3, <2>5 DEF PreInv, PreTypeOK
    <3>2. \A u \in Transports, k \in Nat : (u # t \/ k # n) => (<<u, k>> \in reached' <=> <<u, k>> \in reached)  BY <2>5
    <3>3. \A u \in Transports : ToProbe(u)' = ToProbe(u)  BY <2>1, <2>5 DEF ToProbe
    <3>4. ASSUME NEW u \in Transports PROVE ProberJustified(u)'
      <4>1. CASE u = t  BY <2>1, <2>2, <2>3, <2>5, <3>2, <3>3, <4>1 DEF ProberJustified
      <4>2. CASE u # t
        <5>1. ProberJustified(u) /\ Len(rows[u]) + 1 \in Nat  BY DEF PreInv, PreTypeOK
        <5> QED  BY <2>1, <2>3, <2>5, <3>2, <3>3, <4>2, <5>1 DEF ProberJustified
      <4> QED  BY <4>1, <4>2
    <3>5. ASSUME NEW u \in Transports, NEW i \in 1..Len(rows[u]) PROVE RowJustified(u, i)'
      <4>1. i \in Nat /\ (u = t => i # n)  BY <2>3
      <4>2. RowJustified(u, i)  BY DEF PreInv
      <4> QED  BY <2>1, <2>5, <3>2, <4>1, <4>2 DEF RowJustified
    <3> QED  BY <2>1, <2>3, <2>5, <3>1, <3>4, <3>5 DEF PreInv
  <2>6. CASE prober' = [prober EXCEPT ![t].attempt = @ + 1] /\ UNCHANGED <<rows, reached>>
    <3> DEFINE p == [prober[t] EXCEPT !.attempt = @ + 1]
    <3>1. p \in Target /\ p.best = prober[t].best  BY <2>3 DEF Target
    <3>2. prober' = [prober EXCEPT ![t] = p]  BY <2>6
    <3>3. p.best = "Pass" <=> <<t, n>> \in reached'  BY <2>3, <2>6, <3>1 DEF ProberJustified
    <3> HIDE DEF p
    <3> QED  BY <2>5, <2>6, <3>1, <3>2, <3>3
  <2>7. ASSUME NEW status \in {"Pass", "Fail"}, EndAddress(t, f, status),
               reached' = IF status = "Pass" THEN reached \union {<<t, n>>} ELSE reached
        PROVE  PreInv'
    <3> DEFINE best == IF prober[t].best = "Pass" THEN "Pass" ELSE status
               p == [done |-> prober[t].done \union {f}, attempt |-> 0, best |-> best]
    <3>1. best \in {"Pass", "Fail"} /\ (best = "Pass" <=> <<t, n>> \in reached')  BY <2>3, <2>7 DEF ProberJustified
    <3>2. CASE Row(t, best)  BY <2>1, <2>2, <2>7, <3>1, <3>2, RowStep DEF Statuses
    <3>3. CASE prober' = [prober EXCEPT ![t] = p] /\ UNCHANGED rows
      <4>1. p \in Target /\ p.best = best  BY <2>3, <2>4, <3>1 DEF Target
      <4> HIDE DEF p, best
      <4> QED  BY <2>5, <2>7, <3>1, <3>3, <4>1
    <3> QED  BY <2>7, <3>2, <3>3 DEF EndAddress
  <2> QED  BY <2>2, <2>6, <2>7
<1>9. CASE UNCHANGED preVars
  <2>1. \A t \in Transports : ProberJustified(t)' <=> ProberJustified(t)  BY <1>9 DEF preVars, ProberJustified, ToProbe
  <2>2. \A t \in Transports : \A i \in 1..Len(rows[t]) : RowJustified(t, i)' <=> RowJustified(t, i)
    BY <1>9 DEF preVars, RowJustified
  <2>3. PreTypeOK'  BY <1>9 DEF preVars, PreInv, PreTypeOK
  <2>4. SuggestProtocol' = SuggestProtocol /\ HasHardFail' = HasHardFail /\ HasWarn' = HasWarn
    BY <1>9 DEF preVars, SuggestProtocol, HasHardFail, HasWarn, WorstStatus, Rows
  <2> QED  BY <1>9, <2>1, <2>2, <2>3, <2>4 DEF preVars, PreInv
<1> QED  BY <1>1, <1>2, <1>3, <1>4, <1>5, <1>6, <1>7, <1>8, <1>9 DEF PreNext

\* In whatever order the probes, the retries and the deadline come, for any
\* number of retries, what the report suggests was reached, what works is
\* suggested, and an environment that is reported as good has no target that
\* failed.
THEOREM PrechecksSafe == PreSpec => []SuggestionJustified
<1>1. PreInv => SuggestionJustified
  <2> SUFFICES ASSUME PreInv, preAt = "reported" PROVE SuggestionJustified  BY DEF SuggestionJustified
  <2> DEFINE usable == {i \in DOMAIN groups : groups[i] \intersect preCfg.ip # {}}
             works(t) == usable # {} /\ \A i \in usable : <<t, i>> \in reached
             p == report.suggested
  <2>1. /\ p = SuggestProtocol /\ report.hard = HasHardFail /\ report.warn = HasWarn
        /\ \A t \in Transports : Len(rows[t]) = Len(groups) /\ rows[t] \in Seq(Statuses)
        /\ groups \in Seq(SUBSET Families) /\ DOMAIN groups = 1..Len(groups)
    BY DEF PreInv, PreTypeOK
  <2>2. ASSUME NEW t \in Transports, NEW i \in DOMAIN groups
        PROVE  RowJustified(t, i) /\ rows[t][i] \in Statuses /\ rows[t][i] \in Rows(t) /\ i \in Nat
    BY <2>1 DEF PreInv, Rows
  <2>3. ASSUME NEW t \in Transports, "Fail" \notin Rows(t), NEW i \in usable PROVE <<t, i>> \in reached /\ "Pass" \in Rows(t)
    BY <2>2, <2>3 DEF RowJustified, Statuses
  <2>4. ASSUME NEW t \in Transports, works(t) PROVE "Fail" \notin Rows(t) /\ "Pass" \in Rows(t)
    <3>1. PICK k \in usable : <<t, k>> \in reached  BY <2>4
    <3>2. k \in Nat /\ "Pass" \in Rows(t)  BY <2>2, <3>1 DEF RowJustified
    <3>3. t \notin preCfg.tls  BY <3>1, <3>2 DEF PreInv, ProberJustified
    <3>4. ASSUME NEW i \in DOMAIN groups PROVE rows[t][i] # "Fail"
      BY <2>2, <2>4, <3>3 DEF RowJustified
    <3>5. DOMAIN rows[t] = DOMAIN groups  BY <2>1
    <3> QED  BY <3>2, <3>4, <3>5 DEF Rows
  <2>5. ASSUME NEW t \in Transports, WorstStatus(t) = "Pass" PROVE works(t)
    <3>1. "Fail" \notin Rows(t) /\ "Pass" \in Rows(t)  BY <2>5 DEF WorstStatus
    <3>2. PICK i \in DOMAIN groups : rows[t][i] = "Pass"  BY <2>1, <3>1 DEF Rows
    <3>3. <<t, i>> \in reached  BY <2>2, <3>2 DEF RowJustified
    <3>4. i \in usable  BY <2>2, <3>2 DEF RowJustified
    <3> QED  BY <2>3, <3>1, <3>4
  <2>6. preCfg.override = "none" => /\ p \in Transports => works(p)
                                    /\ works("quic") => p = "quic"
                                    /\ works("http2") => p # "none"
    <3> SUFFICES ASSUME preCfg.override = "none"
                 PROVE  /\ p \in Transports => works(p)
                        /\ works("quic") => p = "quic"
                        /\ works("http2") => p # "none"
      OBVIOUS
    <3>1. p = IF WorstStatus("quic") = "Pass" THEN "quic" ELSE IF WorstStatus("http2") = "Pass" THEN "http2" ELSE "none"
      BY <2>1 DEF SuggestProtocol
    <3>2. \A t \in Transports : works(t) <=> WorstStatus(t) = "Pass"  BY <2>4, <2>5 DEF WorstStatus
    <3> HIDE DEF works, p
    <3> QED  BY <3>1, <3>2 DEF Transports
  <2>7. p # "none" => \A i \in usable : <<p, i>> \in reached
    <3>1. CASE p = preCfg.override /\ p # "none" /\ WorstStatus(p) # "Fail"
      <4>1. p \in Transports /\ "Fail" \notin Rows(p)  BY <3>1 DEF PreInv, PreTypeOK, WorstStatus
      <4> QED  BY <2>3, <4>1
    <3>2. CASE p \in Transports /\ WorstStatus(p) = "Pass"  BY <2>5, <3>2
    <3> HIDE DEF p
    <3>3. \/ p = preCfg.override /\ p # "none" /\ WorstStatus(p) # "Fail"
          \/ p \in Transports /\ WorstStatus(p) = "Pass"
          \/ p = "none"
      BY <2>1 DEF SuggestProtocol, Transports
    <3> QED  BY <3>1, <3>2, <3>3
  <2>8. (~report.hard /\ ~report.warn) => (usable = {} \/ \A t \in Transports : works(t))
    <3> SUFFICES ASSUME ~report.hard, ~report.warn, usable # {} PROVE \A t \in Transports : works(t)  OBVIOUS
    <3>1. ~HasHardFail /\ ~HasWarn  BY <2>1
    <3>2. \A t \in Transports : "Fail" \notin Rows(t)  BY <3>1 DEF HasHardFail, HasWarn, Transports
    <3> QED  BY <2>3, <3>2
  <2> QED  BY <2>6, <2>7, <2>8 DEF SuggestionJustified
<1> QED  BY <1>1, PreInitInv, PreStepInv, PTL DEF PreSpec

-----------------------------------------------------------------------------
(* IP routes *)

RoutesSpec == RoutesInit /\ [][RoutesNext]_routeVars

RouteCmd ==
    [op : {"none", "add", "delete", "show", "addVnet", "deleteVnet", "updateVnet"},
     at : {"idle", "vnet", "list", "listed", "call"},
     net : Networks \union {Unset}, sup : Networks \union {Unset}, vnet : VnetArgs \union {Unset},
     flag : BOOLEAN, id : Nat, page : Nat, rows : Seq(RouteIDs), first : SUBSET RouteIDs]

\* What the first request of a lookup saw is what it asked for, as long as it
\* has not been deleted.
Seen(c, rt) ==
    \A r \in c.first : /\ rt[r].state # "free"
                       /\ rt[r].state = "active" =>
                             rt[r].net = c.net /\ (c.vnet # Unset => rt[r].vnet = c.vnet)
\* Of what the first request saw, id is the only route that is left, if it is.
Only(id, c, rt) ==
    /\ id \in c.first
    /\ rt[id].state = "active" => \A r \in c.first : rt[r].state = "active" => r = id

\* A lookup that has one row so far has fetched a page of one row and goes on
\* to the second page; one that ends with a single row has found the only one.
LookupOK(c, rt) ==
    c.op = "delete" =>
        /\ c.at # "call" => c.net # Unset
        /\ c.at = "vnet" => c.page = 0 /\ c.rows = <<>> /\ c.first = {}
        /\ c.net # Unset => Seen(c, rt)
        /\ c.at = "list" => \/ c.page = 0 /\ c.rows = <<>> /\ c.first = {}
                            \/ /\ c.page > 0 /\ Len(c.rows) > 0
                               /\ Len(c.rows) = 1 => PerPage = 1 /\ c.page = 1 /\ c.rows[1] \in c.first
        /\ c.at = "listed" => c.page > 0 /\ (Len(c.rows) = 1 => Only(c.rows[1], c, rt))
        /\ c.at = "call" /\ c.net # Unset => Only(c.id, c, rt)

RouteRec == [net : Networks \union {Unset}, vnet : VnetArgs \union {Unset}, state : {"free", "active", "deleted"}]

RoutesInv ==
    /\ route \in [RouteIDs -> RouteRec] /\ default \in VnetIDs
    /\ rcmd \in [RouteProcs -> RouteCmd]
    /\ \A p \in RouteProcs : LookupOK(rcmd[p], route)

\* A route that was made stays as it is until it is deleted, for good.
Ages(rt, new) ==
    /\ new \in [RouteIDs -> RouteRec]
    /\ \A r \in RouteIDs : rt[r].state # "free" =>
          new[r].state # "free" /\ (new[r].state = "active" => new[r] = rt[r])

\* What is known of a lookup is not undone by other commands.
LEMMA LookupStays ==
    ASSUME NEW c \in RouteCmd, NEW rt, NEW new, Ages(rt, new), LookupOK(c, rt)
    PROVE  LookupOK(c, new)
<1>1. c.first \in SUBSET RouteIDs /\ c.rows \in Seq(RouteIDs) BY DEF RouteCmd
<1>2. Seen(c, rt) => Seen(c, new) BY <1>1 DEF Seen, Ages
<1>3. ASSUME NEW id, Seen(c, rt), Only(id, c, rt) PROVE Only(id, c, new)
  <2>1. id \in c.first /\ id \in RouteIDs BY <1>1, <1>3 DEF Only
  <2>2. \A r \in c.first : new[r].state = "active" => rt[r].state = "active"
    BY <1>1, <1>3 DEF Seen, Ages
  <2> QED BY <1>3, <2>1, <2>2 DEF Only
<1> QED BY <1>2, <1>3 DEF LookupOK

\* A step of one command.
LEMMA RoutesStep ==
    ASSUME RoutesInv, NEW p \in RouteProcs, NEW k \in RouteCmd,
           rcmd' = [rcmd EXCEPT ![p] = k], Ages(route, route'), default' \in VnetIDs, LookupOK(k, route')
    PROVE  RoutesInv'
<1>1. \A q \in RouteProcs : rcmd'[q] = IF q = p THEN k ELSE rcmd[q] BY DEF RoutesInv
<1>2. \A q \in RouteProcs : rcmd[q] \in RouteCmd /\ LookupOK(rcmd[q], route) BY DEF RoutesInv
<1>3. \A q \in RouteProcs : LookupOK(rcmd'[q], route') BY <1>1, <1>2, LookupStays
<1>4. rcmd' \in [RouteProcs -> RouteCmd] BY DEF RoutesInv
<1> QED BY <1>3, <1>4 DEF RoutesInv, Ages

\* Nothing has happened to the routes.
LEMMA SameRoutes == ASSUME RoutesInv, route' = route PROVE Ages(route, route')
BY DEF RoutesInv, Ages

\* A command that has ended, and one that begins.
LEMMA FreshCmd ==
    /\ NoCmd \in RouteCmd /\ \A rt : LookupOK(NoCmd, rt)
    /\ \A p \in RouteProcs : RouteCmdEnds(p) => rcmd' = [rcmd EXCEPT ![p] = NoCmd]
<1>1. <<>> \in Seq(RouteIDs) /\ 0 \in Nat OBVIOUS
<1>2. NoCmd \in RouteCmd BY <1>1 DEF NoCmd, RouteCmd
<1>3. NoCmd.op # "delete" BY DEF NoCmd
<1> QED BY <1>2, <1>3 DEF RouteCmdEnds, LookupOK

\* The first command of a process, after which it looks something up or calls.
LEMMA BeginsInv ==
    ASSUME RoutesInv, NEW p \in RouteProcs,
           \/ AddRouteCommand(p) \/ DeleteRouteCommand(p) \/ ShowRoutesCommand(p)
           \/ AddVirtualNetworkCommand(p) \/ DeleteVirtualNetworkCommand(p) \/ UpdateVirtualNetworkCommand(p)
    PROVE  RoutesInv'
<1>1. <<>> \in Seq(RouteIDs) OBVIOUS
<1>2. ASSUME NEW k \in RouteCmd, k.op # "delete", Begins(p, k) PROVE RoutesInv'
  BY <1>2, RoutesStep, SameRoutes DEF Begins, LookupOK, RoutesInv
<1>4. CASE AddRouteCommand(p)
  <2>1. PICK n \in Networks, v \in VnetArgs \union {Unset} :
           Begins(p, [NoCmd EXCEPT !.op = "add", !.at = "vnet", !.net = n, !.vnet = v])
    BY <1>4 DEF AddRouteCommand
  <2> DEFINE k == [NoCmd EXCEPT !.op = "add", !.at = "vnet", !.net = n, !.vnet = v]
  <2>3. k \in RouteCmd /\ k.op # "delete" BY <1>1 DEF NoCmd, RouteCmd
  <2> QED BY <1>2, <2>1, <2>3
<1>5. CASE ShowRoutesCommand(p)
  <2>1. PICK n \in Networks \union {Unset}, m \in Networks \union {Unset} :
           Begins(p, [NoCmd EXCEPT !.op = "show", !.at = "list", !.net = n, !.sup = m])
    BY <1>5 DEF ShowRoutesCommand
  <2> DEFINE k == [NoCmd EXCEPT !.op = "show", !.at = "list", !.net = n, !.sup = m]
  <2>3. k \in RouteCmd /\ k.op # "delete" BY <1>1 DEF NoCmd, RouteCmd
  <2> QED BY <1>2, <2>1, <2>3
<1>6. CASE AddVirtualNetworkCommand(p) \/ DeleteVirtualNetworkCommand(p) \/ UpdateVirtualNetworkCommand(p)
  <2>1. PICK v \in VnetArgs, b \in BOOLEAN, o \in {"addVnet", "deleteVnet", "updateVnet"}, a \in {"vnet", "call"} :
           Begins(p, [NoCmd EXCEPT !.op = o, !.at = a, !.vnet = v, !.flag = b])
    BY <1>6 DEF AddVirtualNetworkCommand, DeleteVirtualNetworkCommand, UpdateVirtualNetworkCommand, VnetArgs
  <2> DEFINE k == [NoCmd EXCEPT !.op = o, !.at = a, !.vnet = v, !.flag = b]
  <2>3. k \in RouteCmd /\ k.op # "delete" BY <1>1 DEF NoCmd, RouteCmd
  <2> QED BY <1>2, <2>1, <2>3
<1>7. CASE DeleteRouteCommand(p)
  <2>1. CASE \E r \in RouteIDs : Begins(p, [NoCmd EXCEPT !.op = "delete", !.at = "call", !.id = r])
    <3>1. PICK r \in RouteIDs : Begins(p, [NoCmd EXCEPT !.op = "delete", !.at = "call", !.id = r])
      BY <2>1
    <3> DEFINE k == [NoCmd EXCEPT !.op = "delete", !.at = "call", !.id = r]
    <3>3. r \in Nat BY RoutesAssumption
    <3>4. k \in RouteCmd BY <1>1, <3>3 DEF NoCmd, RouteCmd
    <3>5. k.net = Unset /\ k.at = "call" BY DEF NoCmd
    <3>6. Begins(p, k) BY <3>1
    <3> HIDE DEF k
    <3>7. LookupOK(k, route') BY <3>5 DEF LookupOK
    <3> QED BY <3>4, <3>6, <3>7, RoutesStep, SameRoutes DEF Begins, RoutesInv
  <2>2. CASE \E n \in Networks, v \in VnetArgs \union {Unset} :
               Begins(p, [NoCmd EXCEPT !.op = "delete", !.at = "vnet", !.net = n, !.vnet = v])
    <3>1. PICK n \in Networks, v \in VnetArgs \union {Unset} :
             Begins(p, [NoCmd EXCEPT !.op = "delete", !.at = "vnet", !.net = n, !.vnet = v])
      BY <2>2
    <3> DEFINE k == [NoCmd EXCEPT !.op = "delete", !.at = "vnet", !.net = n, !.vnet = v]
    <3>3. k \in RouteCmd BY <1>1 DEF NoCmd, RouteCmd
    <3>4. k.net # Unset /\ k.at = "vnet" /\ k.page = 0 /\ k.rows = <<>> /\ k.first = {}
      BY RoutesAssumption DEF NoCmd
    <3>5. Begins(p, k) BY <3>1
    <3> HIDE DEF k
    <3>6. LookupOK(k, route') BY <3>4 DEF LookupOK, Seen
    <3> QED BY <3>3, <3>5, <3>6, RoutesStep, SameRoutes DEF Begins, RoutesInv
  <2> QED BY <1>7, <2>1, <2>2 DEF DeleteRouteCommand
<1> QED BY <1>4, <1>5, <1>6, <1>7

\* The calls change the routes and networks and end the command.
LEMMA CallsInv ==
    ASSUME RoutesInv, NEW p \in RouteProcs,
           \/ ShowRoutes(p) \/ AddRoute(p) \/ DeleteRoute(p) \/ CreateVirtualNetwork(p)
           \/ DeleteVirtualNetwork(p) \/ UpdateVirtualNetwork(p) \/ RequestFails(p)
    PROVE  RoutesInv'
<1>1. RouteCmdEnds(p)
  BY DEF ShowRoutes, AddRoute, DeleteRoute, CreateVirtualNetwork, DeleteVirtualNetwork, UpdateVirtualNetwork, RequestFails
<1>2. default' \in VnetIDs
  BY DEF RoutesInv, ShowRoutes, AddRoute, DeleteRoute, CreateVirtualNetwork, DeleteVirtualNetwork,
     UpdateVirtualNetwork, RequestFails, ActiveVnets
<1>3. DeletedRoute \in RouteRec /\ DeletedRoute.state = "deleted" BY DEF DeletedRoute, RouteRec
<1>4. Ages(route, route')
  <2>1. CASE AddRoute(p)
    <3> DEFINE v == IF rcmd[p].vnet = Unset THEN default ELSE rcmd[p].vnet
    <3>1. PICK r \in RouteIDs : /\ route[r].state = "free"
                                /\ route' = [route EXCEPT ![r] = [net |-> rcmd[p].net, vnet |-> v, state |-> "active"]]
      BY <2>1 DEF AddRoute
    <3>2. rcmd[p].net \in Networks \union {Unset} /\ v \in VnetArgs \union {Unset}
      BY DEF RoutesInv, RouteCmd, VnetArgs
    <3> HIDE DEF v
    <3>3. [net |-> rcmd[p].net, vnet |-> v, state |-> "active"] \in RouteRec BY <3>2 DEF RouteRec
    <3> QED BY <3>1, <3>3 DEF Ages, RoutesInv
  <2>2. CASE DeleteRoute(p)
    <3>1. route' = [route EXCEPT ![rcmd[p].id] = DeletedRoute] BY <2>2 DEF DeleteRoute
    <3> QED BY <1>3, <3>1 DEF Ages, RoutesInv
  <2>3. CASE DeleteVirtualNetwork(p)
    <3>1. route' = [r \in RouteIDs |-> IF r \in ActiveRoutes /\ route[r].vnet = rcmd[p].vnet
                                       THEN DeletedRoute ELSE route[r]]
      BY <2>3 DEF DeleteVirtualNetwork
    <3> QED BY <1>3, <3>1 DEF Ages, RoutesInv
  <2>4. CASE route' = route BY <2>4, SameRoutes
  <2> QED BY <2>1, <2>2, <2>3, <2>4
    DEF ShowRoutes, CreateVirtualNetwork, UpdateVirtualNetwork, RequestFails
<1>5. rcmd' = [rcmd EXCEPT ![p] = NoCmd] /\ NoCmd \in RouteCmd /\ LookupOK(NoCmd, route')
  BY <1>1, FreshCmd
<1> QED BY <1>2, <1>4, <1>5, RoutesStep

\* getVnetId leaves what was fetched alone, and getRouteId takes the one row.
LEMMA LookupsInv ==
    ASSUME RoutesInv, NEW p \in RouteProcs, GetVnetId(p) \/ GetRouteId(p)
    PROVE  RoutesInv'
<1> DEFINE c == rcmd[p]
<1>1. c \in RouteCmd /\ LookupOK(c, route) BY DEF RoutesInv
<1>2. route' = route /\ default' = default BY DEF GetVnetId, GetRouteId
<1>3. ASSUME NEW k \in RouteCmd, rcmd' = [rcmd EXCEPT ![p] = k], LookupOK(k, route) PROVE RoutesInv'
  BY <1>2, <1>3, RoutesStep, SameRoutes DEF RoutesInv
<1>4. CASE RouteCmdEnds(p) BY <1>3, <1>4, FreshCmd
<1>5. CASE GetVnetId(p) /\ ~RouteCmdEnds(p)
  <2> DEFINE next == IF c.op = "delete" THEN "list" ELSE "call"
  <2>1. PICK v \in VnetIDs \union {c.vnet} : rcmd' = [rcmd EXCEPT ![p].at = next, ![p].vnet = v]
    <3>1. CASE rcmd' = [rcmd EXCEPT ![p].at = next]
      <4>1. c = [c EXCEPT !.vnet = c.vnet] /\ [c EXCEPT !.at = next, !.vnet = c.vnet] = [c EXCEPT !.at = next]
        BY <1>1 DEF RouteCmd
      <4>2. rcmd' = [rcmd EXCEPT ![p] = [c EXCEPT !.at = next]] BY <3>1
      <4>3. rcmd' = [rcmd EXCEPT ![p] = [c EXCEPT !.at = next, !.vnet = c.vnet]] BY <4>1, <4>2
      <4> DEFINE f == [rcmd EXCEPT ![p].at = next, ![p].vnet = c.vnet]
      <4>4. f = [rcmd EXCEPT ![p] = [c EXCEPT !.at = next, !.vnet = c.vnet]] BY DEF RoutesInv
      <4> QED BY <4>3, <4>4
    <3> QED BY <1>5, <3>1 DEF GetVnetId
  <2> DEFINE k == [c EXCEPT !.at = next, !.vnet = v]
  <2>2. rcmd' = [rcmd EXCEPT ![p] = k] BY <2>1 DEF RoutesInv
  <2>3. v \in VnetArgs \union {Unset} BY <1>1 DEF RouteCmd, VnetArgs
  <2>4. k \in RouteCmd
    <3>1. next \in {"idle", "vnet", "list", "listed", "call"} OBVIOUS
    <3> HIDE DEF next
    <3> QED BY <1>1, <2>3, <3>1 DEF RouteCmd
  <2>5. /\ k.op = c.op /\ k.at = next /\ k.net = c.net /\ k.page = c.page /\ k.rows = c.rows
        /\ k.first = c.first
    BY <1>1 DEF RouteCmd
  <2>6. c.at = "vnet" BY <1>5 DEF GetVnetId
  <2> HIDE DEF k
  <2>7. LookupOK(k, route) BY <1>1, <2>5, <2>6 DEF LookupOK, Seen
  <2> QED BY <1>3, <2>2, <2>4, <2>7
<1>6. CASE GetRouteId(p) /\ ~RouteCmdEnds(p)
  <2> DEFINE k == [c EXCEPT !.at = "call", !.id = c.rows[1], !.rows = <<>>]
  <2>1. c.op = "delete" /\ c.at = "listed" /\ Len(c.rows) = 1
        /\ rcmd' = [rcmd EXCEPT ![p].at = "call", ![p].id = c.rows[1], ![p].rows = <<>>]
    BY <1>6 DEF GetRouteId
  <2>2. rcmd' = [rcmd EXCEPT ![p] = k] BY <2>1 DEF RoutesInv
  <2>3. c.rows \in Seq(RouteIDs) /\ c.rows[1] \in RouteIDs /\ c.rows[1] \in Nat
    BY <1>1, <2>1, RoutesAssumption DEF RouteCmd
  <2>4. <<>> \in Seq(RouteIDs) OBVIOUS
  <2>5. k \in RouteCmd BY <1>1, <2>3, <2>4 DEF RouteCmd
  <2>6. /\ k.op = "delete" /\ k.at = "call" /\ k.net = c.net /\ k.vnet = c.vnet
        /\ k.id = c.rows[1] /\ k.first = c.first
    BY <1>1, <2>1 DEF RouteCmd
  <2> HIDE DEF k
  <2>7. LookupOK(k, route) BY <1>1, <2>1, <2>6 DEF LookupOK, Seen, Only
  <2> QED BY <1>3, <2>2, <2>5, <2>7
<1> QED BY <1>4, <1>5, <1>6

\* A page of the rows s: in the first one the first rows, and with one row to a
\* page a second one that is empty if there is no second row.
LEMMA PageOf ==
    ASSUME NEW S, NEW s \in Seq(S), NEW n \in Nat \ {0}
    PROVE  /\ Page(s, n) \in Seq(S)
           /\ n = 1 => /\ Len(Page(s, n)) = IF PerPage < Len(s) THEN PerPage ELSE Len(s)
                       /\ Len(Page(s, n)) > 0 => Page(s, n)[1] = s[1]
           /\ n = 2 /\ PerPage = 1 /\ Len(s) >= 2 => Len(Page(s, n)) = 1
<1> DEFINE from == (n - 1) * PerPage
           to == IF n * PerPage < Len(s) THEN n * PerPage ELSE Len(s)
<1>1. PerPage \in Nat /\ PerPage > 0 /\ Len(s) \in Nat BY RoutesAssumption
<1>2. from \in Nat /\ n * PerPage \in Nat BY <1>1
<1>3. n = 1 => from = 0 /\ n * PerPage = PerPage BY <1>1
<1>4. n = 2 /\ PerPage = 1 => from = 1 /\ n * PerPage = 2 BY <1>1
<1>5. to \in Nat /\ to <= Len(s) BY <1>1, <1>2
<1>6. Page(s, n) = SubSeq(s, from + 1, to) BY DEF Page
<1> HIDE DEF from
<1>7. SubSeq(s, from + 1, to) \in Seq(S)
  <2> HIDE DEF to
  <2> QED BY <1>1, <1>2, <1>5
<1>8. n = 1 => to = IF PerPage < Len(s) THEN PerPage ELSE Len(s) BY <1>3
<1>9. n = 2 /\ PerPage = 1 /\ Len(s) >= 2 => to = 2
  <2> DEFINE end == n * PerPage
             len == Len(s)
  <2>1. to = IF end < len THEN end ELSE len OBVIOUS
  <2>2. len \in Nat /\ (n = 2 /\ PerPage = 1 => end = 2) BY <1>1, <1>4
  <2> HIDE DEF end, to, len
  <2>3. n = 2 /\ PerPage = 1 /\ len >= 2 => to = 2 BY <2>1, <2>2
  <2> QED BY <2>3 DEF len
<1> HIDE DEF to
<1>10. n = 1 => Len(Page(s, n)) = to /\ (to > 0 => Page(s, n)[1] = s[1])
  BY <1>1, <1>3, <1>5, <1>6
<1>11. n = 2 /\ PerPage = 1 /\ Len(s) >= 2 => Len(Page(s, n)) = 1
  BY <1>1, <1>4, <1>6, <1>9
<1> QED BY <1>6, <1>7, <1>8, <1>10, <1>11

\* A lookup with one row in all has seen the only route that matches, whatever
\* was added and deleted between its pages.
LEMMA FetchInv ==
    ASSUME RoutesInv, NEW p \in RouteProcs, FetchPage(p)
    PROVE  RoutesInv'
<1> DEFINE c == rcmd[p]
           all == Matching(Query(c))
           N == Cardinality(all)
<1>1. c \in RouteCmd /\ LookupOK(c, route) /\ c.at = "list" BY DEF RoutesInv, FetchPage
<1>2. route' = route /\ default' = default BY Zenon DEF FetchPage
<1>3. PICK s \in Sorted(all) :
        LET page == Page(s, c.page + 1)
            got == c.rows \o page
            isLast == LastPage(Len(page), Len(got), N) IN
        rcmd' = [rcmd EXCEPT ![p].page = @ + 1, ![p].rows = got, ![p].at = IF isLast THEN "listed" ELSE "list",
                             ![p].first = IF rcmd[p].op = "delete" /\ rcmd[p].page = 0 THEN all ELSE @]
  BY DEF FetchPage
<1> DEFINE n == c.page + 1
           page == Page(s, n)
           got == c.rows \o page
           at == IF LastPage(Len(page), Len(got), N) THEN "listed" ELSE "list"
           first == IF c.op = "delete" /\ c.page = 0 THEN all ELSE c.first
           k == [c EXCEPT !.page = n, !.rows = got, !.at = at, !.first = first]
<1>4. rcmd' = [rcmd EXCEPT ![p] = k] BY <1>3 DEF RoutesInv
<1>5. all \in SUBSET RouteIDs /\ IsFiniteSet(all) /\ N \in Nat
  <2>1. all \in SUBSET RouteIDs BY DEF Matching, ActiveRoutes
  <2> HIDE DEF all
  <2> QED BY <2>1, RoutesAssumption, FS_Subset, FS_CardinalityType
<1>6. c.page \in Nat /\ c.rows \in Seq(RouteIDs) /\ c.first \in SUBSET RouteIDs BY <1>1 DEF RouteCmd
<1>7. /\ c.op = "delete" => c.net # Unset /\ Seen(c, route)
      /\ c.op = "delete" =>
           \A r \in RouteIDs : r \in all <=> /\ route[r].state = "active" /\ route[r].net = c.net
                                             /\ c.vnet # Unset => route[r].vnet = c.vnet
  <2>1. c.op = "delete" => c.net # Unset /\ Seen(c, route) BY <1>1 DEF LookupOK
  <2>2. ASSUME c.op = "delete"
        PROVE  Query(c).subset = c.net /\ Query(c).superset = c.net /\ Query(c).vnet = c.vnet
    BY <2>2 DEF Query, RouteIdFilter
  <2>3. ASSUME c.op = "delete", NEW r \in RouteIDs
        PROVE  r \in all <=> /\ route[r].state = "active" /\ route[r].net = c.net
                             /\ c.vnet # Unset => route[r].vnet = c.vnet
    BY <2>1, <2>2, <2>3 DEF Matching, ActiveRoutes
  <2> QED BY <2>1, <2>3
<1> HIDE DEF all, c
<1>8. s \in Seq(all) /\ Len(s) = N /\ s \in [1 .. N -> all] BY <1>5 DEF Sorted
<1> HIDE DEF N
<1>9. page \in Seq(all) /\ n \in Nat \ {0}
  <2>1. n \in Nat \ {0} BY <1>6
  <2> HIDE DEF n
  <2> QED BY <1>8, <2>1, PageOf, Zenon
<1>10. page \in Seq(RouteIDs) /\ got \in Seq(RouteIDs) /\ Len(got) = Len(c.rows) + Len(page)
       /\ Len(page) \in Nat /\ Len(c.rows) \in Nat
  <2> HIDE DEF page
  <2>1. page \in Seq(RouteIDs) BY <1>5, <1>9
  <2> QED BY <1>6, <2>1
<1>11. first \in SUBSET RouteIDs /\ at \in {"list", "listed"} BY <1>5, <1>6
<1> HIDE DEF page, got, first, at, n
<1>12. k \in RouteCmd BY <1>1, <1>9, <1>10, <1>11 DEF RouteCmd
<1>13. /\ k.op = c.op /\ k.at = at /\ k.net = c.net /\ k.vnet = c.vnet /\ k.page = n /\ k.rows = got
       /\ k.first = first
  BY <1>1 DEF RouteCmd
<1> HIDE DEF k
<1>14. PerPage \in Nat /\ PerPage > 0 BY RoutesAssumption
<1>15. at = "list" => Len(page) >= PerPage /\ Len(got) < N
  BY <1>5, <1>10, <1>14 DEF at, LastPage
<1>16. at = "listed" => Len(page) < PerPage \/ Len(got) >= N
  BY DEF at, LastPage
<1>17. ASSUME N <= 1, NEW x \in all, NEW y \in all PROVE x = y
  <2>1. IsFiniteSet(all \ {x}) /\ Cardinality(all \ {x}) = N - 1
    BY <1>5, FS_RemoveElement DEF N
  <2>2. Cardinality(all \ {x}) \in Nat BY <2>1, FS_CardinalityType
  <2>3. Cardinality(all \ {x}) = 0 BY <1>5, <1>17, <2>1, <2>2
  <2>4. all \ {x} = {} BY <2>1, <2>3, FS_EmptySet
  <2> QED BY <2>4
<1>18. ASSUME c.op = "delete", c.page = 0 PROVE LookupOK(k, route)
  <2>1. n = 1 /\ first = all /\ c.rows = <<>> BY <1>1, <1>18 DEF n, first, LookupOK
  <2>2. got = page BY <1>10, <2>1 DEF got
  <2>3. Len(page) = IF PerPage < N THEN PerPage ELSE N BY <1>8, <1>9, <2>1, PageOf DEF page
  <2>4. Len(page) > 0 => page[1] = s[1] BY <1>8, <1>9, <2>1, PageOf DEF page
  <2>5. N > 0 => s[1] \in all BY <1>5, <1>8
  <2>6. Seen(k, route) BY <1>5, <1>7, <1>13, <1>18, <2>1 DEF Seen
  <2>7. CASE at = "list"
    <3>1. Len(got) = PerPage /\ N > 0 BY <1>5, <1>14, <1>15, <2>2, <2>3, <2>7
    <3>2. got[1] \in all BY <1>14, <2>2, <2>4, <2>5, <3>1
    <3> QED BY <1>7, <1>13, <1>14, <1>18, <2>1, <2>6, <2>7, <3>1, <3>2 DEF LookupOK
  <2>8. CASE at = "listed"
    <3>1. ASSUME Len(got) = 1 PROVE Only(got[1], k, route)
      <4>1. N = 1 BY <1>5, <1>14, <1>16, <2>2, <2>3, <2>8, <3>1
      <4>2. got[1] \in all BY <2>2, <2>4, <2>5, <3>1, <4>1
      <4>3. \A r \in all : r = got[1] BY <1>17, <4>1, <4>2
      <4> QED BY <1>13, <2>1, <4>2, <4>3 DEF Only
    <3> QED BY <1>7, <1>13, <1>18, <2>1, <2>6, <2>8, <3>1 DEF LookupOK
  <2> QED BY <1>11, <2>7, <2>8
<1>19. ASSUME c.op = "delete", c.page # 0 PROVE LookupOK(k, route)
  <2>1. /\ first = c.first /\ Len(c.rows) > 0 /\ n > 0
        /\ Len(c.rows) = 1 => PerPage = 1 /\ n = 2 /\ c.rows[1] \in c.first
    BY <1>1, <1>6, <1>19 DEF n, first, LookupOK
  <2>2. Seen(k, route) BY <1>7, <1>13, <1>19, <2>1 DEF Seen
  <2>3. CASE at = "list"
    <3>1. Len(got) > 1 BY <1>10, <1>14, <1>15, <2>1, <2>3
    <3>4. \A x \in Nat : x > 1 => x > 0 /\ x # 1 OBVIOUS
    <3>5. Len(got) \in Nat BY <1>10
    <3>6. Len(got) > 0 /\ Len(got) # 1 BY <3>1, <3>4, <3>5
    <3>2. k.page > 0 /\ Len(k.rows) > 0 /\ Len(k.rows) # 1 BY <1>13, <2>1, <3>6
    <3>3. k.at = "list" /\ k.net # Unset BY <1>7, <1>13, <1>19, <2>3
    <3> QED BY <2>2, <3>2, <3>3 DEF LookupOK
  <2>4. CASE at = "listed"
    <3>1. ASSUME Len(got) = 1 PROVE Only(got[1], k, route)
      <4>0. \A x, y \in Nat : x + y = 1 /\ x > 0 => x = 1 /\ y = 0 OBVIOUS
      <4>1. Len(c.rows) = 1 /\ Len(page) = 0 BY <1>10, <2>1, <3>1, <4>0
      <4>2. got[1] = c.rows[1] BY <1>6, <1>10, <4>1 DEF got
      <4>3. ~(N >= 2) BY <1>8, <1>9, <2>1, <4>1, PageOf DEF page
      <4>4. N <= 1 BY <1>5, <4>3
      <4>5. \A r \in c.first : route[r].state = "active" => r \in all BY <1>6, <1>7, <1>19 DEF Seen
      <4>6. got[1] \in c.first BY <2>1, <4>1, <4>2
      <4> QED BY <1>13, <1>17, <2>1, <4>4, <4>5, <4>6 DEF Only
    <3> QED BY <1>7, <1>13, <1>19, <2>1, <2>2, <2>4, <3>1 DEF LookupOK
  <2> QED BY <1>11, <2>3, <2>4
<1>20. c.op # "delete" => LookupOK(k, route) BY <1>13 DEF LookupOK
<1>21. LookupOK(k, route') BY <1>2, <1>18, <1>19, <1>20
<1> QED BY <1>2, <1>4, <1>12, <1>21, RoutesStep, SameRoutes DEF RoutesInv

\* For any number of processes, pages and rows to a page: a route that is
\* deleted by its network is the one that was meant, and was not one of several.
THEOREM RoutesSafe == RoutesSpec => DeletedIsTheOnlyOne
<1>1. RoutesInit => RoutesInv
  <2> SUFFICES ASSUME RoutesInit PROVE RoutesInv
    OBVIOUS
  <2>1. [net |-> Unset, vnet |-> Unset, state |-> "free"] \in RouteRec BY DEF RouteRec
  <2>2. route \in [RouteIDs -> RouteRec] /\ default \in VnetIDs BY <2>1 DEF RoutesInit
  <2>3. rcmd = [p \in RouteProcs |-> NoCmd] BY DEF RoutesInit
  <2> QED BY <2>2, <2>3, FreshCmd DEF RoutesInv
<1>2. RoutesInv /\ [RoutesNext]_routeVars => RoutesInv'
  <2> SUFFICES ASSUME RoutesInv, [RoutesNext]_routeVars PROVE RoutesInv'
    OBVIOUS
  <2>1. CASE UNCHANGED routeVars BY <2>1 DEF routeVars, RoutesInv
  <2> QED BY <2>1, BeginsInv, CallsInv, LookupsInv, FetchInv DEF RoutesNext
<1>3. ASSUME RoutesInv, [RoutesNext]_routeVars, NEW p \in RouteProcs,
             rcmd[p].op = "delete", rcmd[p].at = "call", rcmd[p].net # Unset, rcmd'[p] # rcmd[p],
             route'[rcmd[p].id] # route[rcmd[p].id]
      PROVE  LET c == rcmd[p] IN
             /\ route[c.id].net = c.net /\ (c.vnet # Unset => route[c.id].vnet = c.vnet)
             /\ c.first \intersect ActiveRoutes = {c.id}
  <2>1. \E q \in RouteProcs : DeleteRoute(q) \/ AddRoute(q) \/ DeleteVirtualNetwork(q)
    BY <1>3, Zenon DEF RoutesNext, routeVars, AddRouteCommand, DeleteRouteCommand, ShowRoutesCommand,
      AddVirtualNetworkCommand, DeleteVirtualNetworkCommand, UpdateVirtualNetworkCommand, Begins,
      GetVnetId, FetchPage, ShowRoutes, GetRouteId, CreateVirtualNetwork, UpdateVirtualNetwork, RequestFails
  <2>2. PICK q \in RouteProcs : DeleteRoute(q) \/ AddRoute(q) \/ DeleteVirtualNetwork(q) BY <2>1
  <2>3. rcmd' = [rcmd EXCEPT ![q] = NoCmd]
    BY <2>2 DEF DeleteRoute, AddRoute, DeleteVirtualNetwork, RouteCmdEnds
  <2>4. q = p BY <1>3, <2>3 DEF RoutesInv
  <2>5. DeleteRoute(p) BY <1>3, <2>2, <2>4 DEF AddRoute, DeleteVirtualNetwork
  <2> DEFINE c == rcmd[p]
  <2>6. c.id \in ActiveRoutes BY <2>5 DEF DeleteRoute
  <2>7. c \in RouteCmd /\ Seen(c, route) /\ Only(c.id, c, route) BY <1>3 DEF RoutesInv, LookupOK
  <2>8. c.first \in SUBSET RouteIDs BY <2>7 DEF RouteCmd
  <2> HIDE DEF c
  <2>9. /\ route[c.id].net = c.net /\ (c.vnet # Unset => route[c.id].vnet = c.vnet)
        /\ c.first \intersect ActiveRoutes = {c.id}
    BY <2>6, <2>7, <2>8 DEF Seen, Only, ActiveRoutes
  <2> QED BY <2>9, Zenon DEF c
<1>4. RoutesInv /\ [RoutesNext]_routeVars =>
        [\A p \in RouteProcs :
          LET c == rcmd[p] IN
          (c.op = "delete" /\ c.at = "call" /\ c.net # Unset /\ rcmd'[p] # c /\ route'[c.id] # route[c.id]) =>
             /\ route[c.id].net = c.net /\ (c.vnet # Unset => route[c.id].vnet = c.vnet)
             /\ c.first \intersect ActiveRoutes = {c.id}]_routeVars
  BY <1>3
<1> QED BY <1>1, <1>2, <1>4, PTL DEF RoutesSpec, DeletedIsTheOnlyOne
==============================================================================
