--------------------------- MODULE ServiceInstall ---------------------------
(***************************************************************************)
(* cloudflared service install and uninstall, on systemd, OpenRC, SysV,    *)
(* launchd and Windows.  An operator runs one command after another; any   *)
(* step of a command may fail.  The service manager, which is external,    *)
(* starts the service, restarts it when it fails and at boot.              *)
(***************************************************************************)
EXTENDS Naturals

VARIABLES
    platform,
    units,     \* files and registrations of the service that exist
    unitArg,   \* what the unit tells the service to use: token (a file) or config
    tokenFile, \* the token file exists
    configFile, \* /etc/cloudflared/config.yml exists (Linux)
    enabled,   \* enabled in the service manager: links, or the start type
    timer,     \* the update timer runs
    service,   \* off, on, stopping (Windows, after the first stop request)
    job,       \* the command that runs: [cmd, at, token, update, written]
    last       \* what the last command reported

svcVars == <<platform, units, unitArg, tokenFile, configFile, enabled, timer, service, job, last>>

Linux == platform \in {"systemd", "openrc", "sysv"}
NoJob == [cmd |-> "none", at |-> "-", token |-> FALSE, update |-> FALSE, written |-> {}]

\* The files in the order in which they are written.
Templates(update) ==
    CASE platform = "systemd" -> IF update THEN {"service", "update", "timer"} ELSE {"service"}
      [] platform = "openrc" -> {"conf", "service"}
      [] OTHER -> {"service"}
Order == [conf |-> 0, service |-> 1, update |-> 2, timer |-> 3]

SvcInit ==
    /\ platform \in {"systemd", "openrc", "sysv", "launchd", "windows"} /\ units = {} /\ unitArg = "none" /\ tokenFile = FALSE
    /\ configFile \in IF Linux THEN BOOLEAN ELSE {FALSE}
    /\ enabled = FALSE /\ timer = FALSE /\ service = "off" /\ job = NoJob /\ last = "none"

At(at) == job' = [job EXCEPT !.at = at]
-----------------------------------------------------------------------------
(* install *)

Install(token, update) ==
    /\ job = NoJob /\ last' = "none"
    /\ job' = [cmd |-> "install", at |-> IF platform = "windows" THEN "exists" ELSE IF token THEN "token" ELSE "config",
               token |-> token, update |-> update, written |-> {}]
    /\ UNCHANGED <<platform, configFile, units, unitArg, tokenFile, enabled, timer, service>>

\* The deferred function of a token install removes the token file again.
InstallFails ==
    /\ job' = NoJob /\ last' = "failed"
    /\ IF job.token /\ platform # "windows" THEN tokenFile' \in {FALSE, tokenFile} ELSE UNCHANGED tokenFile

\* writeTokenToConfigDir: whatever token file was there is overwritten.  A part
\* of it may stay behind when it can neither be written nor removed.
WriteToken ==
    /\ job.cmd = "install" /\ job.at = "token"
    /\ \/ job' = NoJob /\ last' = "failed" /\ tokenFile' \in BOOLEAN
       \/ tokenFile' = TRUE /\ At("generate") /\ UNCHANGED last
    /\ UNCHANGED <<platform, configFile, units, unitArg, enabled, timer, service>>

\* copyFile; part of a copy that fails may stay behind.
CopyFile ==
    \/ configFile' \in BOOLEAN /\ InstallFails
    \/ configFile' = TRUE /\ At("generate") /\ UNCHANGED <<tokenFile, last>>

\* On Linux a complete configuration must be found.  One that is not the
\* service's own is copied to where the service reads it, unless there is one
\* already: then the install is refused.  launchd needs no configuration.
BuildArgsForConfig ==
    /\ job.cmd = "install" /\ job.at = "config"
    /\ \/ Linux /\ InstallFails /\ UNCHANGED configFile
       \/ (Linux => configFile) /\ At("generate") /\ UNCHANGED <<configFile, tokenFile, last>>
       \/ Linux /\ ~configFile /\ CopyFile
    /\ UNCHANGED <<platform, units, unitArg, enabled, timer, service>>

\* On Windows the service must not exist; the token is an argument of it.
OpenService ==
    /\ job.at = "exists"
    /\ \/ InstallFails
       \/ units = {} /\ At("generate") /\ UNCHANGED <<tokenFile, last>>
    /\ UNCHANGED <<platform, configFile, units, unitArg, enabled, timer, service>>

\* Generate refuses to overwrite a file, also one that a failed install left; one
\* that cannot be written completely is left as it is.
Generate ==
    /\ job.cmd = "install" /\ job.at = "generate"
    /\ \E f \in Templates(job.update) \ job.written :
          /\ \A g \in Templates(job.update) \ job.written : Order[f] <= Order[g]
          /\ \/ InstallFails /\ UNCHANGED <<units, unitArg>>
             \/ /\ InstallFails /\ f \notin units /\ platform # "windows"
                /\ units' = units \union {f} /\ unitArg' = IF f = "service" THEN "none" ELSE unitArg
             \/ /\ f \notin units
                /\ units' = units \union {f}
                /\ unitArg' = IF f = "service" THEN (IF job.token THEN "token" ELSE "config") ELSE unitArg
                /\ LET written == job.written \union {f} IN
                   job' = [job EXCEPT !.written = written, !.at = IF Templates(job.update) \subseteq written THEN "enable" ELSE @]
                /\ UNCHANGED <<tokenFile, last>>
    /\ UNCHANGED <<platform, configFile, enabled, timer, service>>

\* systemctl enable, start of the timer, daemon-reload: each may fail.
EnableSystemd ==
    /\ platform = "systemd" /\ job.cmd = "install" /\ job.at = "enable"
    /\ \/ InstallFails /\ enabled' \in BOOLEAN /\ timer' \in IF job.update /\ enabled' THEN BOOLEAN ELSE {timer}
       \/ At("start") /\ enabled' = TRUE /\ timer' = (timer \/ job.update) /\ UNCHANGED <<tokenFile, last>>
    /\ UNCHANGED <<platform, configFile, units, unitArg, service>>

\* A link that cannot be made is passed over.
LinkSysv ==
    /\ platform = "sysv" /\ job.cmd = "install" /\ job.at = "enable"
    /\ At("start") /\ enabled' \in {enabled, TRUE}
    /\ UNCHANGED <<platform, configFile, units, unitArg, tokenFile, timer, service, last>>

\* rc-update add
EnableOpenRC ==
    /\ platform = "openrc" /\ job.cmd = "install" /\ job.at = "enable"
    /\ \/ InstallFails /\ UNCHANGED enabled
       \/ At("start") /\ enabled' = TRUE /\ UNCHANGED <<tokenFile, last>>
    /\ UNCHANGED <<platform, configFile, units, unitArg, timer, service>>

\* Without its event log the service is deleted again, if that works.
InstallEventLog ==
    /\ platform = "windows" /\ job.cmd = "install" /\ job.at = "enable"
    /\ \/ InstallFails /\ units' \in {units, {}} /\ enabled' = (units' # {})
       \/ At("start") /\ enabled' = TRUE /\ UNCHANGED <<units, tokenFile, last>>
    /\ UNCHANGED <<platform, configFile, unitArg, timer, service>>

\* launchctl load starts the service, now and at boot.
LoadLaunchd ==
    /\ platform = "launchd" /\ job.cmd = "install" /\ job.at = "enable"
    /\ \/ InstallFails /\ UNCHANGED <<enabled, service>>
       \/ enabled' = TRUE /\ service' = "on" /\ job' = NoJob /\ last' = "installed" /\ UNCHANGED tokenFile
    /\ UNCHANGED <<platform, configFile, units, unitArg, timer>>

StartService ==
    /\ job.cmd = "install" /\ job.at = "start"
    /\ \/ InstallFails /\ UNCHANGED service
       \/ service' = "on" /\ job' = NoJob /\ last' = "installed" /\ UNCHANGED tokenFile
    /\ UNCHANGED <<platform, configFile, units, unitArg, enabled, timer>>
-----------------------------------------------------------------------------
(* uninstall *)

Uninstall ==
    /\ job = NoJob /\ last' = "none"
    /\ job' = [NoJob EXCEPT !.cmd = "uninstall", !.at = "stop"]
    /\ UNCHANGED <<platform, configFile, units, unitArg, tokenFile, enabled, timer, service>>

\* On Linux the token file is removed in any case, on launchd only after the
\* service was unloaded; removing it may fail, which is logged.
UninstallReturns(result) ==
    /\ job' = NoJob /\ last' = result
    /\ IF Linux \/ (platform = "launchd" /\ result = "uninstalled") THEN tokenFile' \in {FALSE, tokenFile} ELSE UNCHANGED tokenFile

Stopping(p) == platform = p /\ job.cmd = "uninstall" /\ job.at = "stop"

\* Only for units that exist: disable and stop the service, stop the timer.
StopSystemd ==
    /\ Stopping("systemd")
    /\ \/ /\ At("remove")
          /\ service' = IF "service" \in units THEN "off" ELSE service
          /\ enabled' = (enabled /\ "service" \notin units)
          /\ timer' = (timer /\ "timer" \notin units)
          /\ UNCHANGED <<tokenFile, last>>
       \/ /\ {"service", "timer"} \intersect units # {} /\ UninstallReturns("failed")
          /\ enabled' \in IF "service" \in units THEN {enabled, FALSE} ELSE {enabled}
          /\ service' \in IF "service" \in units /\ ~enabled' THEN {service, "off"} ELSE {service}
          /\ UNCHANGED timer
    /\ UNCHANGED <<platform, configFile, units, unitArg>>

StopSysv ==
    /\ Stopping("sysv")
    /\ \/ units # {} /\ service' = "off" /\ At("remove") /\ UNCHANGED <<tokenFile, last>>
       \/ UninstallReturns("failed") /\ UNCHANGED service
    /\ UNCHANGED <<platform, configFile, units, unitArg, enabled, timer>>

\* Errors of rc-service and rc-update are only logged.
StopOpenRC ==
    /\ Stopping("openrc") /\ At("remove")
    /\ service' \in {service, "off"} /\ enabled' \in {enabled, FALSE}
    /\ UNCHANGED <<platform, configFile, units, unitArg, tokenFile, timer, last>>

UnloadLaunchd ==
    /\ Stopping("launchd")
    /\ \/ service' = "off" /\ enabled' = FALSE /\ At("remove") /\ UNCHANGED <<tokenFile, last>>
       \/ UninstallReturns("failed") /\ UNCHANGED <<service, enabled>>
    /\ UNCHANGED <<platform, configFile, units, unitArg, timer>>

\* The service must exist; one that cannot be stopped is only logged.
ControlStop ==
    /\ Stopping("windows")
    /\ \/ units = {} /\ UninstallReturns("failed") /\ UNCHANGED service
       \/ units # {} /\ At("remove") /\ service' \in {service, "off"} /\ UNCHANGED <<tokenFile, last>>
    /\ UNCHANGED <<platform, configFile, units, unitArg, enabled, timer>>

\* Mutant: only the unit of the service itself is looked for.
InstalledOnlyService == units \intersect {"service"}
\* Only what exists is removed; the files of a partial install count.
Installed == units

\* A file cannot be removed; on launchd that error is overwritten before the
\* command returns.  Behind the files come daemon-reload and the event log.
RemoveUnits ==
    /\ job.cmd = "uninstall" /\ job.at = "remove"
    /\ \/ /\ Installed # {}
          /\ \E f \in Installed : /\ platform = "openrc" => \A g \in Installed : Order[g] <= Order[f]
                               /\ units' = units \ {f}
          /\ UNCHANGED <<tokenFile, job, last>>
       \/ Installed = {} /\ UninstallReturns("uninstalled") /\ UNCHANGED units
       \/ /\ Installed # {} \/ platform \in {"systemd", "windows"}
          /\ UNCHANGED units /\ UninstallReturns(IF platform = "launchd" THEN "uninstalled" ELSE "failed")
    \* SysV's links may stay behind, the start type of a Windows service does not.
    /\ enabled' \in CASE units' = {} /\ platform = "sysv" -> {enabled, FALSE}
                      [] units' = {} /\ platform = "windows" -> {FALSE}
                      [] OTHER -> {enabled}
    /\ UNCHANGED <<platform, configFile, unitArg, timer, service>>
-----------------------------------------------------------------------------
(* The service manager *)

\* The unit is complete, and what it names is there.
CanRun ==
    /\ "service" \in units
    /\ \/ unitArg = "token" /\ (platform = "windows" \/ tokenFile)
       \/ unitArg = "config" /\ (Linux => configFile)

\* The service fails, is stopped, or the host goes down.
ServiceEnds ==
    /\ service # "off" /\ service' = "off"
    /\ UNCHANGED <<platform, configFile, units, unitArg, tokenFile, enabled, timer, job, last>>

\* Boot, or restart on failure.
ManagerStarts ==
    /\ service = "off" /\ enabled /\ CanRun /\ job = NoJob /\ service' = "on"
    /\ UNCHANGED <<platform, configFile, units, unitArg, tokenFile, enabled, timer, job, last>>

\* Execute: the first stop request starts a graceful shutdown, the second one
\* ends the service at once.
StopRequest ==
    /\ platform = "windows" /\ service \in {"on", "stopping"}
    /\ service' = IF service = "on" THEN "stopping" ELSE "off"
    /\ UNCHANGED <<platform, configFile, units, unitArg, tokenFile, enabled, timer, job, last>>

SvcNext ==
    \/ \E token, update \in BOOLEAN : Install(token, update)
    \/ WriteToken \/ BuildArgsForConfig \/ OpenService \/ Generate
    \/ EnableSystemd \/ LinkSysv \/ EnableOpenRC \/ InstallEventLog \/ LoadLaunchd \/ StartService
    \/ Uninstall \/ StopSystemd \/ StopSysv \/ StopOpenRC \/ UnloadLaunchd \/ ControlStop \/ RemoveUnits
    \/ ServiceEnds \/ ManagerStarts \/ StopRequest
-----------------------------------------------------------------------------
\* An uninstall that reports success cleans up after every sequence of partial
\* installs and failed uninstalls: no file or registration of the service is left
\* on which Generate or OpenService would refuse the next install, and on systemd
\* the service and the update timer have stopped and nothing is enabled.  launchd
\* is the exception (RemoveUnits).  The copied configuration is not part of it: it
\* stays, and refuses the next install from another file (BuildArgsForConfig).
UninstallCleans ==
    (last = "uninstalled" /\ platform # "launchd") =>
       /\ units = {}
       /\ platform = "systemd" => service = "off" /\ ~enabled /\ ~timer

\* A service that was reported as installed can run: the unit is the one that this
\* install wrote, and the token file or configuration that it names is there,
\* whatever earlier installs and uninstalls left or removed.
InstalledRuns == last = "installed" => CanRun

\* What the last command reported is so.
ServiceReported == UninstallCleans /\ InstalledRuns
=============================================================================
