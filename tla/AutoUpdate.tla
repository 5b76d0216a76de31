----------------------------- MODULE AutoUpdate -----------------------------
(***************************************************************************)
(* The updater: the update command and the auto-updater of a running       *)
(* service fetch a new binary next to the installed one, verify it and     *)
(* swap the two, on Windows with a batch file.  Calls, downloads and       *)
(* renames fail, and the process may die between any two steps.  One       *)
(* update runs at a time; nothing in the code enforces that.               *)
(***************************************************************************)
EXTENDS Naturals

CONSTANT MaxVersion \* bound: versions that are released

ASSUME UpdateAssumption == MaxVersion \in Nat \ {0}

VARIABLES
    onWindows,
    target,   \* the installed binary: 0 none, a version, or Broken
    newFile,  \* target.new
    oldFile,  \* target.old
    latest,   \* the newest release
    running,  \* version of the service process, 0 when it is down
    update,   \* the update: who runs it, step, version of its process, version offered
    outcome   \* what the last update reported, with the version

updVars == <<onWindows, target, newFile, oldFile, latest, running, update, outcome>>

Released == 1..MaxVersion
Broken == MaxVersion + 1  \* a partial file, or a page in place of the binary
NoUpdate == [by |-> "none", at |-> "-", current |-> 0, offer |-> 0]

UpdInit ==
    /\ onWindows \in BOOLEAN /\ target = 1 /\ newFile = 0 /\ oldFile = 0 /\ latest = 1
    /\ running = 1 /\ update = NoUpdate /\ outcome = <<"none", 0>>

Go(at) == update' = [update EXCEPT !.at = at]
Ends(result) == update' = NoUpdate /\ outcome' = <<result, update.offer>>

Release ==
    /\ latest < MaxVersion /\ latest' = latest + 1
    /\ UNCHANGED <<onWindows, target, newFile, oldFile, running, update, outcome>>

Begin(by, version) ==
    /\ update = NoUpdate /\ outcome' = <<"none", 0>>
    /\ update' = [by |-> by, at |-> "check", current |-> version, offer |-> 0]
    /\ UNCHANGED <<onWindows, target, newFile, oldFile, latest, running>>

\* The update command runs the installed binary.
BeginUpdate == target \in Released /\ Begin("command", target)

\* isAutoupdateEnabled: not on Windows.
AutoUpdates == ~onWindows

\* A tick of the service's auto-updater.
BeginAuto == AutoUpdates /\ running # 0 /\ Begin("auto", running)

\* The service decides which version it offers, if any; --version may ask for
\* an older one.
Check ==
    /\ update.at = "check"
    /\ \/ Ends("failed")
       \/ Ends("current")
       \/ \E v \in 1..latest : update' = [update EXCEPT !.at = "remove", !.offer = v] /\ UNCHANGED outcome
    /\ UNCHANGED <<onWindows, target, newFile, oldFile, latest, running>>

\* Apply: what a failed update left is removed.
RemoveNew ==
    /\ update.at = "remove" /\ Go("download") /\ newFile' \in {0, newFile}
    /\ UNCHANGED <<onWindows, target, oldFile, latest, running, outcome>>

\* download: the status of the answer is not looked at; while the body is
\* copied the file is partial.
Download ==
    /\ update.at = "download"
    /\ \/ Ends("failed") /\ UNCHANGED newFile
       \/ newFile' = Broken /\ Go("copy") /\ UNCHANGED outcome
    /\ UNCHANGED <<onWindows, target, oldFile, latest, running>>
Copy ==
    /\ update.at = "copy"
    /\ \/ Ends("failed") /\ UNCHANGED newFile
       \/ newFile' \in {update.offer, Broken} /\ Go("verify") /\ UNCHANGED outcome
    /\ UNCHANGED <<onWindows, target, oldFile, latest, running>>

\* Mutant: the file is taken as it was downloaded.
VerifyNothing ==
    /\ update.at = "verify" /\ Go(IF onWindows THEN "batch" ELSE "moveOut")
    /\ UNCHANGED <<onWindows, target, newFile, oldFile, latest, running, outcome>>

\* The checksum must be the offered one, and not that of this process.
Verify ==
    /\ update.at = "verify"
    /\ \/ newFile # update.offer /\ Ends("failed") /\ UNCHANGED newFile
       \/ newFile = update.offer /\ newFile = update.current /\ Ends("failed") /\ newFile' \in {0, newFile}
       \/ newFile = update.offer /\ newFile # update.current
          /\ Go(IF onWindows THEN "batch" ELSE "moveOut") /\ UNCHANGED <<newFile, outcome>>
    /\ UNCHANGED <<onWindows, target, oldFile, latest, running>>

MoveOut ==
    /\ update.at = "moveOut"
    /\ \/ target # 0 /\ oldFile' = target /\ target' = 0 /\ Go("moveIn") /\ UNCHANGED outcome
       \/ Ends("failed") /\ UNCHANGED <<target, oldFile>>
    /\ UNCHANGED <<onWindows, newFile, latest, running>>

MoveIn ==
    /\ update.at = "moveIn"
    /\ \/ target' = newFile /\ newFile' = 0 /\ Go("clean")
       \/ Go("rollback") /\ UNCHANGED <<target, newFile>>
    /\ UNCHANGED <<onWindows, oldFile, latest, running, outcome>>

RollbackRename ==
    /\ update.at = "rollback" /\ Ends("failed")
    /\ \/ target' = oldFile /\ oldFile' = 0
       \/ UNCHANGED <<target, oldFile>>
    /\ UNCHANGED <<onWindows, newFile, latest, running>>

\* What becomes of the service: an auto-updater ends its process, for SysV
\* after it started the new one; after the command the unit of the systemd
\* timer restarts the service.
AfterUpdate == IF update.by = "auto" THEN {0, target} ELSE {running, target}

RemoveOld ==
    /\ update.at = "clean" /\ Ends("updated") /\ oldFile' \in {0, oldFile} /\ running' \in AfterUpdate
    /\ UNCHANGED <<onWindows, target, newFile, latest>>

\* writeBatchFile and the batch: the service is stopped, old deleted, both
\* files renamed, the service started, and success is reported whatever failed.
Batch ==
    /\ update.at = "batch"
    /\ \/ Ends("failed") /\ UNCHANGED <<oldFile, running>>
       \/ Go("renameTarget") /\ running' \in {0, running} /\ oldFile' \in {0, oldFile} /\ UNCHANGED outcome
    /\ UNCHANGED <<onWindows, target, newFile, latest>>
RenameTarget ==
    /\ update.at = "renameTarget" /\ Go("renameNew")
    /\ \/ target # 0 /\ oldFile = 0 /\ oldFile' = target /\ target' = 0
       \/ UNCHANGED <<target, oldFile>>
    /\ UNCHANGED <<onWindows, newFile, latest, running, outcome>>
RenameNew ==
    /\ update.at = "renameNew" /\ Ends("updated")
    /\ \/ target = 0 /\ target' = newFile /\ newFile' = 0
       \/ UNCHANGED <<target, newFile>>
    /\ running' \in {running, IF running = 0 THEN target' ELSE running}
    /\ UNCHANGED <<onWindows, oldFile, latest>>

\* The updating process dies, which for an auto-updater is the service.
UpdaterDies ==
    /\ update # NoUpdate /\ update' = NoUpdate /\ outcome' = <<"died", update.offer>>
    /\ running' = IF update.by = "auto" THEN 0 ELSE running
    /\ UNCHANGED <<onWindows, target, newFile, oldFile, latest>>

\* The host: the service ends or is started, and an operator puts the old
\* binary back where none is installed.
HostStep ==
    /\ update = NoUpdate
    /\ \/ running # 0 /\ running' = 0 /\ UNCHANGED <<target, oldFile>>
       \/ running = 0 /\ target \in Released /\ running' = target /\ UNCHANGED <<target, oldFile>>
       \/ target = 0 /\ oldFile # 0 /\ target' = oldFile /\ oldFile' = 0 /\ UNCHANGED running
    /\ UNCHANGED <<onWindows, newFile, latest, update, outcome>>

UpdNext ==
    \/ Release \/ BeginUpdate \/ BeginAuto \/ Check \/ RemoveNew \/ Download \/ Copy \/ Verify \/ MoveOut \/ MoveIn \/ RollbackRename
    \/ RemoveOld \/ Batch \/ RenameTarget \/ RenameNew \/ UpdaterDies \/ HostStep
-----------------------------------------------------------------------------
\* Whatever fails and wherever the updater dies, in whatever sequence of
\* updates, a complete binary is left on the disk: it is installed, or it is
\* the old file and nothing is installed.  An update that reports success has
\* installed its version; on Windows the batch reports success in any case.
BinaryRecoverable ==
    /\ target \in Released \/ (target = 0 /\ oldFile \in Released)
    /\ (outcome[1] = "updated" /\ ~onWindows) => target = outcome[2]
=============================================================================
