---------------------------- MODULE AccessTokens ----------------------------
(***************************************************************************)
(* Access to protected applications from the command line: login, curl,    *)
(* ssh and the forwarders fetch an application token, from the disk, in    *)
(* exchange for the organisation's token, or with a login in the browser.  *)
(* Processes share the token files and two lock files, which are never     *)
(* released: a lock ends with its process or with its age.                 *)
(***************************************************************************)
EXTENDS Naturals

CONSTANT AccessProcs \* processes that want the token of one application

ASSUME AccessAssumption == "none" \notin AccessProcs

VARIABLES
    appToken, \* token file of the application: none, good, revoked or expired
    orgToken, \* token file of the organisation: none, good or expired
    lock,     \* app, org -> the lock file: owner, contents written, older than lockTimeout
    acc       \* process -> where it is, its command, lock it is after, has slept, retries,
              \* saves the org token, token

accVars == <<appToken, orgToken, lock, acc>>

Free == [owner |-> "none", written |-> FALSE, old |-> FALSE]
NotStarted == [at |-> "idle", cmd |-> "stream", kind |-> "app", slept |-> FALSE, retry |-> FALSE, save |-> FALSE, token |-> "none"]

AccInit ==
    /\ appToken \in {"none", "good", "revoked", "expired"} /\ orgToken \in {"none", "good", "expired"}
    /\ lock = [k \in {"app", "org"} |-> Free]
    /\ acc = [p \in AccessProcs |-> NotStarted]

\* A request that is over is forgotten.
AccAt(p, at) ==
    acc' = [acc EXCEPT ![p] = IF at \in {"session", "failed", "dead"}
                              THEN [NotStarted EXCEPT !.at = at]
                              ELSE [@ EXCEPT !.at = at]]
Alive(p) == acc[p].at \notin {"idle", "dead"}
\* What the lock file of p's current lock says.
Held(p) == lock[acc[p].kind]
SetLock(p, l) == lock' = [lock EXCEPT ![acc[p].kind] = l]
-----------------------------------------------------------------------------
(* The commands *)

\* GetAppInfo asks the application where its users log in.
Command(p, cmd) ==
    /\ acc[p].at = "idle" /\ UNCHANGED <<appToken, orgToken, lock>>
    /\ \E at \in {"read", "failed"} : acc' = [acc EXCEPT ![p] = [NotStarted EXCEPT !.at = at, !.cmd = cmd]]

\* login and curl check the token with a request; ssh-gen uses what it gets.
Login(p) == Command(p, "login")
Curl(p) == Command(p, "curl")
SshGen(p) == Command(p, "once")
\* createWebsocketStream: an origin without Access is connected at once.
CreateWebsocketStream(p) ==
    \/ Command(p, "stream")
    \/ acc[p].at = "idle" /\ AccAt(p, "session") /\ UNCHANGED <<appToken, orgToken, lock>>
\* ssh, whose flags may be wrong; and the goroutine of a connection that a
\* forwarder accepted, which counts as a process of its own.
Ssh(p) == CreateWebsocketStream(p) \/ (acc[p].at = "idle" /\ AccAt(p, "failed") /\ UNCHANGED <<appToken, orgToken, lock>>)
ServeConnection(p) == CreateWebsocketStream(p)

\* getTokenIfExists, with an expired token removed.
NoToken == appToken \in {"none", "expired"} /\ appToken' \in {"none", appToken}

\* The command that prints a token fetches none.
GenerateToken(p) ==
    /\ acc[p].at = "idle" /\ AccAt(p, "session")
    /\ (NoToken \/ UNCHANGED appToken)
    /\ UNCHANGED <<orgToken, lock>>

\* GetAppTokenIfExists: an expired token is removed.
ReadAppToken(p) ==
    /\ acc[p].at \in {"read", "reread"}
    /\ \/ appToken \in {"good", "revoked"} /\ acc' = [acc EXCEPT ![p].at = "use", ![p].token = appToken] /\ UNCHANGED appToken
       \/ /\ NoToken
          /\ acc' = [acc EXCEPT ![p].at = IF acc[p].at = "read" THEN "create" ELSE "org", ![p].kind = "app", ![p].slept = FALSE, ![p].save = FALSE]
    /\ UNCHANGED <<orgToken, lock>>

\* IsAccessResponse: the redirect to the login page of a token that is bad,
\* which is then removed and fetched once more.
IsAccessResponse(p) ==
    acc[p].token = "revoked" /\ AccAt(p, IF acc[p].retry THEN "failed" ELSE "removeToken")

\* isTokenValid, for login and curl; ssh-gen does not check its token.
VerifyToken(p) ==
    /\ acc[p].at = "use" /\ acc[p].cmd # "stream"
    /\ \/ acc[p].cmd = "once" /\ AccAt(p, "session")
       \/ acc[p].cmd # "once" /\ acc[p].token = "good" /\ AccAt(p, "print")
       \/ acc[p].cmd # "once" /\ IsAccessResponse(p)
       \/ AccAt(p, "failed")
    /\ UNCHANGED <<appToken, orgToken, lock>>

\* createAccessWebSocketStream
AccessWebSocketStream(p) ==
    /\ acc[p].at = "use" /\ acc[p].cmd = "stream"
    /\ \/ acc[p].token = "good" /\ AccAt(p, "session")
       \/ IsAccessResponse(p)
       \/ AccAt(p, "failed")
    /\ UNCHANGED <<appToken, orgToken, lock>>

\* login and curl read the token that was checked once more; without it login
\* fails, and curl fetches one, or, with --allow-request, goes without.
PrintLogin(p) ==
    /\ acc[p].at = "print" /\ acc[p].cmd = "login"
    /\ \/ appToken \in {"good", "revoked"} /\ AccAt(p, "session") /\ UNCHANGED appToken
       \/ NoToken /\ AccAt(p, "failed")
    /\ UNCHANGED <<orgToken, lock>>
PrintCurl(p) ==
    /\ acc[p].at = "print" /\ acc[p].cmd = "curl"
    /\ \/ appToken \in {"good", "revoked"} /\ AccAt(p, "session") /\ UNCHANGED appToken
       \/ NoToken /\ (AccAt(p, "session") \/ acc' = [acc EXCEPT ![p] = [NotStarted EXCEPT !.at = "read", !.cmd = "once"]])
    /\ UNCHANGED <<orgToken, lock>>

\* RemoveTokenIfExists removes whatever token is there by now; if it cannot, the
\* command fails.
RemoveToken(p) ==
    /\ acc[p].at = "removeToken"
    /\ \/ appToken' = "none" /\ acc' = [acc EXCEPT ![p].at = "read", ![p].retry = TRUE]
       \/ AccAt(p, "failed") /\ UNCHANGED appToken
    /\ UNCHANGED <<orgToken, lock>>
-----------------------------------------------------------------------------
(* acquireLockFile *)

\* tryCreateLockFile: the file is created exclusively and written then.
CreateLock(p) ==
    /\ acc[p].at = "create"
    /\ \/ Held(p) = Free /\ SetLock(p, [Free EXCEPT !.owner = p]) /\ AccAt(p, "writeLock")
       \/ Held(p) # Free /\ AccAt(p, "check") /\ UNCHANGED lock
       \/ AccAt(p, "failed") /\ UNCHANGED lock
    /\ UNCHANGED <<appToken, orgToken>>

\* A file that was removed meanwhile is written all the same; after an error
\* the path is removed, whoever's file it is.
WriteLock(p) ==
    /\ acc[p].at = "writeLock"
    /\ \/ /\ IF Held(p).owner = p THEN SetLock(p, [Held(p) EXCEPT !.written = TRUE]) ELSE UNCHANGED lock
          /\ AccAt(p, IF acc[p].kind = "app" THEN "reread" ELSE "org")
       \/ SetLock(p, Free) /\ AccAt(p, "failed")
    /\ UNCHANGED <<appToken, orgToken>>

\* Mutant: the age of the lock file does not count.
StaleByOwner(l) == ~l.written \/ ~Alive(l.owner)
\* isLockFileStale: an empty file counts as stale, also one that is about to be
\* written.
Stale(l) == ~l.written \/ ~Alive(l.owner) \/ l.old

CheckLock(p) ==
    /\ acc[p].at = "check" /\ UNCHANGED <<appToken, orgToken, lock>>
    /\ AccAt(p, IF Held(p) # Free /\ Stale(Held(p)) THEN "reclaim" ELSE "sleep")

\* What is removed is the file that is there now, which need not be the one that
\* was looked at.
Reclaim(p) ==
    /\ acc[p].at = "reclaim" /\ SetLock(p, Free) /\ AccAt(p, "create")
    /\ UNCHANGED <<appToken, orgToken>>
ReclaimFails(p) ==
    /\ acc[p].at = "reclaim" /\ AccAt(p, "sleep")
    /\ UNCHANGED <<appToken, orgToken, lock>>

Sleep(p) ==
    /\ acc[p].at = "sleep" /\ acc' = [acc EXCEPT ![p].at = "create", ![p].slept = TRUE]
    /\ UNCHANGED <<appToken, orgToken, lock>>
\* lockTimeout after it began a process gives up.
GiveUp(p) ==
    /\ acc[p].at = "create" /\ acc[p].slept /\ AccAt(p, "failed")
    /\ UNCHANGED <<appToken, orgToken, lock>>
-----------------------------------------------------------------------------
(* getToken with the lock *)

\* GetOrgTokenIfExists removes an expired token and returns an empty one.
OrgTokenExpired == orgToken = "expired" /\ orgToken' = "none"

\* Without a token the lock of the organisation is taken, and then the login's
\* token saved; an empty one is sent without the lock.
ReadOrgToken(p) ==
    /\ acc[p].at = "org"
    /\ \/ orgToken = "good" /\ AccAt(p, "exchange") /\ UNCHANGED orgToken
       \/ OrgTokenExpired /\ acc' = [acc EXCEPT ![p].at = "exchange", ![p].save = (acc[p].kind = "org")]
       \/ /\ orgToken = "none" /\ UNCHANGED orgToken
          /\ acc' = [acc EXCEPT ![p].at = IF acc[p].kind = "app" THEN "create" ELSE "transfer",
                                ![p].kind = "org", ![p].slept = FALSE, ![p].save = TRUE]
    /\ UNCHANGED <<appToken, lock>>

\* exchangeOrgToken: the single sign-on redirects; if that fails, the browser.
Exchange(p) ==
    /\ acc[p].at = "exchange"
    /\ \/ appToken' = "good" /\ acc' = [acc EXCEPT ![p].at = "use", ![p].token = "good"]
       \/ AccAt(p, "transfer") /\ UNCHANGED appToken
       \/ AccAt(p, "failed") /\ UNCHANGED appToken
    /\ UNCHANGED <<orgToken, lock>>

\* transferRequest polls ten times, for a minute at most each time, for what
\* the user brings back; an answer above 500 ends it.
Polled(p) == {IF acc[p].save THEN "writeOrg" ELSE "writeApp", "failed"}
\* RunTransfer opens the browser and polls.
Transfer(p) ==
    /\ acc[p].at = "transfer" /\ \E at \in Polled(p) : AccAt(p, at)
    /\ UNCHANGED <<appToken, orgToken, lock>>
WriteOrg(p) ==
    /\ acc[p].at = "writeOrg"
    /\ \/ orgToken' = "good" /\ AccAt(p, "writeApp")
       \/ AccAt(p, "failed") /\ UNCHANGED orgToken
    /\ UNCHANGED <<appToken, lock>>
WriteApp(p) ==
    /\ acc[p].at = "writeApp"
    /\ \/ appToken' = "good" /\ acc' = [acc EXCEPT ![p].at = "use", ![p].token = "good"]
       \/ AccAt(p, "failed") /\ UNCHANGED appToken
    /\ UNCHANGED <<orgToken, lock>>
-----------------------------------------------------------------------------
(* The environment *)

\* A process dies at any point; after an error or a session it exits.
Exit(p) == Alive(p) /\ AccAt(p, "dead") /\ UNCHANGED <<appToken, orgToken, lock>>

LockAges(k) ==
    /\ lock[k].written /\ ~lock[k].old /\ lock' = [lock EXCEPT ![k].old = TRUE]
    /\ UNCHANGED <<appToken, orgToken, acc>>

\* The tokens of the user are revoked.
Revoke ==
    /\ appToken = "good" /\ appToken' = "revoked"
    /\ acc' = [p \in AccessProcs |-> [acc[p] EXCEPT !.token = IF @ = "good" THEN "revoked" ELSE @]]
    /\ UNCHANGED <<orgToken, lock>>

AccStep(p) ==
    \/ ReadAppToken(p) \/ VerifyToken(p) \/ AccessWebSocketStream(p) \/ RemoveToken(p) \/ CreateLock(p) \/ WriteLock(p) \/ CheckLock(p)
    \/ Reclaim(p) \/ ReclaimFails(p) \/ Sleep(p) \/ ReadOrgToken(p) \/ Exchange(p) \/ Transfer(p) \/ WriteOrg(p) \/ WriteApp(p) \/ PrintLogin(p) \/ PrintCurl(p)
AccNext ==
    \/ \E p \in AccessProcs : Login(p) \/ Curl(p) \/ SshGen(p) \/ Ssh(p) \/ ServeConnection(p) \/ GenerateToken(p) \/ AccStep(p) \/ GiveUp(p) \/ Exit(p)
    \/ \E k \in {"app", "org"} : LockAges(k)
    \/ Revoke

\* Processes run, time passes, and a removal does not fail for ever.  Giving up
\* is not counted on, nor is the end of a session or of a process that failed.
AccFairness ==
    /\ \A p \in AccessProcs : WF_accVars(AccStep(p)) /\ SF_accVars(Reclaim(p))
    /\ \A k \in {"app", "org"} : WF_accVars(LockAges(k))
-----------------------------------------------------------------------------
\* The lock file of a process that lives, from when acquireLockFile has returned
\* until the file is old.
Firm(l) == l.owner # "none" /\ Alive(l.owner) /\ l.written /\ ~l.old

\* The processes that may still remove the lock file of k: those that have looked
\* at a stale one, which may be gone by now, and those that cannot write theirs.
Rivals(k) == {p \in AccessProcs : acc[p].at \in {"reclaim", "writeLock"} /\ acc[p].kind = k}

\* The check and the removal are two steps, so that a process may remove the fresh
\* lock of another one that found the same stale lock; but nobody who looks at a
\* firm lock takes it: its rivals only become fewer, and each of them takes a lock
\* once at most.  With no rival left it stays with its owner.
LocksKept ==
    [][\A k \in {"app", "org"} :
          Firm(lock[k]) =>
             /\ Rivals(k)' \subseteq Rivals(k)
             /\ lock'[k].owner # lock[k].owner => Rivals(k)' # Rivals(k)]_accVars

\* Nobody waits for ever behind a lock, although no lock is ever released: not
\* behind a process that died, nor behind a long session, nor behind the lock
\* that the process itself took before its first token was refused.
TokenRequestsEnd ==
    \A p \in AccessProcs : (acc[p].at = "read") ~> (acc[p].at \in {"session", "failed", "dead"})
=============================================================================
