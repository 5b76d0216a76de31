---------------------------- MODULE Diagnostics -----------------------------
(***************************************************************************)
(* cloudflared tunnel diag: the instance is looked for on the known        *)
(* metrics addresses, the jobs run one after the other, each into a        *)
(* temporary file with a fixed name, the files are put into an archive and *)
(* removed.  Two people may run it on one host.                            *)
(***************************************************************************)
EXTENDS Naturals, Sequences

CONSTANT DiagRuns

VARIABLES
    tmp,   \* job -> whose data the temporary file has, or none
    diag   \* run -> where it is, jobs left, paths that the jobs reported, whether there is an archive

diagVars == <<tmp, diag>>

\* One job of each kind, in their order: an endpoint of the metrics server, the
\* logs, the network traces, the pre-checks, and the report on the jobs.
DiagJobs == <<"state", "logs", "network", "prechecks", "report">>
JobSet == {DiagJobs[i] : i \in DOMAIN DiagJobs}

DiagInit ==
    /\ tmp = [j \in JobSet |-> "none"]
    /\ diag = [r \in DiagRuns |-> [at |-> "start", next |-> 1, paths |-> {}, zipped |-> FALSE]]

DiagAt(r, at) == diag' = [diag EXCEPT ![r].at = at]

\* The number of known addresses that answer; exactly one must.
FindMetricsServer(instances) == instances = 1

\* An address that was given is taken, unless it is none.
ResolveInstance(r) ==
    /\ diag[r].at = "start"
    /\ \E given, valid \in BOOLEAN, instances \in 0..2 :
          DiagAt(r, IF (given /\ valid) \/ (~given /\ FindMetricsServer(instances)) THEN "jobs" ELSE "ended")
    /\ UNCHANGED tmp

\* runJobs: the jobs come one after the other, and each one reports a path.
JobEnds(r, paths) == diag' = [diag EXCEPT ![r].next = @ + 1, ![r].paths = @ \union paths]
IsNext(r, j) == diag[r].at = "jobs" /\ diag[r].next <= Len(DiagJobs) /\ DiagJobs[diag[r].next] = j

\* A job is switched off, or cannot create its file.
NoFile(r) ==
    /\ diag[r].at = "jobs" /\ diag[r].next <= Len(DiagJobs)
    /\ JobEnds(r, {}) /\ UNCHANGED tmp

\* Mutant: a collector that fails reports no file.
CollectEndpointForgets(r) ==
    /\ IsNext(r, "state") /\ tmp' = [tmp EXCEPT !["state"] = r]
    /\ \E failed \in BOOLEAN : JobEnds(r, IF failed THEN {} ELSE {"state"})

\* The endpoints report their file whether or not the call failed.
CollectEndpoint(r) ==
    /\ IsNext(r, "state") /\ tmp' = [tmp EXCEPT !["state"] = r] /\ JobEnds(r, {"state"})

\* Logs that could not be collected to the end are forgotten.
LogFile(r) ==
    /\ tmp' = [tmp EXCEPT !["logs"] = r]
    /\ \E failed \in BOOLEAN : JobEnds(r, IF failed THEN {} ELSE {"logs"})

\* The output of a command that prints the logs.
PipeCommandOutputToFile(r) == LogFile(r)
CopyFilesFromDirectory(r) == LogFile(r)
KubernetesLogs(r) == PipeCommandOutputToFile(r)
DockerLogs(r) == PipeCommandOutputToFile(r)

\* GetLogConfiguration: who runs the instance, and the log that its flags name.
LogConfiguration == [root : BOOLEAN, log : {"file", "directory", "none"}]

\* On the host: the journal or the file of a service that root runs, or what
\* the flags name; without either nothing is collected.
HostLogs(r) ==
    \E c \in LogConfiguration, systemd \in BOOLEAN :
       LET source == IF c.root THEN IF systemd THEN "journal" ELSE "file" ELSE c.log IN
       \/ source = "journal" /\ PipeCommandOutputToFile(r)
       \/ source = "directory" /\ CopyFilesFromDirectory(r)
       \/ source = "file" /\ LogFile(r)
       \/ source = "none" /\ JobEnds(r, {}) /\ UNCHANGED tmp

CollectLogs(r) ==
    /\ IsNext(r, "logs")
    /\ KubernetesLogs(r) \/ DockerLogs(r) \/ HostLogs(r)

\* The traces, which are written although some of them failed.
CollectNetwork(r) ==
    /\ IsNext(r, "network") /\ tmp' = [tmp EXCEPT !["network"] = r] /\ JobEnds(r, {"network"})

CollectPrechecks(r) ==
    /\ IsNext(r, "prechecks") /\ tmp' = [tmp EXCEPT !["prechecks"] = r] /\ JobEnds(r, {"prechecks"})

\* createTaskReport: a report that cannot be written is forgotten.
ReportJobs(r) ==
    /\ IsNext(r, "report") /\ tmp' = [tmp EXCEPT !["report"] = r]
    /\ \E failed \in BOOLEAN : JobEnds(r, IF failed THEN {} ELSE {"report"})

\* CreateDiagnosticZipFile reads the files; one that is gone fails it.
ZipFile(r) ==
    /\ diag[r].at = "jobs" /\ diag[r].next > Len(DiagJobs)
    /\ \E complete \in BOOLEAN : (complete => \A j \in diag[r].paths : tmp[j] # "none") /\ diag' = [diag EXCEPT ![r].at = "clean", ![r].zipped = complete]
    /\ UNCHANGED tmp

\* The deferred functions.
RemoveTmp(r) ==
    /\ diag[r].at = "clean"
    /\ \/ \E j \in diag[r].paths : tmp' = [tmp EXCEPT ![j] = "none"] /\ diag' = [diag EXCEPT ![r].paths = @ \ {j}]
       \/ diag[r].paths = {} /\ DiagAt(r, "ended") /\ UNCHANGED tmp

DiagNext == \E r \in DiagRuns : ResolveInstance(r) \/ NoFile(r) \/ CollectEndpoint(r) \/ CollectLogs(r) \/ CollectNetwork(r)
                              \/ CollectPrechecks(r) \/ ReportJobs(r) \/ ZipFile(r) \/ RemoveTmp(r)
-----------------------------------------------------------------------------
\* Whichever jobs fail, and although two runs share the names of the files,
\* nothing that was collected from the instance stays behind in the temporary
\* directory.  The exceptions are logs and a report that could not be written
\* to the end: their file is forgotten.
CollectedIsRemoved ==
    (\A r \in DiagRuns : diag[r].at = "ended") => \A j \in JobSet \ {"logs", "report"} : tmp[j] = "none"
=============================================================================
