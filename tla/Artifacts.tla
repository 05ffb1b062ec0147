----------------------------- MODULE Artifacts -----------------------------
(***************************************************************************)
(* "Download artifacts" of a run (GetPipelineRunArtifacts of               *)
(* internal/handler/pipelines.go, CollectPipelineRunArtifacts of           *)
(* internal/service/pipeline_service.go, internal/util/files.go), over the *)
(* rows of Records.  The list of runs offers it for every run and nothing  *)
(* asks for its status: the run may be queued, or making its files.        *)
(* Nothing but the file system keeps two requests apart: a directory that  *)
(* is there counts as collected, and an archive that is there as complete. *)
(* Requests overlap, fail on the way and are lost when the process goes    *)
(* down; what they left on disk stays.                                     *)
(***************************************************************************)
EXTENDS Records

CONSTANTS Runs,         \* rows of runs, of any status
          Finished,     \* those that had passed before the first request
          RunPipeline,  \* the pipeline of each run
          Files,        \* the files its stages name as artifacts
          Callers,      \* requests in progress
          NoRun, NoFile,
          MayFail,      \* whether agents, disk and process may fail
          MaxRestarts   \* bound: times the process goes down and comes back

ASSUME ArtifactsAssumption ==
    /\ RunPipeline \in [Runs -> Pipelines] /\ Finished \subseteq Runs
    /\ NoRun \notin Runs /\ NoFile \notin Files
    /\ MayFail \in BOOLEAN
    /\ MaxRestarts \in Nat

VARIABLES
    dir,        \* runs whose directory artifacts/<run> is there
    got,        \* the state of each file of the directory
    zip,        \* runs whose archive artifacts/<run>.zip is there
    streams,    \* what archivers wrote into it since it was last truncated
    request,    \* what each caller is doing
    started,    \* runs whose row has a working directory
    remote,     \* the state of each file in that directory, on the agent
    disturbed,  \* history: runs whose collection or archive went wrong, or whose
                \* requests overlapped before the first archive was closed
    there,      \* history: files a run had finished when its collection began
    restarts

disk    == <<dir, got, zip, streams>>
work    == <<started, remote>>
inputs  == <<records, work>>   \* what requests only read
history == <<disturbed, there>>
vars    == <<inputs, disk, request, history, restarts>>

-----------------------------------------------------------------------------
(* at is the statement a request executes next.  agent and credential are  *)
(* ids it has read, files the artifacts not yet downloaded (or the files   *)
(* found to archive), file the one being copied, copied what its archive   *)
(* has; run is NoRun when a connection is tested.                          *)
Idle == [at |-> "idle", run |-> NoRun, agent |-> NoAgent,
         credential |-> NoCredential, files |-> {}, file |-> NoFile,
         copied |-> {}]
Collecting == {"connect", "download", "copy"}
Archiving  == {"walk", "archive"}
Places == {"idle", "readAgent", "readCredential", "checkDir", "mkdir",
           "mkdirQueued", "checkZip", "createZip", "serve"}
          \cup Collecting \cup Archiving
FileStates == {"none", "part", "whole"}

At(c, place) == request[c].at = place
Answer(c) == request' = [request EXCEPT ![c] = Idle]
Continue(c, place) == request' = [request EXCEPT ![c].at = place]

Init ==
    /\ InitRecords
    /\ dir = {} /\ zip = {}
    /\ got = [r \in Runs |-> [f \in Files |-> "none"]]
    /\ streams = [r \in Runs |-> {}]
    /\ request = [c \in Callers |-> Idle]
    /\ started = Finished
    /\ remote = [r \in Runs |-> [f \in Files |-> IF r \in Finished THEN "whole"
                                               ELSE "none"]]
    /\ disturbed = {} /\ there = [r \in Runs |-> {}] /\ restarts = 0

-----------------------------------------------------------------------------
(* The run (RunQueue): its row gets the working directory when it starts,  *)
(* and its steps make files there, in any order, for as long as it runs.   *)

UpdatePipelineRunStartedOn(r) ==
    /\ r \notin started
    /\ started' = started \cup {r}
    /\ UNCHANGED <<records, remote, disk, request, history, restarts>>

MakeFile(r, f) ==
    /\ r \in started
    /\ \/ remote[r][f] = "none" /\ remote' = [remote EXCEPT ![r][f] = "part"]
       \/ remote[r][f] = "part" /\ remote' = [remote EXCEPT ![r][f] = "whole"]
    /\ UNCHANGED <<records, started, disk, request, history, restarts>>

RunGoesOn(r) == UpdatePipelineRunStartedOn(r) \/ \E f \in Files : MakeFile(r, f)

-----------------------------------------------------------------------------
(* The chain of reads: pipeline, agent, credential; the run's row stays    *)
(* when its pipeline goes.  A row that is gone ends the request (GiveUp);  *)
(* an agent without a credential, as the controller's, is dereferenced,    *)
(* and the panic ends it too.                                              *)

GetPipelineRunArtifacts(c, r) ==
    /\ At(c, "idle") /\ RunPipeline[r] \in pipelines
    /\ request' = [request EXCEPT ![c] =
                     [Idle EXCEPT !.at = "readAgent", !.run = r,
                                  !.agent = agentOf[RunPipeline[r]]]]
    /\ disturbed' = IF streams[r] = {} /\ \E d \in Callers : request[d].run = r
                    THEN disturbed \cup {r} ELSE disturbed
    /\ UNCHANGED <<inputs, disk, there, restarts>>

(* The button of the agent's page. *)
TestAgentConnection(c, a) ==
    /\ At(c, "idle") /\ a \in agents
    /\ request' = [request EXCEPT ![c] = [Idle EXCEPT !.at = "readAgent",
                                                      !.agent = a]]
    /\ UNCHANGED <<inputs, disk, history, restarts>>

ReadAgentByID(c) ==
    /\ At(c, "readAgent") /\ request[c].agent \in agents
    /\ credentialOf[request[c].agent] # NoCredential
    /\ request' = [request EXCEPT ![c].at = "readCredential",
                     ![c].credential = credentialOf[request[c].agent]]
    /\ UNCHANGED <<inputs, disk, history, restarts>>

ReadCredentialByID(c) ==
    /\ At(c, "readCredential") /\ request[c].credential \in credentials
    /\ IF request[c].run = NoRun
       THEN Answer(c)
       ELSE request' = [request EXCEPT ![c].at = "checkDir", ![c].agent = NoAgent,
                                       ![c].credential = NoCredential]
    /\ UNCHANGED <<inputs, disk, history, restarts>>

GiveUp(c) ==
    /\ \/ At(c, "readAgent")
          /\ \/ request[c].agent \notin agents
             \/ credentialOf[request[c].agent] = NoCredential
       \/ At(c, "readCredential") /\ request[c].credential \notin credentials
       \/ MayFail /\ request[c].at \in {"readAgent", "readCredential"}
    /\ Answer(c)
    /\ UNCHANGED <<inputs, disk, history, restarts>>

-----------------------------------------------------------------------------
(* CollectPipelineRunArtifacts. *)

(* The row of a queued run has no working directory. *)
Making(c) == IF request[c].run \in started THEN "mkdir" ELSE "mkdirQueued"

(* Mutant: a directory whose files are not all there is collected again. *)
CheckDirAgain(c) ==
    /\ At(c, "checkDir")
    /\ Continue(c, IF request[c].run \notin dir THEN Making(c)
                   ELSE IF \A f \in Files : got[request[c].run][f] = "whole"
                   THEN "checkZip" ELSE "connect")
    /\ UNCHANGED <<inputs, disk, history, restarts>>

(* The run's row, then os.Stat.  A directory that is there is taken for    *)
(* collected, by requests that come while it is being filled too.          *)
CheckDir(c) ==
    /\ At(c, "checkDir")
    /\ Continue(c, IF request[c].run \in dir THEN "checkZip" ELSE Making(c))
    /\ UNCHANGED <<inputs, disk, history, restarts>>

(* Mutant: os.MkdirAll. *)
MkdirAll(c) ==
    /\ At(c, "mkdir")
    /\ dir' = dir \cup {request[c].run}
    /\ Continue(c, "connect")
    /\ UNCHANGED <<inputs, got, zip, streams, history, restarts>>

(* os.Mkdir fails when another request made the directory since. *)
Mkdir(c) ==
    LET r == request[c].run IN
    /\ At(c, "mkdir")
    /\ IF r \in dir
       THEN Answer(c) /\ UNCHANGED <<dir, there>>
       ELSE /\ dir' = dir \cup {r}
            /\ there' = [there EXCEPT ![r] = {f \in Files : remote[r][f] = "whole"}]
            /\ Continue(c, "connect")
    /\ UNCHANGED <<inputs, got, zip, streams, disturbed, restarts>>

(* A queued run: the directory is made before the working directory is     *)
(* dereferenced, and the panic leaves it there, empty.                     *)
MkdirQueued(c) ==
    /\ At(c, "mkdirQueued")
    /\ dir' = dir \cup {request[c].run}
    /\ disturbed' = disturbed \cup {request[c].run}
    /\ Answer(c)
    /\ UNCHANGED <<inputs, got, zip, streams, there, restarts>>

(* SSH, the pipeline script that names the artifacts, and SFTP. *)
Connect(c) ==
    /\ At(c, "connect")
    /\ request' = [request EXCEPT ![c].at = "download", ![c].files = Files]
    /\ UNCHANGED <<inputs, disk, history, restarts>>

(* recursiveDownload: a file that the run has not made is not in its       *)
(* directory when that is listed.                                          *)
SkipFile(c) ==
    /\ At(c, "download")
    /\ \E f \in request[c].files :
          /\ remote[request[c].run][f] = "none"
          /\ request' = [request EXCEPT ![c].files = @ \ {f}]
    /\ UNCHANGED <<inputs, disk, history, restarts>>

(* downloadFile: os.Create, then io.Copy of the file as it is by then. *)
CreateFile(c) ==
    /\ At(c, "download")
    /\ \E f \in request[c].files :
          /\ remote[request[c].run][f] # "none"
          /\ request' = [request EXCEPT ![c].at = "copy", ![c].file = f,
                                        ![c].files = @ \ {f}]
          /\ got' = [got EXCEPT ![request[c].run][f] = "part"]
    /\ UNCHANGED <<inputs, dir, zip, streams, history, restarts>>

CopyFile(c) ==
    /\ At(c, "copy")
    /\ got' = [got EXCEPT ![request[c].run][request[c].file] =
                             remote[request[c].run][request[c].file]]
    /\ request' = [request EXCEPT ![c].at = "download", ![c].file = NoFile]
    /\ UNCHANGED <<inputs, dir, zip, streams, history, restarts>>

Collected(c) ==
    /\ At(c, "download") /\ request[c].files = {}
    /\ Continue(c, "checkZip")
    /\ UNCHANGED <<inputs, disk, history, restarts>>

(* Mutant: the directory is removed, for the next request to try again. *)
CleanUp(c) ==
    /\ MayFail /\ request[c].at \in Collecting
    /\ dir' = dir \ {request[c].run}
    /\ got' = [got EXCEPT ![request[c].run] = [f \in Files |-> "none"]]
    /\ disturbed' = disturbed \cup {request[c].run}
    /\ Answer(c)
    /\ UNCHANGED <<inputs, zip, streams, there, restarts>>

(* An error while collecting, or a stage's directory that the run has not  *)
(* made: what is there so far stays.                                       *)
FailCollecting(c) ==
    /\ \/ MayFail /\ request[c].at \in Collecting
       \/ /\ At(c, "download")
          /\ \E f \in request[c].files : remote[request[c].run][f] = "none"
    /\ disturbed' = disturbed \cup {request[c].run}
    /\ Answer(c)
    /\ UNCHANGED <<inputs, disk, there, restarts>>

-----------------------------------------------------------------------------
(* The handler, and ArchiveDirectory: the archive is made at its final     *)
(* name, by every request that saw none.                                   *)

(* Mutant: every request makes the archive. *)
ArchiveAgain(c) ==
    /\ At(c, "checkZip")
    /\ Continue(c, "createZip")
    /\ UNCHANGED <<inputs, disk, history, restarts>>

CheckZip(c) ==
    /\ At(c, "checkZip")
    /\ Continue(c, IF request[c].run \in zip THEN "serve" ELSE "createZip")
    /\ UNCHANGED <<inputs, disk, history, restarts>>

(* os.Create truncates an archive that is there by now. *)
CreateZip(c) ==
    /\ At(c, "createZip")
    /\ zip' = zip \cup {request[c].run}
    /\ streams' = [streams EXCEPT ![request[c].run] = {}]
    /\ Continue(c, "walk")
    /\ UNCHANGED <<inputs, dir, got, history, restarts>>

WalkDir(c) ==
    /\ At(c, "walk")
    /\ request' = [request EXCEPT ![c].at = "archive", ![c].files =
                     {f \in Files : got[request[c].run][f] # "none"}]
    /\ UNCHANGED <<inputs, disk, history, restarts>>

(* copyToArchive takes the file as it is now. *)
CopyToArchive(c) ==
    /\ At(c, "archive")
    /\ \E f \in request[c].files :
          request' = [request EXCEPT ![c].files = @ \ {f},
                        ![c].copied = IF got[request[c].run][f] = "whole"
                                      THEN @ \cup {f} ELSE @]
    /\ UNCHANGED <<inputs, disk, history, restarts>>

(* The archive is complete for this archiver. *)
CloseZip(c) ==
    /\ At(c, "archive") /\ request[c].files = {}
    /\ streams' = [streams EXCEPT ![request[c].run] = @ \cup {request[c].copied}]
    /\ Continue(c, "serve")
    /\ UNCHANGED <<inputs, dir, got, zip, history, restarts>>

(* An error while archiving: the file stays, without its directory. *)
FailArchiving(c) ==
    /\ MayFail /\ request[c].at \in Archiving
    /\ streams' = [streams EXCEPT ![request[c].run] = @ \cup {{}}]
    /\ disturbed' = disturbed \cup {request[c].run}
    /\ Answer(c)
    /\ UNCHANGED <<inputs, dir, got, zip, there, restarts>>

ServeFile(c) ==
    /\ At(c, "serve")
    /\ Answer(c)
    /\ UNCHANGED <<inputs, disk, history, restarts>>

-----------------------------------------------------------------------------
(* The process goes down: requests are lost, an archive that was being     *)
(* written stays, and main makes the controller's agent again.             *)
Restart ==
    /\ MayFail /\ restarts < MaxRestarts
    /\ restarts' = restarts + 1
    /\ disturbed' = disturbed \cup {request[c].run : c \in
                       {d \in Callers : request[d].at \in Collecting \cup Archiving}}
    /\ streams' = [r \in Runs |->
                     IF \E c \in Callers : request[c].run = r
                                           /\ request[c].at \in Archiving
                     THEN streams[r] \cup {{}} ELSE streams[r]]
    /\ request' = [c \in Callers |-> Idle]
    /\ CreateControllerAgent
    /\ UNCHANGED <<work, dir, got, zip, there>>

RecordForms == ChangeRecords /\ UNCHANGED <<work, disk, request, history, restarts>>

Reads(c) == \/ \E r \in Runs : GetPipelineRunArtifacts(c, r)
            \/ \E a \in Agents : TestAgentConnection(c, a)
            \/ ReadAgentByID(c) \/ ReadCredentialByID(c) \/ GiveUp(c)
Collects(c) == \/ CheckDir(c) \/ Mkdir(c) \/ MkdirQueued(c) \/ Connect(c)
               \/ SkipFile(c) \/ CreateFile(c) \/ CopyFile(c) \/ Collected(c)
               \/ FailCollecting(c)
Archives(c) == \/ CheckZip(c) \/ CreateZip(c) \/ WalkDir(c) \/ CopyToArchive(c)
               \/ CloseZip(c) \/ FailArchiving(c) \/ ServeFile(c)

Next == \/ RecordForms \/ Restart \/ \E r \in Runs : RunGoesOn(r)
        \/ \E c \in Callers : Reads(c) \/ Collects(c) \/ Archives(c)

Spec == Init /\ [][Next]_vars

-----------------------------------------------------------------------------
TypeOK ==
    /\ RecordsTypeOK
    /\ dir \subseteq Runs /\ zip \subseteq dir
    /\ got \in [Runs -> [Files -> FileStates]]
    /\ remote \in [Runs -> [Files -> FileStates]] /\ started \subseteq Runs
    /\ streams \in [Runs -> SUBSET SUBSET Files]
    /\ request \in [Callers -> [at : Places, run : Runs \cup {NoRun},
                                agent : Agents \cup {NoAgent},
                                credential : Credentials \cup {NoCredential},
                                files : SUBSET Files,
                                file : Files \cup {NoFile},
                                copied : SUBSET Files]]
    /\ disturbed \subseteq Runs /\ there \in [Runs -> SUBSET Files]
    /\ restarts \in 0 .. MaxRestarts

(* What a request read along the chain is there when it looks for it, as   *)
(* long as the row it read it from still says so: only a change of the     *)
(* pipeline or of the agent in between can make a download or a connection *)
(* test fail for a missing row.                                            *)
ChainHolds ==
    /\ ReferencesHold
    /\ \A c \in Callers :
          /\ /\ request[c].run # NoRun /\ At(c, "readAgent")
             /\ RunPipeline[request[c].run] \in pipelines
             => \/ request[c].agent \in agents
                \/ agentOf[RunPipeline[request[c].run]] # request[c].agent
          /\ At(c, "readCredential") /\ request[c].agent \in agents
             => \/ request[c].credential \in credentials
                \/ credentialOf[request[c].agent] # request[c].credential

(* The directory is the lock of the collection: however requests overlap,  *)
(* fail and restart, two never download into the same directory.           *)
OneCollectorPerRun ==
    \A c, d \in Callers :
        /\ request[c].run = request[d].run
        /\ request[c].at \in Collecting /\ request[d].at \in Collecting
        => c = d

Filling(r) == \E c \in Callers : request[c].run = r
                                  /\ request[c].at \in Collecting

Holds(r, files) ==
    /\ \E S \in SUBSET Files : streams[r] = {S} /\ files \subseteq S
    /\ \A c \in Callers : request[c].run = r => request[c].at \notin Archiving

(* A download has every file that its run had finished when the first one  *)
(* began to collect, unless requests overlapped before the archive was     *)
(* closed, or the collection or the archive failed or was lost.  Once it   *)
(* is closed no overlap, failure or restart spoils it, but nothing that    *)
(* the run makes later gets into it either.                                *)
DownloadHasWhatWasThere ==
    \A c \in Callers :
        At(c, "serve") /\ request[c].run \notin disturbed
        => Holds(request[c].run, there[request[c].run])

(* A directory is filled once: when its collector has failed or is lost,   *)
(* no later request takes the collection up again, so that files that are  *)
(* missing or cut short stay so (PathExists, Mkdir).                       *)
CollectedOnce ==
    [][\A r \in dir : ~Filling(r) => ~Filling(r)']_vars

-----------------------------------------------------------------------------
(* What the documentation says and the code does not do. *)

(* src/readme.md:26, "Artifact Storage: Download build artifacts directly  *)
(* from the UI.": a download of a run that had passed before anyone asked  *)
(* for one has the artifacts of the run.                                   *)
DownloadIsWhole ==
    \A c \in Callers :
        At(c, "serve") /\ request[c].run \in Finished => Holds(request[c].run, Files)
=============================================================================
