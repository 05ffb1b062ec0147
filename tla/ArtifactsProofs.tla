-------------------------- MODULE ArtifactsProofs --------------------------
(***************************************************************************)
(* The rows keep their references, a directory is filled by one request    *)
(* and once, and a download that nothing disturbed has every file that its *)
(* run had finished when the collection began, for any numbers of rows,    *)
(* runs, files and overlapping requests.                                   *)
(***************************************************************************)
EXTENDS Artifacts, TLAPS

(* What a request is about, by the statement it is at: only one that reads *)
(* rows may have no run, the directory is there once it collects, and the  *)
(* archive once it is written or served.                                   *)
RequestInv ==
    \A c \in Callers :
        /\ At(c, "idle") => request[c] = Idle
        /\ At(c, "readCredential") => request[c].credential # NoCredential
        /\ At(c, "copy") => request[c].file \in Files
        /\ request[c].at \notin {"idle", "readAgent", "readCredential"} =>
               request[c].run \in Runs
        /\ request[c].at \in Collecting \cup Archiving
                             \cup {"checkZip", "createZip", "serve"} =>
               request[c].run \in dir
        /\ request[c].at \in Archiving \cup {"serve"} => request[c].run \in zip

(* Requests of a run whose download nothing disturbed: one at a time until *)
(* its archive is closed, and after that any number, which find directory  *)
(* and archive there.                                                      *)
AloneInv ==
    \A r \in Runs \ disturbed : streams[r] = {} =>
        \A c, d \in Callers : request[c].run = r /\ request[d].run = r => c = d

Finding == {"readAgent", "readCredential", "checkDir", "checkZip", "serve"}

FoundInv ==
    \A r \in Runs \ disturbed : streams[r] # {} =>
        /\ r \in zip
        /\ \A c \in Callers : request[c].run = r => request[c].at \in Finding

(* What a run had finished when its collection began stays finished.       *)
ThereInv == \A r \in Runs : \A f \in there[r] : remote[r][f] = "whole"

(* The file a collector copies is one of its run's; of what the run had    *)
(* finished, every other one it has taken off its list is whole.           *)
Pending(c) == {f \in Files : \/ At(c, "connect")
                             \/ f \in request[c].files
                             \/ At(c, "copy") /\ f = request[c].file}

FilledInv ==
    \A r \in dir \ disturbed :
        /\ ~Filling(r) => \A f \in there[r] : got[r][f] = "whole"
        /\ \A c \in Callers :
               request[c].run = r /\ request[c].at \in Collecting =>
                   \A f \in there[r] \ Pending(c) : got[r][f] = "whole"

(* The archive of such a run was written from the start to the end by one  *)
(* archiver, which has or will copy every such file.                       *)
Writing(r) == \E c \in Callers : request[c].run = r /\ request[c].at \in Archiving

WholeAt(r) ==
    /\ ~Writing(r) => \E S \in SUBSET Files : streams[r] = {S} /\ there[r] \subseteq S
    /\ \A c \in Callers :
           /\ request[c].run = r /\ request[c].at \in Archiving =>
                  streams[r] = {}
           /\ request[c].run = r /\ At(c, "archive") =>
                  there[r] \subseteq request[c].files \cup request[c].copied

WholeInv == \A r \in zip \ disturbed : WholeAt(r)

-----------------------------------------------------------------------------
(* The forms keep the rows typed and every reference with its row: an id   *)
(* that is in use is not fresh, and a row that is referred to stays.       *)
RecordsInv == RecordsTypeOK /\ ReferencesHold

LEMMA FormsKeepReferences ==
  ASSUME RecordsInv, ChangeRecords
  PROVE  RecordsInv'
<1> USE RecordsAssumption
    DEF RecordsInv, RecordsTypeOK, ReferencesHold, agentRows, pipelineRows
<1>1. ASSUME NEW c \in Credentials, CreateCredential(c) PROVE RecordsInv'
  BY <1>1 DEF CreateCredential
<1>2. ASSUME NEW c \in Credentials, DeleteCredential(c) PROVE RecordsInv'
  BY <1>2 DEF DeleteCredential, InUse
<1>3. ASSUME NEW a \in Agents, DeleteAgent(a) PROVE RecordsInv'
  BY <1>3 DEF DeleteAgent
<1>4. ASSUME NEW a \in Agents, NEW c \in Credentials, CreateAgent(a, c)
      PROVE  RecordsInv'
  BY <1>4 DEF CreateAgent, InsertAgent, Rename
<1>5. ASSUME NEW a \in Agents, NEW c \in Credentials, UpdateAgent(a, c)
      PROVE  RecordsInv'
  BY <1>5 DEF UpdateAgent, Rename
<1>6. ASSUME NEW p \in Pipelines, DeletePipeline(p) PROVE RecordsInv'
  BY <1>6 DEF DeletePipeline
<1>7. ASSUME NEW p \in Pipelines, NEW a \in Agents, CreatePipeline(p, a)
      PROVE  RecordsInv'
  BY <1>7 DEF CreatePipeline
<1>8. ASSUME NEW p \in Pipelines, NEW a \in Agents, UpdatePipeline(p, a)
      PROVE  RecordsInv'
  BY <1>8 DEF UpdatePipeline
<1> QED
  BY <1>1, <1>2, <1>3, <1>4, <1>5, <1>6, <1>7, <1>8 DEF ChangeRecords

(* So do the start of main and a step that leaves the rows alone. *)
LEMMA StartKeepsReferences ==
  ASSUME RecordsInv, CreateControllerAgent \/ UNCHANGED records
  PROVE  RecordsInv'
<1> USE RecordsAssumption
    DEF RecordsInv, RecordsTypeOK, ReferencesHold, records, agentRows, pipelineRows
<1>1. CASE UNCHANGED records
  BY <1>1
<1>2. ASSUME NEW a \in Agents, InsertAgent(a, NoCredential), localhost' = {a}
      PROVE  RecordsInv'
  BY <1>2 DEF InsertAgent
<1> QED BY <1>1, <1>2 DEF CreateControllerAgent

(* No step loses a reference. *)
LEMMA StepReferences ==
  ASSUME RecordsInv, [Next]_vars
  PROVE  RecordsInv'
<1>1. CASE RecordForms
  BY <1>1, FormsKeepReferences DEF RecordForms
<1>2. CASE Restart
  BY <1>2, StartKeepsReferences DEF Restart
<1>3. ASSUME NEW r \in Runs, RunGoesOn(r)
      PROVE  UNCHANGED records
  BY <1>3 DEF RunGoesOn, UpdatePipelineRunStartedOn, MakeFile
<1>4. ASSUME NEW c \in Callers, Reads(c) \/ Collects(c) \/ Archives(c)
      PROVE  UNCHANGED records
  BY <1>4
  DEF Reads, Collects, Archives, GetPipelineRunArtifacts, TestAgentConnection,
      ReadAgentByID, ReadCredentialByID, GiveUp, CheckDir, Mkdir, MkdirQueued,
      Connect, SkipFile, CreateFile, CopyFile, Collected, FailCollecting,
      CheckZip, CreateZip, WalkDir, CopyToArchive, CloseZip, FailArchiving,
      ServeFile, inputs
<1> QED
  BY <1>1, <1>2, <1>3, <1>4, StartKeepsReferences DEF Next, vars, inputs

(* Types of what is on disk and of the requests. *)
RequestRecord == [at : Places, run : Runs \cup {NoRun}, agent : Agents \cup {NoAgent},
                  credential : Credentials \cup {NoCredential},
                  files : SUBSET Files, file : Files \cup {NoFile},
                  copied : SUBSET Files]

DiskTypeOK ==
    /\ dir \subseteq Runs /\ zip \subseteq dir
    /\ got \in [Runs -> [Files -> FileStates]]
    /\ remote \in [Runs -> [Files -> FileStates]] /\ started \subseteq Runs
    /\ streams \in [Runs -> SUBSET SUBSET Files]
    /\ request \in [Callers -> RequestRecord]
    /\ disturbed \subseteq Runs /\ there \in [Runs -> SUBSET Files]
    /\ restarts \in 0 .. MaxRestarts

-----------------------------------------------------------------------------
(* What a step of a caller does to its request, field by field, and that   *)
(* it leaves the others alone: the proofs below use this in place of the   *)
(* updates of the record.                                                  *)
Becomes(c, at, credential, files, file, copied) ==
    /\ request' \in [Callers -> RequestRecord]
    /\ \A d \in Callers \ {c} : request'[d] = request[d]
    /\ request'[c].at = at /\ request'[c].run = request[c].run
    /\ request'[c].credential = credential /\ request'[c].files = files
    /\ request'[c].file = file /\ request'[c].copied = copied

MovesTo(c, place) ==
    Becomes(c, place, request[c].credential, request[c].files, request[c].file,
            request[c].copied)

Answered(c) ==
    /\ request' \in [Callers -> RequestRecord]
    /\ \A d \in Callers \ {c} : request'[d] = request[d]
    /\ request'[c] = Idle

Asks(c, run, agent) ==
    /\ request' \in [Callers -> RequestRecord]
    /\ \A d \in Callers \ {c} : request'[d] = request[d]
    /\ request'[c].at = "readAgent" /\ request'[c].run = run
    /\ request'[c].agent = agent

(* An idle request is typed. *)
LEMMA IdleTyped ==
  Idle \in RequestRecord
BY DEF Idle, RequestRecord, Places

(* It is about no run. *)
LEMMA IdleIs ==
  Idle.at = "idle" /\ Idle.run = NoRun
BY DEF Idle

(* An answer ends the request of its caller. *)
LEMMA AnswerMeans ==
  ASSUME request \in [Callers -> RequestRecord], NEW c \in Callers, Answer(c)
  PROVE  Answered(c)
BY IdleTyped DEF Answer, Answered

(* Going on to another statement changes nothing else. *)
LEMMA ContinueMeans ==
  ASSUME request \in [Callers -> RequestRecord], NEW c \in Callers,
         NEW place \in Places, Continue(c, place)
  PROVE  MovesTo(c, place)
<1> DEFINE rec == [request[c] EXCEPT !.at = place]
<1>1. request[c] \in RequestRecord
  OBVIOUS
<1>2. rec \in RequestRecord
  BY <1>1 DEF RequestRecord
<1>3. request' = [request EXCEPT ![c] = rec]
  BY DEF Continue
<1>4. request'[c] = rec /\ request' \in [Callers -> RequestRecord]
      /\ \A d \in Callers \ {c} : request'[d] = request[d]
  BY <1>2, <1>3
<1>5. /\ rec.at = place /\ rec.run = request[c].run
      /\ rec.credential = request[c].credential
      /\ rec.files = request[c].files /\ rec.file = request[c].file
      /\ rec.copied = request[c].copied
  BY <1>1 DEF RequestRecord
<1> QED
  BY <1>4, <1>5 DEF MovesTo, Becomes

(* An agent's credential is read off its row. *)
LEMMA ReadsAgent ==
  ASSUME request \in [Callers -> RequestRecord], RecordsTypeOK,
         NEW c \in Callers, ReadAgentByID(c)
  PROVE  Becomes(c, "readCredential", credentialOf[request[c].agent], request[c].files,
                 request[c].file, request[c].copied)
<1> DEFINE rec == [request[c] EXCEPT !.at = "readCredential",
                                 !.credential = credentialOf[request[c].agent]]
<1>1. request[c] \in RequestRecord
  OBVIOUS
<1>2. rec \in RequestRecord
  BY <1>1 DEF RequestRecord, Places, RecordsTypeOK, At, ReadAgentByID
<1>3. request' = [request EXCEPT ![c] = rec]
  BY DEF ReadAgentByID
<1>4. request'[c] = rec /\ request' \in [Callers -> RequestRecord]
      /\ \A d \in Callers \ {c} : request'[d] = request[d]
  BY <1>2, <1>3
<1> QED
  BY <1>1, <1>4 DEF Becomes, RequestRecord

(* A request that has a connection goes on with its run. *)
LEMMA ReadsCredential ==
  ASSUME request \in [Callers -> RequestRecord], NEW c \in Callers,
         ReadCredentialByID(c), request[c].run # NoRun
  PROVE  Becomes(c, "checkDir", NoCredential, request[c].files, request[c].file,
                 request[c].copied)
<1> DEFINE rec == [request[c] EXCEPT !.at = "checkDir", !.agent = NoAgent,
                                 !.credential = NoCredential]
<1>1. request[c] \in RequestRecord
  OBVIOUS
<1>2. rec \in RequestRecord
  BY <1>1 DEF RequestRecord, Places
<1>3. request' = [request EXCEPT ![c] = rec]
  BY DEF ReadCredentialByID
<1>4. request'[c] = rec /\ request' \in [Callers -> RequestRecord]
      /\ \A d \in Callers \ {c} : request'[d] = request[d]
  BY <1>2, <1>3
<1> QED
  BY <1>1, <1>4 DEF Becomes, RequestRecord

(* A connected collector has every file to download. *)
LEMMA Connects ==
  ASSUME request \in [Callers -> RequestRecord], NEW c \in Callers, Connect(c)
  PROVE  Becomes(c, "download", request[c].credential, Files, request[c].file,
                 request[c].copied)
<1> DEFINE rec == [request[c] EXCEPT !.at = "download", !.files = Files]
<1>1. request[c] \in RequestRecord
  OBVIOUS
<1>2. rec \in RequestRecord
  BY <1>1 DEF RequestRecord, Places, Collecting, Archiving
<1>3. request' = [request EXCEPT ![c] = rec]
  BY DEF Connect
<1>4. request'[c] = rec /\ request' \in [Callers -> RequestRecord]
      /\ \A d \in Callers \ {c} : request'[d] = request[d]
  BY <1>2, <1>3
<1> QED
  BY <1>1, <1>4 DEF Becomes, RequestRecord

(* A collector takes a file that is not there off its list. *)
LEMMA Skips ==
  ASSUME request \in [Callers -> RequestRecord], NEW c \in Callers, SkipFile(c)
  PROVE  \E f \in request[c].files :
            /\ remote[request[c].run][f] = "none"
            /\ Becomes(c, "download", request[c].credential, request[c].files \ {f},
                       request[c].file, request[c].copied)
<1>1. PICK f \in request[c].files :
         /\ remote[request[c].run][f] = "none"
         /\ request' = [request EXCEPT ![c].files = @ \ {f}]
  BY DEF SkipFile
<1> DEFINE rec == [request[c] EXCEPT !.files = @ \ {f}]
<1>2. request[c] \in RequestRecord /\ request[c].at = "download"
  BY DEF SkipFile, At
<1>3. rec \in RequestRecord
  BY <1>2 DEF RequestRecord
<1>4. request' = [request EXCEPT ![c] = rec]
  BY <1>1
<1>5. request'[c] = rec /\ request' \in [Callers -> RequestRecord]
      /\ \A d \in Callers \ {c} : request'[d] = request[d]
  BY <1>3, <1>4
<1>6. Becomes(c, "download", request[c].credential, request[c].files \ {f},
              request[c].file, request[c].copied)
  BY <1>2, <1>5 DEF Becomes, RequestRecord
<1> QED BY <1>1, <1>6

(* An archiver lists the files that are there. *)
LEMMA Walks ==
  ASSUME request \in [Callers -> RequestRecord], NEW c \in Callers, WalkDir(c)
  PROVE  Becomes(c, "archive", request[c].credential,
                 {f \in Files : got[request[c].run][f] # "none"}, request[c].file,
                 request[c].copied)
<1> DEFINE rec == [request[c] EXCEPT !.at = "archive",
                     !.files = {f \in Files : got[request[c].run][f] # "none"}]
<1>1. request[c] \in RequestRecord
  OBVIOUS
<1>2. rec \in RequestRecord
  BY <1>1 DEF RequestRecord, Places, Collecting, Archiving
<1>3. request' = [request EXCEPT ![c] = rec]
  BY DEF WalkDir
<1>4. request'[c] = rec /\ request' \in [Callers -> RequestRecord]
      /\ \A d \in Callers \ {c} : request'[d] = request[d]
  BY <1>2, <1>3
<1> QED
  BY <1>1, <1>4 DEF Becomes, RequestRecord

(* A copied file is off the request. *)
LEMMA Copies ==
  ASSUME request \in [Callers -> RequestRecord], NEW c \in Callers, CopyFile(c)
  PROVE  Becomes(c, "download", request[c].credential, request[c].files, NoFile,
                 request[c].copied)
<1> DEFINE rec == [request[c] EXCEPT !.at = "download", !.file = NoFile]
<1>1. request[c] \in RequestRecord
  OBVIOUS
<1>2. rec \in RequestRecord
  BY <1>1 DEF RequestRecord, Places, Collecting, Archiving
<1>3. request' = [request EXCEPT ![c] = rec]
  BY DEF CopyFile
<1>4. request'[c] = rec /\ request' \in [Callers -> RequestRecord]
      /\ \A d \in Callers \ {c} : request'[d] = request[d]
  BY <1>2, <1>3
<1> QED
  BY <1>1, <1>4 DEF Becomes, RequestRecord

(* A collector takes a file off its list and makes it. *)
LEMMA Creates ==
  ASSUME request \in [Callers -> RequestRecord], NEW c \in Callers, CreateFile(c)
  PROVE  \E f \in request[c].files :
            /\ Becomes(c, "copy", request[c].credential, request[c].files \ {f}, f,
                       request[c].copied)
            /\ got' = [got EXCEPT ![request[c].run][f] = "part"]
<1>1. PICK f \in request[c].files :
         /\ request' = [request EXCEPT ![c].at = "copy", ![c].file = f,
                                       ![c].files = @ \ {f}]
         /\ got' = [got EXCEPT ![request[c].run][f] = "part"]
  BY DEF CreateFile
<1> DEFINE rec == [request[c] EXCEPT !.at = "copy", !.file = f, !.files = @ \ {f}]
<1>2. request[c] \in RequestRecord
  OBVIOUS
<1>3. rec \in RequestRecord
  BY <1>2 DEF RequestRecord, Places, Collecting
<1>4. request' = [request EXCEPT ![c] = rec]
  BY <1>1
<1>5. request'[c] = rec /\ request' \in [Callers -> RequestRecord]
      /\ \A d \in Callers \ {c} : request'[d] = request[d]
  BY <1>3, <1>4
<1>6. Becomes(c, "copy", request[c].credential, request[c].files \ {f}, f,
              request[c].copied)
  BY <1>2, <1>5 DEF Becomes, RequestRecord
<1> QED BY <1>1, <1>6

(* An archiver takes a file off its list; it has it if it was whole. *)
LEMMA CopiesToArchive ==
  ASSUME request \in [Callers -> RequestRecord], NEW c \in Callers, CopyToArchive(c)
  PROVE  \E f \in request[c].files :
            Becomes(c, "archive", request[c].credential, request[c].files \ {f},
                    request[c].file,
                    IF got[request[c].run][f] = "whole"
                    THEN request[c].copied \cup {f} ELSE request[c].copied)
<1>1. PICK f \in request[c].files :
         request' = [request EXCEPT ![c].files = @ \ {f},
                        ![c].copied = IF got[request[c].run][f] = "whole"
                                      THEN @ \cup {f} ELSE @]
  BY DEF CopyToArchive
<1> DEFINE rec == [request[c] EXCEPT !.files = @ \ {f},
                        !.copied = IF got[request[c].run][f] = "whole"
                                   THEN @ \cup {f} ELSE @]
<1>2. request[c] \in RequestRecord /\ request[c].at = "archive"
  BY DEF CopyToArchive, At
<1>3. rec \in RequestRecord
  BY <1>2 DEF RequestRecord
<1>4. request' = [request EXCEPT ![c] = rec]
  BY <1>1
<1>5. request'[c] = rec /\ request' \in [Callers -> RequestRecord]
      /\ \A d \in Callers \ {c} : request'[d] = request[d]
  BY <1>3, <1>4
<1>6. Becomes(c, "archive", request[c].credential, request[c].files \ {f},
              request[c].file,
              IF got[request[c].run][f] = "whole"
              THEN request[c].copied \cup {f} ELSE request[c].copied)
  BY <1>2, <1>5 DEF Becomes, RequestRecord
<1> QED BY <1>6

(* A new request is one of its caller, about the run and the agent. *)
LEMMA AsksForRun ==
  ASSUME RecordsTypeOK, request \in [Callers -> RequestRecord], NEW c \in Callers,
         NEW r \in Runs, GetPipelineRunArtifacts(c, r)
  PROVE  Asks(c, r, agentOf[RunPipeline[r]])
<1> DEFINE rec == [Idle EXCEPT !.at = "readAgent", !.run = r,
                               !.agent = agentOf[RunPipeline[r]]]
<1>1. agentOf[RunPipeline[r]] \in Agents \cup {NoAgent}
  BY ArtifactsAssumption DEF RecordsTypeOK
<1>2. rec \in RequestRecord /\ rec.at = "readAgent" /\ rec.run = r
      /\ rec.agent = agentOf[RunPipeline[r]]
  BY <1>1 DEF RequestRecord, Places, Idle
<1>3. request' = [request EXCEPT ![c] = rec]
  BY DEF GetPipelineRunArtifacts
<1> QED
  BY <1>2, <1>3 DEF Asks

(* So is a test of a connection, which has no run. *)
LEMMA AsksForTest ==
  ASSUME request \in [Callers -> RequestRecord], NEW c \in Callers,
         NEW a \in Agents, TestAgentConnection(c, a)
  PROVE  Asks(c, NoRun, a)
<1> DEFINE rec == [Idle EXCEPT !.at = "readAgent", !.agent = a]
<1>2. rec \in RequestRecord /\ rec.at = "readAgent" /\ rec.run = NoRun
      /\ rec.agent = a
  BY DEF RequestRecord, Places, Idle
<1>3. request' = [request EXCEPT ![c] = rec]
  BY DEF TestAgentConnection
<1> QED
  BY <1>2, <1>3 DEF Asks

(* Every step keeps disk and requests typed. *)
LEMMA StepTyped ==
  ASSUME RecordsInv, DiskTypeOK, RequestInv, [Next]_vars
  PROVE  DiskTypeOK'
<1> USE ArtifactsAssumption
    DEF DiskTypeOK, RequestInv, RecordsInv, At, Places, Collecting, Archiving,
        inputs, work, disk, history
<1>1. CASE RecordForms
  BY <1>1 DEF RecordForms
<1>2. CASE Restart
  BY <1>2, IdleTyped DEF Restart
<1>3. ASSUME NEW c \in Callers, NEW r \in Runs, GetPipelineRunArtifacts(c, r)
      PROVE  DiskTypeOK'
  <2>1. request' \in [Callers -> RequestRecord]
    BY <1>3, AsksForRun DEF Asks
  <2>2. UNCHANGED <<dir, got, zip, streams, there, work, restarts>>
        /\ disturbed' \subseteq Runs
    BY <1>3 DEF GetPipelineRunArtifacts, disk
  <2> QED BY <2>1, <2>2
<1>4. ASSUME NEW c \in Callers, NEW a \in Agents, TestAgentConnection(c, a)
      PROVE  DiskTypeOK'
  BY <1>4, AsksForTest DEF TestAgentConnection, disk, Asks
<1>5. ASSUME NEW c \in Callers, ReadAgentByID(c) PROVE DiskTypeOK'
  BY <1>5, ReadsAgent DEF ReadAgentByID, disk, Becomes
<1>6. ASSUME NEW c \in Callers, ReadCredentialByID(c) PROVE DiskTypeOK'
  BY <1>6, ReadsCredential, AnswerMeans DEF ReadCredentialByID, Answered, Becomes
<1>7. ASSUME NEW c \in Callers, GiveUp(c) PROVE DiskTypeOK'
  BY <1>7, AnswerMeans DEF GiveUp, disk, Answered
<1>8. ASSUME NEW c \in Callers, CheckDir(c) PROVE DiskTypeOK'
  BY <1>8, ContinueMeans DEF CheckDir, Making, MovesTo, Becomes
<1>9. ASSUME NEW c \in Callers, Mkdir(c) PROVE DiskTypeOK'
  BY <1>9, ContinueMeans, AnswerMeans DEF Mkdir, Answered, MovesTo, Becomes
<1>10. ASSUME NEW c \in Callers, Connect(c) PROVE DiskTypeOK'
  BY <1>10, Connects DEF Connect, disk, Becomes
<1>11. ASSUME NEW c \in Callers, CreateFile(c) PROVE DiskTypeOK'
  <2>1. PICK f \in request[c].files :
           /\ request' \in [Callers -> RequestRecord]
           /\ got' = [got EXCEPT ![request[c].run][f] = "part"]
    BY <1>11, Creates DEF Becomes
  <2>2. f \in Files /\ request[c].run \in Runs
    BY <1>11 DEF CreateFile, RequestRecord
  <2>3. got' \in [Runs -> [Files -> FileStates]]
    BY <2>1, <2>2 DEF FileStates
  <2> QED
    BY <1>11, <2>1, <2>3 DEF CreateFile
<1>12. ASSUME NEW c \in Callers, CopyFile(c) PROVE DiskTypeOK'
  <2>1. request' \in [Callers -> RequestRecord]
    BY <1>12, Copies DEF Becomes
  <2>2. request[c].file \in Files /\ request[c].run \in Runs
    BY <1>12 DEF CopyFile
  <2>3. got' \in [Runs -> [Files -> FileStates]]
    BY <1>12, <2>2 DEF CopyFile
  <2> QED
    BY <1>12, <2>1, <2>3 DEF CopyFile
<1>13. ASSUME NEW c \in Callers, Collected(c) PROVE DiskTypeOK'
  BY <1>13, ContinueMeans DEF Collected, disk, MovesTo, Becomes
<1>14. ASSUME NEW c \in Callers, FailCollecting(c) PROVE DiskTypeOK'
  BY <1>14, AnswerMeans DEF FailCollecting, disk, Answered
<1>15. ASSUME NEW c \in Callers, CheckZip(c) PROVE DiskTypeOK'
  BY <1>15, ContinueMeans DEF CheckZip, disk, MovesTo, Becomes
<1>16. ASSUME NEW c \in Callers, CreateZip(c) PROVE DiskTypeOK'
  BY <1>16, ContinueMeans DEF CreateZip, MovesTo, Becomes
<1>17. ASSUME NEW c \in Callers, WalkDir(c) PROVE DiskTypeOK'
  BY <1>17, Walks DEF WalkDir, disk, Becomes
<1>18. ASSUME NEW c \in Callers, CopyToArchive(c) PROVE DiskTypeOK'
  BY <1>18, CopiesToArchive DEF CopyToArchive, disk, Becomes
<1>19. ASSUME NEW c \in Callers, CloseZip(c) PROVE DiskTypeOK'
  <2>1. request[c].run \in Runs /\ request[c].copied \in SUBSET Files
    BY <1>19 DEF CloseZip, RequestRecord
  <2>2. streams' \in [Runs -> SUBSET SUBSET Files]
    BY <1>19, <2>1 DEF CloseZip
  <2> QED
    BY <1>19, <2>2, ContinueMeans DEF CloseZip, MovesTo, Becomes
<1>20. ASSUME NEW c \in Callers, FailArchiving(c) PROVE DiskTypeOK'
  BY <1>20, AnswerMeans DEF FailArchiving, Answered
<1>21. ASSUME NEW c \in Callers, ServeFile(c) PROVE DiskTypeOK'
  BY <1>21, AnswerMeans DEF ServeFile, disk, Answered
<1>22. ASSUME NEW c \in Callers, MkdirQueued(c) PROVE DiskTypeOK'
  BY <1>22, AnswerMeans DEF MkdirQueued, Answered
<1>23. ASSUME NEW c \in Callers, SkipFile(c) PROVE DiskTypeOK'
  BY <1>23, Skips DEF SkipFile, Becomes
<1>24. ASSUME NEW r \in Runs, UpdatePipelineRunStartedOn(r) PROVE DiskTypeOK'
  BY <1>24 DEF UpdatePipelineRunStartedOn
<1>25. ASSUME NEW r \in Runs, NEW f \in Files, MakeFile(r, f) PROVE DiskTypeOK'
  <2>1. PICK state \in FileStates : remote' = [remote EXCEPT ![r][f] = state]
    BY <1>25 DEF MakeFile, FileStates
  <2>2. remote' \in [Runs -> [Files -> FileStates]]
    BY <2>1
  <2> QED BY <1>25, <2>2 DEF MakeFile
<1>26. CASE UNCHANGED vars
  BY <1>26 DEF vars
<1> QED
  BY <1>1, <1>2, <1>3, <1>4, <1>5, <1>6, <1>7, <1>8, <1>9, <1>10, <1>11,
     <1>12, <1>13, <1>14, <1>15, <1>16, <1>17, <1>18, <1>19, <1>20, <1>21,
     <1>22, <1>23, <1>24, <1>25, <1>26
  DEF Next, RunGoesOn, Reads, Collects, Archives

(* What the run had finished stays finished while its files are collected. *)
LEMMA StepThere ==
  ASSUME DiskTypeOK, RequestInv, ThereInv, [Next]_vars
  PROVE  ThereInv'
<1> USE DEF ThereInv
<1>1. ASSUME NEW r \in Runs, NEW f \in Files, MakeFile(r, f) PROVE ThereInv'
  BY <1>1 DEF MakeFile, history, DiskTypeOK
<1>2. ASSUME NEW r \in Runs, UpdatePipelineRunStartedOn(r) PROVE ThereInv'
  BY <1>2 DEF UpdatePipelineRunStartedOn, history
<1>3. ASSUME NEW c \in Callers, Mkdir(c) PROVE ThereInv'
  <2>1. request[c].run \in Runs
    BY <1>3 DEF Mkdir, At, RequestInv
  <2> QED BY <1>3, <2>1 DEF Mkdir, inputs, work, DiskTypeOK
<1>4. ASSUME NEW c \in Callers, Reads(c) \/ Collects(c) \/ Archives(c), ~Mkdir(c)
      PROVE  UNCHANGED <<remote, there>>
  BY <1>4
  DEF Reads, Collects, Archives, GetPipelineRunArtifacts, TestAgentConnection,
      ReadAgentByID, ReadCredentialByID, GiveUp, CheckDir, MkdirQueued,
      Connect, SkipFile, CreateFile, CopyFile, Collected, FailCollecting,
      CheckZip, CreateZip, WalkDir, CopyToArchive, CloseZip, FailArchiving,
      ServeFile, inputs, work, history
<1>5. RecordForms \/ Restart \/ UNCHANGED vars => UNCHANGED <<remote, there>>
  BY DEF RecordForms, Restart, vars, inputs, work, history
<1> QED
  BY <1>1, <1>2, <1>3, <1>4, <1>5 DEF Next, RunGoesOn

-----------------------------------------------------------------------------
(* The steps by what they do to requests and to the disk. *)
Quiet == UNCHANGED <<dir, got, zip, streams, disturbed, there>>

GotChanges(c, f, state) ==
    /\ \A r \in Runs \ {request[c].run} : got'[r] = got[r]
    /\ \A g \in Files \ {f} : got'[request[c].run][g] = got[request[c].run][g]
    /\ got'[request[c].run][f] = state

StreamsChange(c, S) ==
    /\ \A r \in Runs \ {request[c].run} : streams'[r] = streams[r]
    /\ streams'[request[c].run] = S

Asking(c) ==
    /\ At(c, "idle") /\ UNCHANGED <<dir, got, zip, streams, there>>
    /\ \/ \E r \in Runs, a \in Agents \cup {NoAgent} :
              /\ Asks(c, r, a)
              /\ disturbed' =
                     IF streams[r] = {} /\ \E d \in Callers : request[d].run = r
                     THEN disturbed \cup {r} ELSE disturbed
       \/ \E a \in Agents : Asks(c, NoRun, a) /\ UNCHANGED disturbed

RowRead(c) ==
    /\ Quiet
    /\ \/ /\ At(c, "readAgent") /\ credentialOf[request[c].agent] # NoCredential
          /\ Becomes(c, "readCredential", credentialOf[request[c].agent],
                     request[c].files, request[c].file, request[c].copied)
       \/ /\ At(c, "readCredential") /\ request[c].run # NoRun
          /\ Becomes(c, "checkDir", NoCredential, request[c].files, request[c].file,
                     request[c].copied)

Ending(c) ==
    /\ request[c].at \notin Collecting \cup Archiving
    /\ Quiet /\ Answered(c)

Failing(c) ==
    /\ request[c].at \in Collecting \cup Archiving
    /\ UNCHANGED <<dir, got, zip, there>>
    /\ disturbed' = disturbed \cup {request[c].run}
    /\ \A r \in Runs \ {request[c].run} : streams'[r] = streams[r]
    /\ Answered(c)

DirChecked(c) ==
    /\ At(c, "checkDir") /\ Quiet
    /\ \/ request[c].run \in dir /\ MovesTo(c, "checkZip")
       \/ request[c].run \notin dir /\ MovesTo(c, Making(c))

QueuedDirMade(c) ==
    /\ At(c, "mkdirQueued") /\ dir' = dir \cup {request[c].run}
    /\ disturbed' = disturbed \cup {request[c].run}
    /\ UNCHANGED <<got, zip, streams, there>> /\ Answered(c)

DirMade(c) ==
    /\ At(c, "mkdir") /\ request[c].run \notin dir
    /\ dir' = dir \cup {request[c].run} /\ MovesTo(c, "connect")
    /\ UNCHANGED <<got, zip, streams, disturbed>>
    /\ there'[request[c].run] \subseteq Files
    /\ \A r \in Runs \ {request[c].run} : there'[r] = there[r]

Connected(c) ==
    /\ At(c, "connect") /\ Quiet
    /\ Becomes(c, "download", request[c].credential, Files, request[c].file,
               request[c].copied)

FileMade(c) ==
    /\ At(c, "download") /\ UNCHANGED <<dir, zip, streams, disturbed, there>>
    /\ \E f \in request[c].files :
          /\ Becomes(c, "copy", request[c].credential, request[c].files \ {f}, f,
                     request[c].copied)
          /\ GotChanges(c, f, "part")

FileSkipped(c) ==
    /\ At(c, "download") /\ Quiet
    /\ \E f \in request[c].files :
          /\ remote[request[c].run][f] = "none"
          /\ Becomes(c, "download", request[c].credential, request[c].files \ {f},
                     request[c].file, request[c].copied)

FileFilled(c) ==
    /\ At(c, "copy") /\ UNCHANGED <<dir, zip, streams, disturbed, there>>
    /\ GotChanges(c, request[c].file, remote[request[c].run][request[c].file])
    /\ Becomes(c, "download", request[c].credential, request[c].files, NoFile,
               request[c].copied)

DirFilled(c) ==
    /\ At(c, "download") /\ request[c].files = {}
    /\ Quiet /\ MovesTo(c, "checkZip")

ZipChecked(c) ==
    /\ At(c, "checkZip") /\ Quiet
    /\ \/ request[c].run \in zip /\ MovesTo(c, "serve")
       \/ request[c].run \notin zip /\ MovesTo(c, "createZip")

ZipMade(c) ==
    /\ At(c, "createZip") /\ UNCHANGED <<dir, got, disturbed, there>>
    /\ zip' = zip \cup {request[c].run} /\ StreamsChange(c, {})
    /\ MovesTo(c, "walk")

DirWalked(c) ==
    /\ At(c, "walk") /\ Quiet
    /\ Becomes(c, "archive", request[c].credential,
               {f \in Files : got[request[c].run][f] # "none"}, request[c].file,
               request[c].copied)

FileArchived(c) ==
    /\ At(c, "archive") /\ Quiet
    /\ \E f \in request[c].files :
          Becomes(c, "archive", request[c].credential, request[c].files \ {f},
                  request[c].file,
                  IF got[request[c].run][f] = "whole"
                  THEN request[c].copied \cup {f} ELSE request[c].copied)

ZipClosed(c) ==
    /\ At(c, "archive") /\ request[c].files = {}
    /\ UNCHANGED <<dir, got, zip, disturbed, there>> /\ MovesTo(c, "serve")
    /\ StreamsChange(c, streams[request[c].run] \cup {request[c].copied})

Lost ==
    /\ UNCHANGED <<dir, got, zip, there>>
    /\ \A c \in Callers : request'[c] = Idle
    /\ disturbed' = disturbed \cup {request[c].run : c \in
                       {d \in Callers : request[d].at \in Collecting \cup Archiving}}
    /\ \A r \in Runs \ disturbed' : streams'[r] = streams[r]

Moves(c) == \/ Asking(c) \/ RowRead(c) \/ Ending(c) \/ Failing(c)
            \/ DirChecked(c) \/ DirMade(c) \/ Connected(c) \/ FileMade(c)
            \/ FileFilled(c) \/ DirFilled(c) \/ ZipChecked(c) \/ ZipMade(c)
            \/ DirWalked(c) \/ FileArchived(c) \/ ZipClosed(c)
            \/ QueuedDirMade(c) \/ FileSkipped(c)

(* Every step is of one of these kinds, or leaves requests and disk alone. *)
LEMMA StepKinds ==
  ASSUME RecordsInv, DiskTypeOK, RequestInv, [Next]_vars
  PROVE  \/ UNCHANGED <<request, dir, got, zip, streams, disturbed, there>> \/ Lost
         \/ \E c \in Callers : Moves(c)
<1> USE DEF DiskTypeOK, history
<1>1. CASE RecordForms
  BY <1>1 DEF RecordForms, disk
<1>2. CASE Restart
  BY <1>2 DEF Restart, Lost
<1>3. ASSUME NEW c \in Callers, NEW r \in Runs, GetPipelineRunArtifacts(c, r)
      PROVE  Asking(c)
  <2>1. Asks(c, r, agentOf[RunPipeline[r]])
    BY <1>3, AsksForRun DEF RecordsInv
  <2>2. agentOf[RunPipeline[r]] \in Agents \cup {NoAgent}
    BY ArtifactsAssumption DEF RecordsInv, RecordsTypeOK
  <2> QED
    BY <1>3, <2>1, <2>2 DEF GetPipelineRunArtifacts, Asking, disk
<1>4. ASSUME NEW c \in Callers, NEW a \in Agents, TestAgentConnection(c, a)
      PROVE  Asking(c)
  BY <1>4, AsksForTest
  DEF TestAgentConnection, Asking, Quiet, disk, At, RequestInv, Collecting, Archiving
<1>5. ASSUME NEW c \in Callers, ReadAgentByID(c) PROVE RowRead(c)
  <2>1. Becomes(c, "readCredential", credentialOf[request[c].agent],
                request[c].files, request[c].file, request[c].copied)
    BY <1>5, ReadsAgent DEF RecordsInv
  <2> QED
    BY <1>5, <2>1 DEF ReadAgentByID, RowRead, Quiet, disk
<1>6. ASSUME NEW c \in Callers, ReadCredentialByID(c) PROVE RowRead(c) \/ Ending(c)
  <2>1. CASE request[c].run = NoRun
    BY <1>6, <2>1, AnswerMeans
    DEF ReadCredentialByID, Ending, Quiet, disk, At, Collecting, Archiving
  <2>2. CASE request[c].run # NoRun
    <3> QED
      BY <1>6, <2>2, ReadsCredential DEF ReadCredentialByID, RowRead, Quiet, disk
  <2> QED BY <2>1, <2>2
<1>7. ASSUME NEW c \in Callers, GiveUp(c) PROVE Ending(c)
  BY <1>7, AnswerMeans
  DEF GiveUp, Ending, Quiet, disk, At, RequestInv, Collecting, Archiving
<1>8. ASSUME NEW c \in Callers, CheckDir(c) PROVE DirChecked(c)
  <2>1. \/ request[c].run \in dir /\ MovesTo(c, "checkZip")
        \/ request[c].run \notin dir /\ MovesTo(c, Making(c))
    BY <1>8, ContinueMeans DEF CheckDir, Making, Places
  <2> QED
    BY <1>8, <2>1 DEF CheckDir, DirChecked, Quiet, disk
<1>9. ASSUME NEW c \in Callers, Mkdir(c) PROVE DirMade(c) \/ Ending(c)
  <2>1. CASE request[c].run \in dir
    BY <1>9, <2>1, AnswerMeans
    DEF Mkdir, Ending, Quiet, At, Collecting, Archiving
  <2>2. CASE request[c].run \notin dir
    <3>1. MovesTo(c, "connect")
      BY <1>9, <2>2, ContinueMeans DEF Mkdir, Places, Collecting
    <3>2. request[c].run \in Runs
      BY <1>9 DEF Mkdir, At, RequestInv
    <3>3. /\ there'[request[c].run] \subseteq Files
          /\ \A r \in Runs \ {request[c].run} : there'[r] = there[r]
      BY <1>9, <2>2, <3>2 DEF Mkdir
    <3> QED
      BY <1>9, <2>2, <3>1, <3>3 DEF Mkdir, DirMade
  <2> QED BY <2>1, <2>2
<1>10. ASSUME NEW c \in Callers, Connect(c) PROVE Connected(c)
  BY <1>10, Connects
  DEF Connect, Connected, Quiet, disk, At, RequestInv, Collecting, Archiving
<1>11. ASSUME NEW c \in Callers, CreateFile(c) PROVE FileMade(c)
  <2>1. PICK f \in request[c].files :
           /\ Becomes(c, "copy", request[c].credential, request[c].files \ {f}, f,
                      request[c].copied)
           /\ got' = [got EXCEPT ![request[c].run][f] = "part"]
    BY <1>11, Creates
  <2>2. f \in Files /\ request[c].run \in Runs
    BY <1>11 DEF CreateFile, RequestRecord, RequestInv, At
  <2>3. GotChanges(c, f, "part")
    BY <2>1, <2>2 DEF GotChanges
  <2> QED
    BY <1>11, <2>1, <2>3 DEF CreateFile, FileMade
<1>12. ASSUME NEW c \in Callers, CopyFile(c) PROVE FileFilled(c)
  <2>1. request[c].file \in Files /\ request[c].run \in Runs
    BY <1>12, DiskTypeOK DEF CopyFile, RequestInv, At, Collecting
  <2>2. GotChanges(c, request[c].file, remote[request[c].run][request[c].file])
    BY <1>12, <2>1 DEF CopyFile, GotChanges
  <2> QED
    BY <1>12, <2>2, Copies DEF CopyFile, FileFilled
<1>13. ASSUME NEW c \in Callers, Collected(c) PROVE DirFilled(c)
  <2>1. MovesTo(c, "checkZip")
    BY <1>13, ContinueMeans DEF Collected, Places
  <2> QED
    BY <1>13, <2>1 DEF Collected, DirFilled, Quiet, disk
<1>14. ASSUME NEW c \in Callers, FailCollecting(c) PROVE Failing(c)
  BY <1>14, AnswerMeans
  DEF FailCollecting, Failing, Quiet, disk, At, RequestInv, Collecting, Archiving
<1>15. ASSUME NEW c \in Callers, CheckZip(c) PROVE ZipChecked(c)
  <2>1. \/ request[c].run \in zip /\ MovesTo(c, "serve")
        \/ request[c].run \notin zip /\ MovesTo(c, "createZip")
    BY <1>15, ContinueMeans DEF CheckZip, Places
  <2> QED
    BY <1>15, <2>1 DEF CheckZip, ZipChecked, Quiet, disk
<1>16. ASSUME NEW c \in Callers, CreateZip(c) PROVE ZipMade(c)
  <2>1. MovesTo(c, "walk")
    BY <1>16, ContinueMeans DEF CreateZip, Places, Archiving
  <2>2. request[c].run \in Runs
    BY <1>16 DEF CreateZip, At, RequestInv
  <2>3. StreamsChange(c, {})
    BY <1>16, <2>2 DEF CreateZip, StreamsChange
  <2> QED
    BY <1>16, <2>1, <2>3 DEF CreateZip, ZipMade
<1>17. ASSUME NEW c \in Callers, WalkDir(c) PROVE DirWalked(c)
  BY <1>17, Walks
  DEF WalkDir, DirWalked, Quiet, disk, At, RequestInv, Collecting, Archiving
<1>18. ASSUME NEW c \in Callers, CopyToArchive(c) PROVE FileArchived(c)
  BY <1>18, CopiesToArchive
  DEF CopyToArchive, FileArchived, Quiet, disk, At, RequestInv, Collecting, Archiving
<1>19. ASSUME NEW c \in Callers, CloseZip(c) PROVE ZipClosed(c)
  <2>1. MovesTo(c, "serve")
    BY <1>19, ContinueMeans DEF CloseZip, Places
  <2>2. request[c].run \in Runs
    BY <1>19 DEF CloseZip, At, RequestInv
  <2>3. StreamsChange(c, streams[request[c].run] \cup {request[c].copied})
    BY <1>19, <2>2 DEF CloseZip, StreamsChange
  <2> QED
    BY <1>19, <2>1, <2>3 DEF CloseZip, ZipClosed
<1>20. ASSUME NEW c \in Callers, FailArchiving(c) PROVE Failing(c)
  BY <1>20, AnswerMeans
  DEF FailArchiving, Failing, Quiet, disk, At, RequestInv, Collecting, Archiving
<1>21. ASSUME NEW c \in Callers, ServeFile(c) PROVE Ending(c)
  BY <1>21, AnswerMeans
  DEF ServeFile, Ending, Quiet, disk, At, RequestInv, Collecting, Archiving
<1>22. ASSUME NEW c \in Callers, MkdirQueued(c) PROVE QueuedDirMade(c)
  BY <1>22, AnswerMeans DEF MkdirQueued, QueuedDirMade
<1>23. ASSUME NEW c \in Callers, SkipFile(c) PROVE FileSkipped(c)
  <2>1. \E f \in request[c].files :
           /\ remote[request[c].run][f] = "none"
           /\ Becomes(c, "download", request[c].credential, request[c].files \ {f},
                      request[c].file, request[c].copied)
    BY <1>23, Skips
  <2> QED BY <1>23, <2>1 DEF SkipFile, FileSkipped, Quiet, disk
<1>24. ASSUME NEW r \in Runs, RunGoesOn(r)
      PROVE  UNCHANGED <<request, dir, got, zip, streams, disturbed, there>>
  BY <1>24 DEF RunGoesOn, UpdatePipelineRunStartedOn, MakeFile, disk
<1>25. CASE UNCHANGED vars
  BY <1>25 DEF vars, disk
<1> QED
  BY <1>1, <1>2, <1>3, <1>4, <1>5, <1>6, <1>7, <1>8, <1>9, <1>10, <1>11,
     <1>12, <1>13, <1>14, <1>15, <1>16, <1>17, <1>18, <1>19, <1>20, <1>21,
     <1>22, <1>23, <1>24, <1>25
  DEF Next, Reads, Collects, Archives, Moves

-----------------------------------------------------------------------------
(* Each invariant, kind by kind. *)

(* Every step keeps requests with their runs. *)
LEMMA StepRequests ==
  ASSUME RecordsInv, DiskTypeOK, RequestInv, [Next]_vars
  PROVE  RequestInv'
<1> USE ArtifactsAssumption, RecordsAssumption, IdleIs
    DEF RequestInv, At, Collecting, Archiving
<1>1. CASE UNCHANGED <<request, dir, got, zip, streams, disturbed, there>>
  BY <1>1
<1>2. CASE Lost
  <2>1. \A c \in Callers : request'[c] = Idle
    BY <1>2 DEF Lost
  <2> QED BY <2>1
<1>3. ASSUME NEW c \in Callers, Asking(c) PROVE RequestInv'
  BY <1>3 DEF Asking, Asks, disk
<1>4. ASSUME NEW c \in Callers, RowRead(c) PROVE RequestInv'
  <2>1. request[c].run \in Runs \cup {NoRun}
    BY DEF DiskTypeOK, RequestRecord
  <2> QED
    BY <1>4, <2>1 DEF RowRead, Becomes, MovesTo, Quiet
<1>5. ASSUME NEW c \in Callers, Ending(c) PROVE RequestInv'
  BY <1>5 DEF Ending, Answered, Quiet
<1>6. ASSUME NEW c \in Callers, Failing(c) PROVE RequestInv'
  BY <1>6 DEF Failing, Answered
<1>7. ASSUME NEW c \in Callers, DirChecked(c) PROVE RequestInv'
  BY <1>7 DEF DirChecked, Making, MovesTo, Becomes, Quiet
<1>8. ASSUME NEW c \in Callers, DirMade(c) PROVE RequestInv'
  BY <1>8 DEF DirMade, MovesTo, Becomes
<1>9. ASSUME NEW c \in Callers, Connected(c) PROVE RequestInv'
  BY <1>9 DEF Connected, Becomes, Quiet
<1>10. ASSUME NEW c \in Callers, FileMade(c) PROVE RequestInv'
  <2>1. request[c].files \subseteq Files
    BY DEF DiskTypeOK, RequestRecord
  <2> QED
    BY <1>10, <2>1 DEF FileMade, Becomes
<1>11. ASSUME NEW c \in Callers, FileFilled(c) PROVE RequestInv'
  BY <1>11 DEF FileFilled, Becomes, GotChanges
<1>12. ASSUME NEW c \in Callers, DirFilled(c) PROVE RequestInv'
  BY <1>12 DEF DirFilled, MovesTo, Becomes, Quiet
<1>13. ASSUME NEW c \in Callers, ZipChecked(c) PROVE RequestInv'
  BY <1>13 DEF ZipChecked, MovesTo, Becomes, Quiet
<1>14. ASSUME NEW c \in Callers, ZipMade(c) PROVE RequestInv'
  BY <1>14 DEF ZipMade, MovesTo, Becomes, StreamsChange
<1>15. ASSUME NEW c \in Callers, DirWalked(c) PROVE RequestInv'
  BY <1>15 DEF DirWalked, Becomes, Quiet
<1>16. ASSUME NEW c \in Callers, FileArchived(c) PROVE RequestInv'
  BY <1>16 DEF FileArchived, Becomes, Quiet
<1>17. ASSUME NEW c \in Callers, ZipClosed(c) PROVE RequestInv'
  BY <1>17 DEF ZipClosed, MovesTo, Becomes, StreamsChange
<1>18. ASSUME NEW c \in Callers, QueuedDirMade(c) PROVE RequestInv'
  BY <1>18 DEF QueuedDirMade, Answered
<1>19. ASSUME NEW c \in Callers, FileSkipped(c) PROVE RequestInv'
  BY <1>19 DEF FileSkipped, Becomes, Quiet
<1> QED
  BY <1>1, <1>2, <1>3, <1>4, <1>5, <1>6, <1>7, <1>8, <1>9,
     <1>10, <1>11, <1>12, <1>13, <1>14, <1>15, <1>16, <1>17, <1>18, <1>19, StepKinds
  DEF Moves

(* Every step keeps a directory with one collector. *)
LEMMA StepCollects ==
  ASSUME RecordsInv, DiskTypeOK, RequestInv, OneCollectorPerRun, [Next]_vars
  PROVE  OneCollectorPerRun'
<1> USE IdleIs DEF RequestInv, OneCollectorPerRun, At, Collecting, Archiving
<1>1. CASE UNCHANGED <<request, dir, got, zip, streams, disturbed, there>>
  BY <1>1
<1>2. CASE Lost
  BY <1>2 DEF Lost, Idle
<1>3. ASSUME NEW c \in Callers, Asking(c) PROVE OneCollectorPerRun'
  BY <1>3 DEF Asking, Asks, disk
<1>4. ASSUME NEW c \in Callers, RowRead(c) PROVE OneCollectorPerRun'
  BY <1>4 DEF RowRead, Becomes, MovesTo, Quiet
<1>5. ASSUME NEW c \in Callers, Ending(c) PROVE OneCollectorPerRun'
  BY <1>5 DEF Ending, Answered, Quiet
<1>6. ASSUME NEW c \in Callers, Failing(c) PROVE OneCollectorPerRun'
  BY <1>6 DEF Failing, Answered
<1>7. ASSUME NEW c \in Callers, DirChecked(c) PROVE OneCollectorPerRun'
  BY <1>7 DEF DirChecked, Making, MovesTo, Becomes, Quiet
<1>8. ASSUME NEW c \in Callers, DirMade(c) PROVE OneCollectorPerRun'
  BY <1>8 DEF DirMade, MovesTo, Becomes
<1>9. ASSUME NEW c \in Callers, Connected(c) PROVE OneCollectorPerRun'
  BY <1>9 DEF Connected, Becomes, Quiet
<1>10. ASSUME NEW c \in Callers, FileMade(c) PROVE OneCollectorPerRun'
  BY <1>10 DEF FileMade, Becomes, GotChanges
<1>11. ASSUME NEW c \in Callers, FileFilled(c) PROVE OneCollectorPerRun'
  BY <1>11 DEF FileFilled, Becomes, GotChanges
<1>12. ASSUME NEW c \in Callers, DirFilled(c) PROVE OneCollectorPerRun'
  BY <1>12 DEF DirFilled, MovesTo, Becomes, Quiet
<1>13. ASSUME NEW c \in Callers, ZipChecked(c) PROVE OneCollectorPerRun'
  BY <1>13 DEF ZipChecked, MovesTo, Becomes, Quiet
<1>14. ASSUME NEW c \in Callers, ZipMade(c) PROVE OneCollectorPerRun'
  BY <1>14 DEF ZipMade, MovesTo, Becomes, StreamsChange
<1>15. ASSUME NEW c \in Callers, DirWalked(c) PROVE OneCollectorPerRun'
  BY <1>15 DEF DirWalked, Becomes, Quiet
<1>16. ASSUME NEW c \in Callers, FileArchived(c) PROVE OneCollectorPerRun'
  BY <1>16 DEF FileArchived, Becomes, Quiet
<1>17. ASSUME NEW c \in Callers, ZipClosed(c) PROVE OneCollectorPerRun'
  BY <1>17 DEF ZipClosed, MovesTo, Becomes, StreamsChange
<1>18. ASSUME NEW c \in Callers, QueuedDirMade(c) PROVE OneCollectorPerRun'
  BY <1>18 DEF QueuedDirMade, Answered
<1>19. ASSUME NEW c \in Callers, FileSkipped(c) PROVE OneCollectorPerRun'
  BY <1>19 DEF FileSkipped, Becomes, Quiet
<1> QED
  BY <1>1, <1>2, <1>3, <1>4, <1>5, <1>6, <1>7, <1>8, <1>9,
     <1>10, <1>11, <1>12, <1>13, <1>14, <1>15, <1>16, <1>17, <1>18, <1>19, StepKinds
  DEF Moves

(* A step of a request that stays with its run, or ends.                    *)
LEMMA AloneStays ==
  ASSUME AloneInv, NEW c \in Callers, NoRun \notin Runs,
         \A d \in Callers \ {c} : request'[d] = request[d],
         request'[c].run = request[c].run \/ request'[c].run = NoRun,
         \A r \in Runs \ disturbed' :
             r \notin disturbed /\ (streams'[r] = {} => streams[r] = {})
  PROVE  AloneInv'
BY DEF AloneInv

(* Every step keeps undisturbed requests alone. *)
LEMMA StepAlone ==
  ASSUME RecordsInv, DiskTypeOK, RequestInv, AloneInv, FoundInv, [Next]_vars
  PROVE  AloneInv'
<1> USE ArtifactsAssumption, IdleIs
<1>1. CASE UNCHANGED <<request, dir, got, zip, streams, disturbed, there>>
  BY <1>1 DEF AloneInv
<1>2. CASE Lost
  BY <1>2 DEF Lost, AloneInv
<1>3. ASSUME NEW c \in Callers, Asking(c) PROVE AloneInv'
  BY <1>3 DEF Asking, Asks, AloneInv
<1>4. ASSUME NEW c \in Callers, RowRead(c) PROVE AloneInv'
  BY <1>4, AloneStays DEF RowRead, Becomes, Quiet
<1>5. ASSUME NEW c \in Callers, Ending(c) PROVE AloneInv'
  BY <1>5, AloneStays DEF Ending, Answered, Quiet
<1>6. ASSUME NEW c \in Callers, Failing(c) PROVE AloneInv'
  BY <1>6, AloneStays DEF Failing, Answered
<1>7. ASSUME NEW c \in Callers, DirChecked(c) PROVE AloneInv'
  BY <1>7, AloneStays DEF DirChecked, Making, MovesTo, Becomes, Quiet
<1>8. ASSUME NEW c \in Callers, DirMade(c) PROVE AloneInv'
  BY <1>8, AloneStays DEF DirMade, MovesTo, Becomes
<1>9. ASSUME NEW c \in Callers, Connected(c) PROVE AloneInv'
  BY <1>9, AloneStays DEF Connected, Becomes, Quiet
<1>10. ASSUME NEW c \in Callers, FileMade(c) PROVE AloneInv'
  BY <1>10, AloneStays DEF FileMade, Becomes
<1>11. ASSUME NEW c \in Callers, FileFilled(c) PROVE AloneInv'
  BY <1>11, AloneStays DEF FileFilled, Becomes
<1>12. ASSUME NEW c \in Callers, DirFilled(c) PROVE AloneInv'
  BY <1>12, AloneStays DEF DirFilled, MovesTo, Becomes, Quiet
<1>13. ASSUME NEW c \in Callers, ZipChecked(c) PROVE AloneInv'
  BY <1>13, AloneStays DEF ZipChecked, MovesTo, Becomes, Quiet
<1>14. ASSUME NEW c \in Callers, ZipMade(c) PROVE AloneInv'
  <2>1. request[c].run \notin disturbed => streams[request[c].run] = {}
    BY <1>14 DEF ZipMade, At, FoundInv, Finding, RequestInv
  <2> QED
    BY <1>14, <2>1, AloneStays DEF ZipMade, MovesTo, Becomes, StreamsChange
<1>15. ASSUME NEW c \in Callers, DirWalked(c) PROVE AloneInv'
  BY <1>15, AloneStays DEF DirWalked, Becomes, Quiet
<1>16. ASSUME NEW c \in Callers, FileArchived(c) PROVE AloneInv'
  BY <1>16, AloneStays DEF FileArchived, Becomes, Quiet
<1>17. ASSUME NEW c \in Callers, ZipClosed(c) PROVE AloneInv'
  BY <1>17, AloneStays DEF ZipClosed, MovesTo, Becomes, StreamsChange
<1>18. ASSUME NEW c \in Callers, QueuedDirMade(c) PROVE AloneInv'
  BY <1>18, AloneStays DEF QueuedDirMade, Answered
<1>19. ASSUME NEW c \in Callers, FileSkipped(c) PROVE AloneInv'
  BY <1>19, AloneStays DEF FileSkipped, Becomes, Quiet
<1> QED
  BY <1>1, <1>2, <1>3, <1>4, <1>5, <1>6, <1>7, <1>8, <1>9,
     <1>10, <1>11, <1>12, <1>13, <1>14, <1>15, <1>16, <1>17, <1>18, <1>19, StepKinds
  DEF Moves

(* A step of a request that leaves archives as they are, or disturbs.      *)
LEMMA FoundStays ==
  ASSUME FoundInv, NEW c \in Callers, NoRun \notin Runs,
         \A d \in Callers \ {c} : request'[d] = request[d],
         request'[c].run = request[c].run \/ request'[c].run = NoRun,
         request[c].at \in Finding /\ request'[c].run # NoRun =>
             \/ request'[c].at \in Finding
             \/ request[c].run \notin zip,
         zip \subseteq zip',
         \A r \in Runs \ disturbed' : r \notin disturbed /\ streams'[r] = streams[r]
  PROVE  FoundInv'
BY DEF FoundInv

(* Every step keeps a closed archive where requests find it. *)
LEMMA StepFound ==
  ASSUME RecordsInv, DiskTypeOK, RequestInv, AloneInv, FoundInv, [Next]_vars
  PROVE  FoundInv'
<1> USE ArtifactsAssumption, IdleIs DEF At, Finding
<1>1. CASE UNCHANGED <<request, dir, got, zip, streams, disturbed, there>>
  BY <1>1 DEF FoundInv
<1>2. CASE Lost
  BY <1>2 DEF Lost, FoundInv
<1>3. ASSUME NEW c \in Callers, Asking(c) PROVE FoundInv'
  BY <1>3 DEF Asking, Asks, FoundInv
<1>4. ASSUME NEW c \in Callers, RowRead(c) PROVE FoundInv'
  BY <1>4, FoundStays DEF RowRead, Becomes, Quiet
<1>5. ASSUME NEW c \in Callers, Ending(c) PROVE FoundInv'
  BY <1>5, FoundStays DEF Ending, Answered, Quiet
<1>6. ASSUME NEW c \in Callers, Failing(c) PROVE FoundInv'
  BY <1>6, FoundStays DEF Failing, Answered
<1>7. ASSUME NEW c \in Callers, DirChecked(c) PROVE FoundInv'
  <2>1. zip \subseteq dir
    BY DEF DiskTypeOK
  <2> QED
    BY <1>7, <2>1, FoundStays DEF DirChecked, Making, MovesTo, Becomes, Quiet
<1>8. ASSUME NEW c \in Callers, DirMade(c) PROVE FoundInv'
  BY <1>8, FoundStays DEF DirMade, MovesTo, Becomes
<1>9. ASSUME NEW c \in Callers, Connected(c) PROVE FoundInv'
  BY <1>9, FoundStays DEF Connected, Becomes, Quiet
<1>10. ASSUME NEW c \in Callers, FileMade(c) PROVE FoundInv'
  BY <1>10, FoundStays DEF FileMade, Becomes
<1>11. ASSUME NEW c \in Callers, FileFilled(c) PROVE FoundInv'
  BY <1>11, FoundStays DEF FileFilled, Becomes
<1>12. ASSUME NEW c \in Callers, DirFilled(c) PROVE FoundInv'
  BY <1>12, FoundStays DEF DirFilled, MovesTo, Becomes, Quiet
<1>13. ASSUME NEW c \in Callers, ZipChecked(c) PROVE FoundInv'
  BY <1>13, FoundStays DEF ZipChecked, MovesTo, Becomes, Quiet
<1>14. ASSUME NEW c \in Callers, ZipMade(c) PROVE FoundInv'
  BY <1>14 DEF ZipMade, MovesTo, Becomes, StreamsChange, FoundInv
<1>15. ASSUME NEW c \in Callers, DirWalked(c) PROVE FoundInv'
  BY <1>15, FoundStays DEF DirWalked, Becomes, Quiet
<1>16. ASSUME NEW c \in Callers, FileArchived(c) PROVE FoundInv'
  BY <1>16, FoundStays DEF FileArchived, Becomes, Quiet
<1>17. ASSUME NEW c \in Callers, ZipClosed(c) PROVE FoundInv'
  <2>1. request[c].run \in Runs /\ request[c].run \in zip
    BY <1>17 DEF ZipClosed, RequestInv, Archiving, DiskTypeOK
  <2>2. request[c].run \notin disturbed => streams[request[c].run] = {}
    BY <1>17, <2>1 DEF ZipClosed, FoundInv
  <2> QED
    BY <1>17, <2>1, <2>2 DEF ZipClosed, MovesTo, Becomes, StreamsChange, FoundInv, AloneInv
<1>18. ASSUME NEW c \in Callers, QueuedDirMade(c) PROVE FoundInv'
  BY <1>18, FoundStays DEF QueuedDirMade, Answered
<1>19. ASSUME NEW c \in Callers, FileSkipped(c) PROVE FoundInv'
  BY <1>19, FoundStays DEF FileSkipped, Becomes, Quiet
<1> QED
  BY <1>1, <1>2, <1>3, <1>4, <1>5, <1>6, <1>7, <1>8, <1>9,
     <1>10, <1>11, <1>12, <1>13, <1>14, <1>15, <1>16, <1>17, <1>18, <1>19, StepKinds
  DEF Moves

(* Every step keeps what is missing from a directory on its collector's     *)
(* list.                                                                   *)
LEMMA StepFills ==
  ASSUME RecordsInv, DiskTypeOK, RequestInv, OneCollectorPerRun, AloneInv,
         FilledInv, ThereInv, [Next]_vars
  PROVE  FilledInv'
<1> USE ArtifactsAssumption, IdleIs
    DEF RequestInv, AloneInv, FilledInv, Filling, Pending, At, Collecting, Archiving
<1>1. CASE UNCHANGED <<request, dir, got, zip, streams, disturbed, there>>
  BY <1>1
<1>2. CASE Lost
  BY <1>2 DEF Lost, Idle
<1>3. ASSUME NEW c \in Callers, Asking(c) PROVE FilledInv'
  BY <1>3 DEF Asking, Asks, disk
<1>4. ASSUME NEW c \in Callers, RowRead(c) PROVE FilledInv'
  BY <1>4 DEF RowRead, Becomes, MovesTo, Quiet
<1>5. ASSUME NEW c \in Callers, Ending(c) PROVE FilledInv'
  BY <1>5 DEF Ending, Answered, Quiet
<1>6. ASSUME NEW c \in Callers, Failing(c) PROVE FilledInv'
  BY <1>6 DEF Failing, Answered
<1>7. ASSUME NEW c \in Callers, DirChecked(c) PROVE FilledInv'
  BY <1>7 DEF DirChecked, Making, MovesTo, Becomes, Quiet
<1>8. ASSUME NEW c \in Callers, DirMade(c) PROVE FilledInv'
  <2>1. /\ dir' = dir \cup {request[c].run} /\ request[c].run \notin dir
        /\ request'[c].run = request[c].run /\ request'[c].at = "connect"
        /\ \A d \in Callers \ {c} : request'[d] = request[d]
        /\ \A d \in Callers \ {c} : Pending(d)' = Pending(d)
        /\ UNCHANGED <<got, disturbed>>
        /\ \A r \in dir : there'[r] = there[r]
    BY <1>8 DEF DirMade, MovesTo, Becomes, DiskTypeOK
  <2>2. ASSUME NEW r \in dir \ disturbed, NEW f \in there'[r]
        PROVE  /\ f \in there[r] /\ got'[r] = got[r]
               /\ Filling(r)' <=> Filling(r)
    BY <2>1, <2>2
  <2>3. /\ Pending(c)' = Files /\ there'[request[c].run] \subseteq Files
        /\ Filling(request[c].run)'
        /\ \A d \in Callers \ {c} : request'[d].run = request[c].run =>
                                    request'[d].at \notin Collecting
    BY <1>8, <2>1 DEF DirMade
  <2> QED BY <2>1, <2>2, <2>3
<1>9. ASSUME NEW c \in Callers, Connected(c) PROVE FilledInv'
  BY <1>9 DEF Connected, Becomes, Quiet
<1>10. ASSUME NEW c \in Callers, FileMade(c) PROVE FilledInv'
  <2>1. PICK f \in request[c].files :
           /\ Becomes(c, "copy", request[c].credential, request[c].files \ {f}, f,
                      request[c].copied)
           /\ GotChanges(c, f, "part")
    BY <1>10 DEF FileMade
  <2> SUFFICES ASSUME NEW r \in dir \ disturbed
               PROVE  /\ ~Filling(r)' => \A g \in there[r] : got'[r][g] = "whole"
                      /\ \A d \in Callers :
                            /\ request'[d].run = r
                            /\ request'[d].at \in Collecting
                            => \A g \in there[r] \ Pending(d)' : got'[r][g] = "whole"
    BY <1>10 DEF FileMade
  <2>2. request'[c].run = request[c].run /\ request'[c].at \in Collecting
        /\ request[c].at \in Collecting
        /\ \A d \in Callers \ {c} : request'[d] = request[d]
    BY <1>10, <2>1 DEF FileMade, Becomes
  <2>3. CASE r # request[c].run
    <3>1. got'[r] = got[r]
      BY <2>1, <2>3, DiskTypeOK DEF GotChanges, DiskTypeOK
    <3>2. \A d \in Callers : request'[d].run = r => request'[d] = request[d]
      BY <2>2, <2>3
    <3>3. Filling(r) => Filling(r)'
      BY <3>2, <2>2
    <3> QED BY <2>3, <3>1, <3>2, <3>3
  <2>4. CASE r = request[c].run
    <3>1. \A d \in Callers : request'[d].run = r /\ request'[d].at \in Collecting => d = c
      BY <2>2, <2>4 DEF OneCollectorPerRun
    <3>2. \A g \in there[r] \ Pending(c)' : got'[r][g] = "whole"
      <4>1. \A g \in there[r] \ Pending(c) : got[r][g] = "whole"
        BY <2>2, <2>4
      <4>2. Pending(c)' = Pending(c) /\ f \in Pending(c)'
        BY <1>10, <2>1 DEF FileMade, Becomes, DiskTypeOK, RequestRecord
      <4>3. there[r] \subseteq Files
        BY <2>4 DEF DiskTypeOK
      <4> QED BY <2>1, <2>4, <4>1, <4>2, <4>3 DEF GotChanges
    <3> QED BY <2>2, <2>4, <3>1, <3>2
  <2> QED BY <2>3, <2>4
<1>11. ASSUME NEW c \in Callers, FileFilled(c) PROVE FilledInv'
  <2>1. GotChanges(c, request[c].file, remote[request[c].run][request[c].file])
    BY <1>11 DEF FileFilled
  <2> SUFFICES ASSUME NEW r \in dir \ disturbed
               PROVE  /\ ~Filling(r)' => \A g \in there[r] : got'[r][g] = "whole"
                      /\ \A d \in Callers :
                            /\ request'[d].run = r
                            /\ request'[d].at \in Collecting
                            => \A g \in there[r] \ Pending(d)' : got'[r][g] = "whole"
    BY <1>11 DEF FileFilled
  <2>2. request'[c].run = request[c].run /\ request'[c].at \in Collecting
        /\ request[c].at \in Collecting
        /\ \A d \in Callers \ {c} : request'[d] = request[d]
    BY <1>11, <2>1 DEF FileFilled, Becomes
  <2>3. CASE r # request[c].run
    <3>1. got'[r] = got[r]
      BY <2>1, <2>3, DiskTypeOK DEF GotChanges, DiskTypeOK
    <3>2. \A d \in Callers : request'[d].run = r => request'[d] = request[d]
      BY <2>2, <2>3
    <3>3. Filling(r) => Filling(r)'
      BY <3>2, <2>2
    <3> QED BY <2>3, <3>1, <3>2, <3>3
  <2>4. CASE r = request[c].run
    <3>1. \A d \in Callers : request'[d].run = r /\ request'[d].at \in Collecting => d = c
      BY <2>2, <2>4 DEF OneCollectorPerRun
    <3>2. \A g \in there[r] \ Pending(c)' : got'[r][g] = "whole"
      <4>1. \A g \in there[r] \ Pending(c) : got[r][g] = "whole"
        BY <2>2, <2>4
      <4>2. Pending(c) = Pending(c)' \cup {request[c].file}
        BY <1>11 DEF FileFilled, Becomes
      <4>3. r \in Runs /\ there[r] \subseteq Files
        BY <2>4 DEF DiskTypeOK
      <4>4. request[c].file \in there[r] => got'[r][request[c].file] = "whole"
        BY <2>1, <2>4, <4>3 DEF GotChanges, ThereInv
      <4> QED BY <2>1, <2>4, <4>1, <4>2, <4>3, <4>4 DEF GotChanges
    <3> QED BY <2>2, <2>4, <3>1, <3>2
  <2> QED BY <2>3, <2>4
<1>12. ASSUME NEW c \in Callers, DirFilled(c) PROVE FilledInv'
  BY <1>12 DEF DirFilled, MovesTo, Becomes, Quiet
<1>13. ASSUME NEW c \in Callers, ZipChecked(c) PROVE FilledInv'
  BY <1>13 DEF ZipChecked, MovesTo, Becomes, Quiet
<1>14. ASSUME NEW c \in Callers, ZipMade(c) PROVE FilledInv'
  BY <1>14 DEF ZipMade, MovesTo, Becomes, StreamsChange
<1>15. ASSUME NEW c \in Callers, DirWalked(c) PROVE FilledInv'
  BY <1>15 DEF DirWalked, Becomes, Quiet
<1>16. ASSUME NEW c \in Callers, FileArchived(c) PROVE FilledInv'
  BY <1>16 DEF FileArchived, Becomes, Quiet
<1>17. ASSUME NEW c \in Callers, ZipClosed(c) PROVE FilledInv'
  BY <1>17 DEF ZipClosed, MovesTo, Becomes, StreamsChange
<1>18. ASSUME NEW c \in Callers, QueuedDirMade(c) PROVE FilledInv'
  BY <1>18 DEF QueuedDirMade, Answered
<1>19. ASSUME NEW c \in Callers, FileSkipped(c) PROVE FilledInv'
  <2>1. PICK f \in request[c].files :
           /\ remote[request[c].run][f] = "none"
           /\ Becomes(c, "download", request[c].credential, request[c].files \ {f},
                      request[c].file, request[c].copied)
    BY <1>19 DEF FileSkipped
  <2>2. f \notin there[request[c].run]
    BY <1>19, <2>1 DEF FileSkipped, ThereInv
  <2>3. /\ request'[c].run = request[c].run /\ request'[c].at \in Collecting
        /\ request[c].at \in Collecting
        /\ \A d \in Callers \ {c} : request'[d] = request[d]
        /\ UNCHANGED <<dir, got, disturbed, there>>
    BY <1>19, <2>1 DEF FileSkipped, Becomes, Quiet
  <2>4. there[request[c].run] \ Pending(c)' \subseteq there[request[c].run] \ Pending(c)
    BY <1>19, <2>1, <2>2 DEF FileSkipped, Becomes
  <2> QED BY <2>3, <2>4
<1> QED
  BY <1>1, <1>2, <1>3, <1>4, <1>5, <1>6, <1>7, <1>8, <1>9,
     <1>10, <1>11, <1>12, <1>13, <1>14, <1>15, <1>16, <1>17, <1>18, <1>19, StepKinds
  DEF Moves

(* A step of a request that is not writing, nor going to, touches no       *)
(* archive.                                                                *)
LEMMA WholeStays ==
  ASSUME WholeInv, NEW c \in Callers,
         \A d \in Callers \ {c} : request'[d] = request[d],
         request[c].at \notin Archiving, request'[c].at \notin Archiving,
         zip' = zip, disturbed \subseteq disturbed',
         \A r \in zip : streams'[r] = streams[r] /\ there'[r] = there[r]
  PROVE  WholeInv'
<1>1. \A r \in zip : Writing(r)' <=> Writing(r)
  BY DEF Writing
<1>2. \A d \in Callers : request'[d].at \in Archiving => request'[d] = request[d]
  OBVIOUS
<1>3. ASSUME NEW d \in Callers, At(d, "archive")'
      PROVE  request'[d] = request[d] /\ At(d, "archive")
  BY <1>2, <1>3 DEF At, Archiving
<1> QED
  BY <1>1, <1>2, <1>3 DEF WholeInv, WholeAt

(* Every step keeps an undisturbed archive with one archiver, or with what *)
(* was there.                                                              *)
LEMMA StepWhole ==
  ASSUME RecordsInv, DiskTypeOK, RequestInv, AloneInv, FoundInv, FilledInv, WholeInv,
         [Next]_vars
  PROVE  WholeInv'
<1> USE ArtifactsAssumption, IdleIs DEF At, Collecting, Archiving
<1>0. zip \subseteq Runs /\ zip \subseteq dir
  BY DEF DiskTypeOK
<1>1. CASE UNCHANGED <<request, dir, got, zip, streams, disturbed, there>>
  BY <1>1 DEF WholeInv, WholeAt, Writing
<1>2. CASE Lost
  <2>1. \A c \in Callers : request'[c] = Idle
    BY <1>2 DEF Lost
  <2>2. \A r \in zip' \ disturbed' :
           /\ r \in zip \ disturbed /\ ~Writing(r)
           /\ streams'[r] = streams[r] /\ there'[r] = there[r]
    BY <1>0, <1>2 DEF Lost, Writing
  <2> QED BY <2>1, <2>2 DEF WholeInv, WholeAt
<1>3. ASSUME NEW c \in Callers, Asking(c) PROVE WholeInv'
  BY <1>3, <1>0, WholeStays DEF Asking, Asks
<1>4. ASSUME NEW c \in Callers, RowRead(c) PROVE WholeInv'
  BY <1>4, <1>0, WholeStays DEF RowRead, Becomes, Quiet
<1>5. ASSUME NEW c \in Callers, Ending(c) PROVE WholeInv'
  BY <1>5, <1>0, WholeStays DEF Ending, Answered, Quiet
<1>6. ASSUME NEW c \in Callers, Failing(c) PROVE WholeInv'
  BY <1>0, <1>6 DEF Failing, Answered, WholeInv, WholeAt, Writing
<1>7. ASSUME NEW c \in Callers, DirChecked(c) PROVE WholeInv'
  BY <1>7, <1>0, WholeStays DEF DirChecked, Making, MovesTo, Becomes, Quiet
<1>8. ASSUME NEW c \in Callers, DirMade(c) PROVE WholeInv'
  BY <1>8, <1>0, WholeStays DEF DirMade, MovesTo, Becomes
<1>9. ASSUME NEW c \in Callers, Connected(c) PROVE WholeInv'
  BY <1>9, <1>0, WholeStays DEF Connected, Becomes, Quiet
<1>10. ASSUME NEW c \in Callers, FileMade(c) PROVE WholeInv'
  BY <1>10, <1>0, WholeStays DEF FileMade, Becomes
<1>11. ASSUME NEW c \in Callers, FileFilled(c) PROVE WholeInv'
  BY <1>11, <1>0, WholeStays DEF FileFilled, Becomes
<1>12. ASSUME NEW c \in Callers, DirFilled(c) PROVE WholeInv'
  BY <1>12, <1>0, WholeStays DEF DirFilled, MovesTo, Becomes, Quiet
<1>13. ASSUME NEW c \in Callers, ZipChecked(c) PROVE WholeInv'
  BY <1>13, <1>0, WholeStays DEF ZipChecked, MovesTo, Becomes, Quiet
<1>14. ASSUME NEW c \in Callers, ZipMade(c) PROVE WholeInv'
  <2>1. request[c].run \notin disturbed =>
           \A d \in Callers : request[d].run = request[c].run => d = c
    BY <1>14 DEF ZipMade, AloneInv, FoundInv, Finding, RequestInv
  <2>2. /\ zip' = zip \cup {request[c].run} /\ request'[c].at = "walk"
        /\ request'[c].run = request[c].run
        /\ \A d \in Callers \ {c} : request'[d] = request[d]
        /\ streams'[request[c].run] = {} /\ UNCHANGED <<disturbed, there>>
        /\ \A r \in Runs \ {request[c].run} : streams'[r] = streams[r]
    BY <1>14 DEF ZipMade, MovesTo, Becomes, StreamsChange
  <2>3. Writing(request[c].run)'
    BY <2>2 DEF Writing
  <2>4. \A r \in Runs \ {request[c].run} : Writing(r)' <=> Writing(r)
    BY <1>14, <2>2 DEF Writing, ZipMade
  <2> QED BY <1>0, <1>14, <2>1, <2>2, <2>3, <2>4 DEF WholeInv, WholeAt
<1>15. ASSUME NEW c \in Callers, DirWalked(c) PROVE WholeInv'
  <2>1. /\ request[c].copied \subseteq Files /\ request[c].run \in dir
        /\ request[c].run \in Runs /\ request[c].run \in zip
    BY <1>15 DEF DirWalked, DiskTypeOK, RequestRecord, RequestInv
  <2>2. /\ request'[c].run = request[c].run /\ request'[c].at = "archive"
        /\ request[c].at = "walk"
        /\ \A d \in Callers \ {c} : request'[d] = request[d]
        /\ request'[c].files = {f \in Files : got[request[c].run][f] # "none"}
        /\ UNCHANGED <<zip, streams, disturbed, there>>
    BY <1>15 DEF DirWalked, Becomes, Quiet
  <2>3. \A r \in Runs : Writing(r)' <=> Writing(r)
    BY <2>2 DEF Writing
  <2>4. request[c].run \notin disturbed =>
           there[request[c].run] \subseteq {f \in Files : got[request[c].run][f] # "none"}
    <3> SUFFICES ASSUME request[c].run \notin disturbed
                 PROVE  \A f \in there[request[c].run] : got[request[c].run][f] = "whole"
      BY <2>1 DEF DiskTypeOK
    <3>1. streams[request[c].run] = {}
      BY <2>1, <2>2 DEF FoundInv, Finding
    <3>2. ~Filling(request[c].run)
      BY <2>1, <2>2, <3>1 DEF Filling, AloneInv
    <3> QED BY <2>1, <3>2 DEF FilledInv
  <2> QED
    BY <1>0, <2>1, <2>2, <2>3, <2>4 DEF WholeInv, WholeAt
<1>16. ASSUME NEW c \in Callers, FileArchived(c) PROVE WholeInv'
  <2>1. PICK f \in request[c].files :
          Becomes(c, "archive", request[c].credential, request[c].files \ {f},
                  request[c].file,
                  IF got[request[c].run][f] = "whole"
                  THEN request[c].copied \cup {f} ELSE request[c].copied)
    BY <1>16 DEF FileArchived
  <2>2. /\ request'[c].run = request[c].run /\ request'[c].at = "archive"
        /\ request[c].at = "archive"
        /\ \A d \in Callers \ {c} : request'[d] = request[d]
        /\ UNCHANGED <<zip, streams, disturbed, there>>
    BY <1>16, <2>1 DEF FileArchived, Becomes, Quiet
  <2>3. \A r \in Runs : Writing(r)' <=> Writing(r)
    BY <2>2 DEF Writing
  <2>4. request[c].run \in Runs /\ request[c].run \in zip /\ request[c].run \in dir
    BY <2>2 DEF RequestInv
  <2>5. ASSUME request[c].run \notin disturbed
        PROVE  there[request[c].run] \subseteq request'[c].files \cup request'[c].copied
    <3>1. streams[request[c].run] = {}
      BY <2>2, <2>4, <2>5 DEF FoundInv, Finding
    <3>2. ~Filling(request[c].run)
      BY <2>2, <2>4, <2>5, <3>1 DEF Filling, AloneInv
    <3>3. \A g \in there[request[c].run] : got[request[c].run][g] = "whole"
      BY <2>4, <2>5, <3>2 DEF FilledInv
    <3>4. there[request[c].run] \subseteq request[c].files \cup request[c].copied
      BY <2>2, <2>4, <2>5 DEF WholeInv, WholeAt
    <3>5. /\ request'[c].files = request[c].files \ {f}
          /\ request'[c].copied = IF got[request[c].run][f] = "whole"
                                  THEN request[c].copied \cup {f} ELSE request[c].copied
      BY <2>1 DEF Becomes
    <3> QED BY <3>3, <3>4, <3>5
  <2> QED
    BY <1>0, <2>2, <2>3, <2>4, <2>5 DEF WholeInv, WholeAt
<1>17. ASSUME NEW c \in Callers, ZipClosed(c) PROVE WholeInv'
  <2>1. /\ request[c].at = "archive" /\ request[c].files = {}
        /\ request[c].run \in zip
    BY <1>17 DEF ZipClosed, RequestInv
  <2>2. /\ request'[c].run = request[c].run /\ request'[c].at = "serve"
        /\ \A d \in Callers \ {c} : request'[d] = request[d]
        /\ UNCHANGED <<zip, disturbed, there>>
        /\ \A r \in Runs \ {request[c].run} : streams'[r] = streams[r]
        /\ streams'[request[c].run] = streams[request[c].run] \cup {request[c].copied}
    BY <1>17 DEF ZipClosed, MovesTo, Becomes, StreamsChange
  <2>3. request[c].copied \in SUBSET Files
    BY DEF DiskTypeOK, RequestRecord
  <2>4. ASSUME request[c].run \notin disturbed
        PROVE  /\ streams'[request[c].run] = {request[c].copied}
               /\ there[request[c].run] \subseteq request[c].copied
    BY <2>1, <2>2, <2>4 DEF WholeInv, WholeAt
  <2>5. request[c].run \notin disturbed =>
           \A d \in Callers : request[d].run = request[c].run => d = c
    BY <1>0, <2>1 DEF AloneInv, WholeInv, WholeAt
  <2>6. \A r \in Runs \ {request[c].run} : Writing(r)' <=> Writing(r)
    BY <2>2 DEF Writing
  <2>7. ASSUME NEW r \in (zip \ disturbed) \ {request[c].run}
        PROVE  WholeAt(r)'
    <3>1. streams'[r] = streams[r] /\ there'[r] = there[r] /\ (Writing(r)' <=> Writing(r))
      BY <1>0, <2>2, <2>6
    <3>2. \A d \in Callers : request'[d].run = r => request'[d] = request[d]
      BY <2>2
    <3> QED BY <3>1, <3>2 DEF WholeInv, WholeAt
  <2>8. request[c].run \notin disturbed => WholeAt(request[c].run)'
    BY <2>2, <2>3, <2>4, <2>5 DEF WholeAt
  <2> QED BY <2>2, <2>7, <2>8 DEF WholeInv
<1>18. ASSUME NEW c \in Callers, QueuedDirMade(c) PROVE WholeInv'
  BY <1>18, <1>0, WholeStays DEF QueuedDirMade, Answered
<1>19. ASSUME NEW c \in Callers, FileSkipped(c) PROVE WholeInv'
  BY <1>19, <1>0, WholeStays DEF FileSkipped, Becomes, Quiet
<1> QED
  BY <1>1, <1>2, <1>3, <1>4, <1>5, <1>6, <1>7, <1>8, <1>9,
     <1>10, <1>11, <1>12, <1>13, <1>14, <1>15, <1>16, <1>17, <1>18, <1>19, StepKinds
  DEF Moves

-----------------------------------------------------------------------------
ArtifactsInv ==
    /\ RecordsInv /\ DiskTypeOK /\ RequestInv /\ ThereInv
    /\ OneCollectorPerRun /\ AloneInv /\ FoundInv /\ FilledInv /\ WholeInv

(* The first start of main has its agent, and nothing on disk. *)
LEMMA InitHolds ==
  ASSUME Init
  PROVE  ArtifactsInv
<1> USE ArtifactsAssumption, RecordsAssumption, IdleIs DEF Init
<1>1. RecordsInv
  BY DEF InitRecords, RecordsInv, RecordsTypeOK, ReferencesHold
<1>2. DiskTypeOK
  BY IdleTyped DEF DiskTypeOK, FileStates
<1>3. RequestInv /\ ThereInv
  BY DEF RequestInv, ThereInv, At, Collecting, Archiving
<1>4. OneCollectorPerRun /\ AloneInv /\ FoundInv
  BY DEF OneCollectorPerRun, AloneInv, FoundInv, Collecting
<1>5. FilledInv /\ WholeInv
  BY DEF FilledInv, WholeInv, WholeAt
<1> QED BY <1>1, <1>2, <1>3, <1>4, <1>5 DEF ArtifactsInv

(* The invariant of every behaviour. *)
LEMMA ArtifactsInvariant ==
  Spec => []ArtifactsInv
<1>1. ArtifactsInv /\ [Next]_vars => ArtifactsInv'
  BY StepReferences, StepTyped, StepRequests, StepThere, StepCollects, StepAlone,
     StepFound, StepFills, StepWhole
  DEF ArtifactsInv
<1> QED BY InitHolds, <1>1, PTL DEF Spec

(* Rows, files and requests keep their types, and an archive has its       *)
(* directory.                                                              *)
THEOREM ArtifactsTypeCorrect ==
  Spec => []TypeOK
<1>1. ArtifactsInv => TypeOK
  BY DEF ArtifactsInv, RecordsInv, DiskTypeOK, RequestRecord, TypeOK
<1> QED BY <1>1, ArtifactsInvariant, PTL

(* What a request read along the chain is there, unless the row it read it *)
(* from changed since: the foreign keys hold across forms that arrive late *)
(* and starts of main.                                                     *)
THEOREM ChainsHold ==
  Spec => []ChainHolds
<1>1. ArtifactsInv => ChainHolds
  BY DEF ArtifactsInv, RecordsInv, RequestInv, ReferencesHold, ChainHolds, At
<1> QED BY <1>1, ArtifactsInvariant, PTL

(* However many requests for a run overlap, fail and get lost, one of them *)
(* fills its directory.                                                    *)
THEOREM OneFillsADirectory ==
  Spec => []OneCollectorPerRun
<1>1. ArtifactsInv => OneCollectorPerRun
  BY DEF ArtifactsInv
<1> QED BY <1>1, ArtifactsInvariant, PTL

(* A download of a run whose requests did not overlap before its archive   *)
(* was closed, fail or get lost has every file that the run had finished   *)
(* when the collection began, whatever the run makes meanwhile and however *)
(* many requests come after, for any number of files.                      *)
THEOREM DownloadsHaveWhatWasThere ==
  Spec => []DownloadHasWhatWasThere
<1>1. ASSUME ArtifactsInv, NEW c \in Callers, At(c, "serve"),
             request[c].run \notin disturbed
      PROVE  Holds(request[c].run, there[request[c].run])
  <2>1. request[c].run \in zip \ disturbed /\ request[c].run \in Runs
    BY <1>1 DEF ArtifactsInv, RequestInv, At, Archiving
  <2>2. \A d \in Callers :
           request[d].run = request[c].run => request[d].at \notin Archiving
    BY <1>1, <2>1 DEF ArtifactsInv, AloneInv, FoundInv, Finding, At, Archiving
  <2>3. \E S \in SUBSET Files : /\ streams[request[c].run] = {S}
                               /\ there[request[c].run] \subseteq S
    BY <1>1, <2>1, <2>2 DEF ArtifactsInv, WholeInv, WholeAt, Writing
  <2> QED BY <2>2, <2>3 DEF Holds
<1>2. ArtifactsInv => DownloadHasWhatWasThere
  BY <1>1 DEF DownloadHasWhatWasThere
<1> QED BY <1>2, ArtifactsInvariant, PTL

(* A directory that is there and has no collector gets none: what a failed *)
(* collection left out of it stays out.                                    *)
THEOREM DirectoriesAreFilledOnce ==
  Spec => CollectedOnce
<1>1. ASSUME ArtifactsInv, [Next]_vars, NEW r \in dir, ~Filling(r)
      PROVE  ~Filling(r)'
  <2> USE <1>1, IdleIs DEF ArtifactsInv, RequestInv, Filling, At, Collecting
  <2>1. CASE UNCHANGED <<request, dir, got, zip, streams, disturbed, there>>
    BY <2>1
  <2>2. CASE Lost
    BY <2>2 DEF Lost
  <2>3. ASSUME NEW c \in Callers, Moves(c)
        PROVE  ~Filling(r)'
    <3>1. /\ \A d \in Callers \ {c} : request'[d] = request[d]
          /\ request'[c].run = request[c].run \/ request'[c].at \notin Collecting
      BY <2>3
      DEF Moves, Asking, RowRead, Ending, Failing, DirChecked, DirMade, Connected,
          FileMade, FileFilled, DirFilled, ZipChecked, ZipMade, DirWalked,
          FileArchived, ZipClosed, QueuedDirMade, FileSkipped, Making, Asks,
          Answered, MovesTo, Becomes
    <3>2. request'[c].at \in Collecting =>
              request[c].at \in Collecting \/ request[c].run \notin dir
      BY <2>3
      DEF Moves, Asking, RowRead, Ending, Failing, DirChecked, DirMade, Connected,
          FileMade, FileFilled, DirFilled, ZipChecked, ZipMade, DirWalked,
          FileArchived, ZipClosed, QueuedDirMade, FileSkipped, Making, Asks,
          Answered, MovesTo, Becomes
    <3> QED BY <3>1, <3>2
  <2> QED BY <2>1, <2>2, <2>3, StepKinds
<1>2. ArtifactsInv /\ [Next]_vars =>
         [\A r \in dir : ~Filling(r) => ~Filling(r)']_vars
  BY <1>1
<1> QED BY <1>2, ArtifactsInvariant, PTL DEF Spec, CollectedOnce
=============================================================================
