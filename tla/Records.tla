------------------------------ MODULE Records ------------------------------
(***************************************************************************)
(* Credentials, agents and pipelines as rows that refer to each other      *)
(* (internal/handler/credentials.go, agents.go and pipelines.go, their     *)
(* services and stores).  The forms carry ids of rows that may be gone     *)
(* when they arrive; the foreign keys of the schema refuse what would      *)
(* leave a reference without its row.  A delete handler reads the row only *)
(* to say that it is not there: the statement that deletes decides.        *)
(***************************************************************************)
EXTENDS Naturals, FiniteSets

CONSTANTS Credentials, Agents, Pipelines,  \* ids: autoincrement, never reused
          NoCredential, NoAgent

ASSUME RecordsAssumption ==
    NoCredential \notin Credentials /\ NoAgent \notin Agents

VARIABLES
    fresh,         \* ids of every kind that no row had yet
    credentials,   \* rows of each table
    agents,
    pipelines,
    credentialOf,  \* agents.agent_credential_id
    localhost,     \* agents named "Localhost", at most one (name is unique)
    agentOf        \* pipelines.pipeline_agent_id

agentRows    == <<agents, credentialOf, localhost>>
pipelineRows == <<pipelines, agentOf>>
records      == <<fresh, credentials, agentRows, pipelineRows>>

(* The insert of an agent: it may take the name "Localhost" if no row has  *)
(* it, and a taken name is refused.                                        *)
InsertAgent(a, c) ==
    /\ a \in fresh
    /\ agents' = agents \cup {a} /\ fresh' = fresh \ {a}
    /\ credentialOf' = [credentialOf EXCEPT ![a] = c]
    /\ UNCHANGED <<credentials, pipelineRows>>

Rename(a) == \/ UNCHANGED localhost
             \/ localhost' = localhost \ {a}
             \/ localhost = {} /\ localhost' = {a}

(* CreateControllerAgent: an agent without a credential, at every start    *)
(* unless one has its name.                                                *)
CreateControllerAgent ==
    \/ /\ localhost = {}
       /\ \E a \in Agents : InsertAgent(a, NoCredential) /\ localhost' = {a}
    \/ /\ localhost # {}
       /\ UNCHANGED records

(* The first start of main on an empty database. *)
InitRecords ==
    \E a \in Agents :
       /\ agents = {a} /\ localhost = {a}
       /\ fresh = (Credentials \cup Agents \cup Pipelines) \ {a}
       /\ credentials = {} /\ pipelines = {}
       /\ credentialOf = [b \in Agents |-> NoCredential]
       /\ agentOf = [p \in Pipelines |-> NoAgent]

-----------------------------------------------------------------------------
CreateCredential(c) ==
    /\ c \in fresh
    /\ credentials' = credentials \cup {c} /\ fresh' = fresh \ {c}
    /\ UNCHANGED <<agentRows, pipelineRows>>

(* Mutant: the store does not look at the agents. *)
DropCredential(c) ==
    /\ c \in credentials
    /\ credentials' = credentials \ {c}
    /\ UNCHANGED <<fresh, agentRows, pipelineRows>>

(* "credential is in use": on delete restrict. *)
InUse(c) == \E a \in agents : credentialOf[a] = c

DeleteCredential(c) ==
    /\ c \in credentials /\ ~InUse(c)
    /\ credentials' = credentials \ {c}
    /\ UNCHANGED <<fresh, agentRows, pipelineRows>>

CreateAgent(a, c) ==
    /\ c \in credentials
    /\ InsertAgent(a, c) /\ Rename(a)

(* The form always carries a credential, also for the controller's agent,  *)
(* and may change the name; it may be the form of an agent that is gone.   *)
UpdateAgent(a, c) ==
    /\ a \in agents /\ c \in credentials
    /\ credentialOf' = [credentialOf EXCEPT ![a] = c]
    /\ Rename(a)
    /\ UNCHANGED <<fresh, credentials, agents, pipelineRows>>

(* on delete restrict: "agent is in use". *)
DeleteAgent(a) ==
    /\ a \in agents
    /\ \A p \in pipelines : agentOf[p] # a
    /\ agents' = agents \ {a} /\ localhost' = localhost \ {a}
    /\ credentialOf' = [credentialOf EXCEPT ![a] = NoCredential]
    /\ UNCHANGED <<fresh, credentials, pipelineRows>>

CreatePipeline(p, a) ==
    /\ p \in fresh /\ a \in agents
    /\ pipelines' = pipelines \cup {p} /\ fresh' = fresh \ {p}
    /\ agentOf' = [agentOf EXCEPT ![p] = a]
    /\ UNCHANGED <<credentials, agentRows>>

UpdatePipeline(p, a) ==
    /\ p \in pipelines /\ a \in agents
    /\ agentOf' = [agentOf EXCEPT ![p] = a]
    /\ UNCHANGED <<fresh, credentials, agentRows, pipelines>>

DeletePipeline(p) ==
    /\ p \in pipelines
    /\ pipelines' = pipelines \ {p}
    /\ agentOf' = [agentOf EXCEPT ![p] = NoAgent]
    /\ UNCHANGED <<fresh, credentials, agentRows>>

ChangeRecords ==
    \/ \E c \in Credentials : CreateCredential(c) \/ DeleteCredential(c)
    \/ \E a \in Agents : \/ DeleteAgent(a)
                         \/ \E c \in Credentials : CreateAgent(a, c)
                                                   \/ UpdateAgent(a, c)
    \/ \E p \in Pipelines : \/ DeletePipeline(p)
                            \/ \E a \in Agents : CreatePipeline(p, a)
                                                 \/ UpdatePipeline(p, a)

-----------------------------------------------------------------------------
RecordsTypeOK ==
    /\ fresh \subseteq Credentials \cup Agents \cup Pipelines
    /\ credentials \subseteq Credentials
    /\ agents \subseteq Agents /\ pipelines \subseteq Pipelines
    /\ credentialOf \in [Agents -> Credentials \cup {NoCredential}]
    /\ agentOf \in [Pipelines -> Agents \cup {NoAgent}]
    /\ localhost \subseteq agents

(* Every reference has its row: an agent its credential, unless it has     *)
(* none, and a pipeline its agent, whatever forms arrive late.             *)
ReferencesHold ==
    /\ \A a \in agents : credentialOf[a] \in credentials \cup {NoCredential}
    /\ \A p \in pipelines : agentOf[p] \in agents
=============================================================================
