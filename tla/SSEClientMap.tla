---------------------------- MODULE SSEClientMap ----------------------------
(***************************************************************************)
(* Live updates of a pipeline: the map of client channels                  *)
(* (internal/service/sse_client_map.go), the pump goroutine of the worker  *)
(* that sends every message to every client under the map's mutex, and the *)
(* request handlers that register, poll and unregister a client            *)
(* (GetPipelineRunOutput, GetPipelineRunStatus, GetPipelineRunSSE).  The   *)
(* n-th message of the pump is the number n.                               *)
(***************************************************************************)
EXTENDS Naturals, Sequences

CONSTANTS Clients,      \* request handlers, one per event stream
          Nobody,       \* no client
          MaxMessages   \* bound: messages of the pump

ASSUME ClientMapAssumption ==
    /\ Nobody \notin Clients /\ "pump" \notin Clients \cup {Nobody}
    /\ MaxMessages \in Nat

VARIABLES
    holder,     \* who holds cm.m: Nobody, "pump" or a client's handler
    clients,    \* keys of cm.clients
    sent,       \* messages the pump took up so far
    pending,    \* clients the pump's loop has not come to
    target,     \* the client whose channel the pump is sending on
    state,      \* of each handler: see States
    connected,  \* the clients whose request context is not done
    received,   \* messages each handler wrote to its stream
    since,      \* history: messages taken up when the client was added
    fatal       \* the runtime found a map read during a map write

pump     == <<sent, pending, target>>
handlers == <<state, connected, received, since>>
vars == <<holder, clients, pump, handlers, fatal>>

(* "adding" and "removing" wait for the mutex, "inAdd" and "inRemove" hold *)
(* it; "polling" is at the select and "asleep" in its default case.        *)
States == {"new", "adding", "inAdd", "polling", "asleep", "removing",
           "inRemove", "closed"}

Init ==
    /\ holder = Nobody /\ clients = {}
    /\ sent = 0 /\ pending = {} /\ target = Nobody
    /\ state = [c \in Clients |-> "new"]
    /\ connected = Clients
    /\ received = [c \in Clients |-> <<>>]
    /\ since = [c \in Clients |-> 0]
    /\ fatal = FALSE

-----------------------------------------------------------------------------
(* The pump: handleOutput's and handleStatus's call of SendToClients.      *)

(* Mutant: the map is ranged over without its mutex. *)
SendToClientsUnlocked ==
    /\ ~fatal /\ holder # "pump" /\ sent < MaxMessages
    /\ holder' = "pump"
    /\ sent' = sent + 1 /\ pending' = clients
    /\ UNCHANGED <<clients, target, handlers, fatal>>

SendToClients ==
    /\ ~fatal /\ holder = Nobody /\ sent < MaxMessages
    /\ holder' = "pump"
    /\ sent' = sent + 1 /\ pending' = clients
    /\ UNCHANGED <<clients, target, handlers, fatal>>

(* Mutant: a client that is not receiving at once is passed over. *)
NextClientInPassing ==
    /\ holder = "pump" /\ target = Nobody
    /\ \E c \in pending :
          /\ pending' = pending \ {c}
          /\ target' = IF state[c] = "polling" THEN c ELSE Nobody
    /\ UNCHANGED <<holder, clients, sent, handlers, fatal>>

(* The range over the map comes to its clients in any order, and stays     *)
(* with one until its handler receives.                                    *)
NextClient ==
    /\ holder = "pump" /\ target = Nobody
    /\ \E c \in pending : target' = c /\ pending' = pending \ {c}
    /\ UNCHANGED <<holder, clients, sent, handlers, fatal>>

SendReturns ==
    /\ holder = "pump" /\ target = Nobody /\ pending = {}
    /\ holder' = Nobody
    /\ UNCHANGED <<clients, pump, handlers, fatal>>

-----------------------------------------------------------------------------
(* A request handler. *)

Become(c, s) == state' = [state EXCEPT ![c] = s]

Lock(c, from, to) ==
    /\ state[c] = from /\ holder = Nobody
    /\ holder' = c /\ Become(c, to)
    /\ UNCHANGED <<clients, pump, connected, received, since, fatal>>

Open(c) ==
    /\ state[c] = "new" /\ Become(c, "adding")
    /\ UNCHANGED <<holder, clients, pump, connected, received, since, fatal>>

AddClient(c) == Lock(c, "adding", "inAdd")

ClientAdded(c) ==
    /\ state[c] = "inAdd" /\ Become(c, "polling")
    /\ clients' = clients \cup {c}
    /\ since' = [since EXCEPT ![c] = sent]
    /\ holder' = Nobody
    /\ UNCHANGED <<pump, connected, received, fatal>>

(* The three cases of the select; both channels may be ready.              *)
Receive(c) ==
    /\ state[c] = "polling" /\ target = c
    /\ received' = [received EXCEPT ![c] = Append(@, sent)]
    /\ target' = Nobody
    /\ UNCHANGED <<holder, clients, sent, pending, state, connected, since,
                   fatal>>

Leave(c) ==
    /\ state[c] = "polling" /\ c \notin connected
    /\ Become(c, "removing")
    /\ UNCHANGED <<holder, clients, pump, connected, received, since, fatal>>

(* Mutant: a handler that finds nothing returns, and never unregisters.    *)
GiveUp(c) ==
    /\ state[c] = "polling" /\ target # c /\ c \in connected
    /\ Become(c, "closed")
    /\ UNCHANGED <<holder, clients, pump, connected, received, since, fatal>>

Sleep(c) ==
    /\ state[c] = "polling" /\ target # c /\ c \in connected
    /\ Become(c, "asleep")
    /\ UNCHANGED <<holder, clients, pump, connected, received, since, fatal>>

Wake(c) ==
    /\ state[c] = "asleep" /\ Become(c, "polling")
    /\ UNCHANGED <<holder, clients, pump, connected, received, since, fatal>>

(* GetClient, evaluated with the select, reads the map without the mutex.  *)
(* The runtime may find out, and ends the process and every stream.        *)
MapRace(c) ==
    /\ state[c] = "polling"
    /\ \E d \in Clients \ {c} : state[d] \in {"inAdd", "inRemove"}
    /\ fatal' = TRUE
    /\ holder' = Nobody /\ clients' = {} /\ pending' = {} /\ target' = Nobody
    /\ state' = [d \in Clients |-> "closed"]
    /\ UNCHANGED <<sent, connected, received, since>>

(* Mutant: the channel is closed without the mutex. *)
RemoveClientUnlocked(c) ==
    /\ state[c] = "removing" /\ Become(c, "inRemove")
    /\ UNCHANGED <<holder, clients, pump, connected, received, since, fatal>>

RemoveClient(c) == Lock(c, "removing", "inRemove")

ClientRemoved(c) ==
    /\ state[c] = "inRemove" /\ Become(c, "closed")
    /\ clients' = clients \ {c}
    /\ holder' = Nobody
    /\ UNCHANGED <<pump, connected, received, since, fatal>>

(* The browser closes the stream: the request's context is done. *)
Disconnect(c) ==
    /\ c \in connected
    /\ connected' = connected \ {c}
    /\ UNCHANGED <<holder, clients, pump, state, received, since, fatal>>

-----------------------------------------------------------------------------
Pump == SendToClients \/ NextClient \/ SendReturns
Handler(c) == \/ AddClient(c) \/ ClientAdded(c)
              \/ Receive(c) \/ Leave(c) \/ Sleep(c) \/ Wake(c)
              \/ RemoveClient(c) \/ ClientRemoved(c)

Next == \/ Pump
        \/ \E c \in Clients : \/ Open(c) \/ Handler(c)
                              \/ MapRace(c) \/ Disconnect(c)

(* Goroutines run and sleeps end; the mutex wakes its waiters in turn, so  *)
(* a handler that waits for it gets it if it becomes free again and again. *)
Spec == /\ Init /\ [][Next]_vars
        /\ WF_vars(Pump)
        /\ \A c \in Clients : /\ WF_vars(Handler(c))
                              /\ SF_vars(AddClient(c) \/ RemoveClient(c))

-----------------------------------------------------------------------------
TypeOK ==
    /\ holder \in Clients \cup {Nobody, "pump"}
    /\ clients \subseteq Clients /\ pending \subseteq Clients
    /\ sent \in 0 .. MaxMessages
    /\ target \in Clients \cup {Nobody}
    /\ state \in [Clients -> States]
    /\ \A c \in Clients : holder = c <=> state[c] \in {"inAdd", "inRemove"}
    /\ connected \subseteq Clients
    /\ \A c \in Clients : received[c] \in Seq(1 .. MaxMessages)
    /\ since \in [Clients -> 0 .. MaxMessages]
    /\ fatal \in BOOLEAN

(* A stream shows every message from the registration on, in order, none   *)
(* twice: while the pump is not sending, a registered client has them all. *)
NoGapNoRepeat ==
    \A c \in Clients :
        /\ received[c] = [i \in 1 .. Len(received[c]) |-> since[c] + i]
        /\ (c \in clients /\ holder # "pump")
               => since[c] + Len(received[c]) = sent

(* The pump never sends on the channel of a client that is gone: a send on *)
(* a closed channel would bring the process down.                          *)
SendsToOpenChannels ==
    holder = "pump" => pending \cup ({target} \cap Clients) \subseteq clients

(* As long as no browser leaves, SendToClients returns, and with it the    *)
(* run goes on, however many pages watch it and however they sleep.        *)
PumpReturns ==
    (holder = "pump") ~> (holder # "pump" \/ connected # Clients)

-----------------------------------------------------------------------------
(* readme.md:24, "viewing build logs in real-time": a message the pump     *)
(* took up reaches the pages that are still watching.                      *)
LogsAreLive ==
    \A c \in Clients :
        (c \in clients \cap connected /\ since[c] + Len(received[c]) < sent)
            ~> (since[c] + Len(received[c]) = sent \/ c \notin connected \/ fatal)
=============================================================================
