--------------------------------- MODULE Hub ---------------------------------
(***************************************************************************)
(* The WebSocket hub (routers/websocket.py): a set of connections and a    *)
(* broadcast that sends one message after another to a copy of it, with an *)
(* await at each.  Clients come and go between two sends.  The monitor,    *)
(* the only caller, awaits each broadcast before the next.                 *)
(*                                                                         *)
(* Messages are numbered in the order of their broadcasts; `heard` is a    *)
(* history variable.  A client's own pings are left out.                   *)
(***************************************************************************)
EXTENDS Integers, Sequences, FiniteSets

CONSTANTS
    Socket,         \* connections; one that has ended is not used again
    MaxMessages     \* bound: broadcasts

ASSUME HubAssumption == MaxMessages \in Nat

VARIABLES
    active,     \* active_connections
    open,       \* the sockets whose client is there
    ended,      \* the sockets that were open once and are not any more
    message,    \* the number of broadcasts begun with somebody connected
    sending,    \* the connections of the copy that are still to be sent to
    dead,       \* dead_connections of the broadcast
    since,      \* history: the number of broadcasts begun when a socket was added
    heard       \* history: the messages each socket was sent

hubVars == <<active, open, ended, message, sending, dead, since, heard>>

HubTypeOK ==
    /\ active \subseteq Socket /\ open \subseteq Socket /\ ended \subseteq Socket
    /\ message \in Nat
    /\ sending \subseteq Socket /\ dead \subseteq Socket
    /\ since \in [Socket -> Nat]
    /\ heard \in [Socket -> Seq(Nat)]

Idle == sending = {} /\ dead = {}

-----------------------------------------------------------------------------
\* manager.connect: accepted and added.
Connect(s) ==
    /\ s \notin open \cup ended
    /\ open' = open \cup {s}
    /\ active' = active \cup {s}
    /\ since' = [since EXCEPT ![s] = message]
    /\ UNCHANGED <<ended, message, sending, dead, heard>>

\* The client goes; its endpoint finds out later, and a send to it fails.
Vanish(s) ==
    /\ s \in open
    /\ open' = open \ {s}
    /\ ended' = ended \cup {s}
    /\ UNCHANGED <<active, message, sending, dead, since, heard>>

\* The endpoint's receive raises: manager.disconnect.
Disconnect(s) ==
    /\ s \in ended /\ s \in active
    /\ active' = active \ {s}
    /\ UNCHANGED <<open, ended, message, sending, dead, since, heard>>

\* broadcast: nothing without connections, else a copy of the set.
Broadcast ==
    /\ Idle
    /\ active # {}
    /\ message < MaxMessages
    /\ message' = message + 1
    /\ sending' = active
    /\ UNCHANGED <<active, open, ended, dead, since, heard>>

Deliver(s) ==
    IF s \in open
    THEN heard' = [heard EXCEPT ![s] = Append(@, message)] /\ UNCHANGED dead
    ELSE dead' = dead \cup {s} /\ UNCHANGED heard

Send_LiveSet(s) ==
    /\ s \in sending
    /\ IF s \in active
       THEN Deliver(s) /\ sending' = sending \ {s}
       ELSE sending' = {} /\ UNCHANGED <<heard, dead>>
    /\ UNCHANGED <<active, open, ended, message, since>>

\* send_text, in any order; a failure puts the connection on the list of the dead.
Send(s) ==
    /\ s \in sending
    /\ Deliver(s)
    /\ sending' = sending \ {s}
    /\ UNCHANGED <<active, open, ended, message, since>>

\* The end of broadcast: the dead are taken out of the set.
Bury ==
    /\ sending = {} /\ dead # {}
    /\ active' = active \ dead
    /\ dead' = {}
    /\ UNCHANGED <<open, ended, message, sending, since, heard>>

\* The process ends: every connection breaks, the hub of the next one is empty.
HubLost ==
    /\ ended' = ended \cup open
    /\ open' = {} /\ active' = {} /\ sending' = {} /\ dead' = {}
    /\ UNCHANGED <<message, since, heard>>

HubInit ==
    /\ active = {} /\ open = {} /\ ended = {}
    /\ message = 0 /\ sending = {} /\ dead = {}
    /\ since = [s \in Socket |-> 0]
    /\ heard = [s \in Socket |-> <<>>]

HubNext ==
    \/ \E s \in Socket : Connect(s) \/ Vanish(s) \/ Disconnect(s) \/ Send(s)
    \/ Broadcast \/ Bury \/ HubLost

HubSpec == HubInit /\ [][HubNext]_hubVars

-----------------------------------------------------------------------------
\* A client that is connected has been sent every message whose broadcast began after
\* it joined, each once, in order and none between, whatever others do meanwhile;
\* only the one that is being broadcast may still be on its way to it.
NothingMissed ==
    \A s \in open :
        LET due == message - since[s] - (IF s \in sending THEN 1 ELSE 0)
        IN  /\ s \in active
            /\ Len(heard[s]) = due
            /\ \A k \in 1 .. Len(heard[s]) : heard[s][k] = since[s] + k
=============================================================================
