----------------------------- MODULE DevServer -----------------------------
(***************************************************************************)
(* How an agent finds the development server.  Every run of `awaithumans   *)
(* dev` takes the first free port, takes its secrets from the directory it *)
(* is started in (or makes them), writes one file in the user's home that  *)
(* names its port, its process and its admin token, and only then binds    *)
(* the port; it deletes that file on its way out.  An SDK reads the file,  *)
(* ignores it if its process is dead, and (in Python) deletes it then.     *)
(*                                                                         *)
(* One action is one access to a file or to a port.  A run is a process:   *)
(* it starts once.  The signing key and the admin token are kept in two    *)
(* files in the same way; one secret stands for each of them.              *)
(***************************************************************************)
EXTENDS Naturals

CONSTANTS
    Server,    \* runs of `awaithumans dev`
    Folder,    \* the directory of each run's secrets
    Client,    \* processes that use an SDK
    Python,    \* those that use the Python SDK; the others keep what they found
    Ports,     \* number of ports that are tried; the first one is the default
    Pid,       \* process ids
    MaxCalls,  \* bound on the calls of await_human
    NIL

ASSUME DevAssumption ==
    /\ DOMAIN Folder = Server
    /\ Python \subseteq Client
    /\ Ports \in Nat \ {0}
    /\ MaxCalls \in Nat
    /\ NIL \notin Server \union Pid
    /\ {"none", "empty", "garbled"} \intersect (Server \union {NIL}) = {}

Port == 1..Ports
Place == {Folder[s] : s \in Server}

VARIABLES
    server,     \* what each run is doing
    secret,     \* the secret file of each directory: who made what it holds
    discovery,  \* the discovery file: whose entry it holds
    linked,     \* the runs whose open handle is on that file, not on a deleted one
    client,     \* what each agent is doing
    effaced,    \* history: runs whose entry another run or a reader overwrote or deleted
    muddled,    \* history: directories whose secret two runs made at one time, or a killed
                \* run left half made, or a run read while another made it
    calls

devVars == <<server, secret, discovery, linked, client, effaced, muddled, calls>>

-----------------------------------------------------------------------------
Run == [pc    : {"off", "started", "minting", "saving", "ready", "writing", "binding",
                 "serving", "leaving", "exiting", "gone"},
        port  : Port \union {NIL},
        pid   : Pid \union {NIL},
        token : Server \union {"empty", NIL}]   \* the run that made it

Off == [pc |-> "off", port |-> NIL, pid |-> NIL, token |-> NIL]

Agent == [pc     : {"idle", "cleaning", "found", "set"},
          url    : Server \union {NIL},   \* whose URL; the default one if NIL
          from   : Server \union {NIL},   \* whose entry the token is from
          missed : SUBSET Server]          \* history: the runs that wrote their entry since
                                           \* the agent began to look

AtRest == [pc |-> "idle", url |-> NIL, from |-> NIL, missed |-> {}]

DevTypeOK ==
    /\ server \in [Server -> Run]
    /\ secret \in [Place -> Server \union {"none", "empty"}]
    /\ discovery \in Server \union {"none", "empty", "garbled"}
    /\ linked \subseteq Server
    /\ client \in [Client -> Agent]
    /\ effaced \subseteq Server
    /\ muddled \subseteq Place
    /\ calls \in 0..MaxCalls

DevInit ==
    /\ server = [s \in Server |-> Off]
    /\ secret = [f \in Place |-> "none"]
    /\ discovery = "none"
    /\ linked = {}
    /\ client = [c \in Client |-> AtRest]
    /\ effaced = {}
    /\ muddled = {}
    /\ calls = 0

Running == {s \in Server : server[s].pc \notin {"off", "gone"}}

Serving == {s \in Server : server[s].pc = "serving"}

Bound(p) == \E s \in Serving : server[s].port = p

Go(s, pc) == server' = [server EXCEPT ![s].pc = pc]

\* The run whose entry the discovery file holds, if any.
Discovered == {discovery} \intersect Server

-----------------------------------------------------------------------------
(***************************************************************************)
(* awaithumans dev.                                                        *)
(***************************************************************************)
\* _find_available_port: the first port that can be bound, and is let go again.
FirstFree(p) == ~Bound(p) /\ \A q \in Port : q < p => Bound(q)

Start(s, p, pid) ==
    /\ server[s] = Off
    /\ FirstFree(p)
    /\ \A t \in Running : server[t].pid # pid
    /\ server' = [server EXCEPT ![s] = [Off EXCEPT !.pc = "started", !.port = p, !.pid = pid]]
    /\ UNCHANGED <<secret, discovery, linked, client, effaced, muddled, calls>>

\* The runs of the same directory that are making its secret.
Making(s) == \E t \in Server : /\ Folder[t] = Folder[s]
                               /\ server[t].pc \in {"minting", "saving"}

\* Mutant: every run makes its own.
MintAlways(s) ==
    /\ server[s].pc = "started"
    /\ Go(s, "minting")
    /\ muddled' = IF Making(s) THEN muddled \union {Folder[s]} ELSE muddled
    /\ UNCHANGED <<secret, discovery, linked, client, effaced, calls>>

\* Mutant: the file is read whether it is there or not.
ReadAnyway(s) ==
    /\ server[s].pc = "started"
    /\ server' = [server EXCEPT ![s].pc = "ready", ![s].token = secret[Folder[s]]]
    /\ UNCHANGED <<secret, discovery, linked, client, effaced, muddled, calls>>

\* _ensure_dev_admin_token, _ensure_dev_payload_key: the file's content if there is a
\* file, be it empty.
ReadSecret(s) ==
    LET f == Folder[s] IN
    /\ server[s].pc = "started"
    /\ server' = [server EXCEPT ![s] = IF secret[f] = "none" THEN [@ EXCEPT !.pc = "minting"]
                                       ELSE [@ EXCEPT !.pc = "ready", !.token = secret[f]]]
    /\ muddled' = IF Making(s) THEN muddled \union {f} ELSE muddled
    /\ UNCHANGED <<secret, discovery, linked, client, effaced, calls>>

\* write_text truncates the file ...
OpenSecret(s) ==
    /\ server[s].pc = "minting"
    /\ secret' = [secret EXCEPT ![Folder[s]] = "empty"]
    /\ Go(s, "saving")
    /\ UNCHANGED <<discovery, linked, client, effaced, muddled, calls>>

\* ... and writes it.
SaveSecret(s) ==
    /\ server[s].pc = "saving"
    /\ secret' = [secret EXCEPT ![Folder[s]] = s]
    /\ server' = [server EXCEPT ![s].pc = "ready", ![s].token = s]
    /\ UNCHANGED <<discovery, linked, client, effaced, muddled, calls>>

\* Mutant: an entry that is there is left alone.
WriteOnce(s) ==
    /\ server[s].pc = "ready"
    /\ discovery' = IF discovery \in Server THEN discovery ELSE s
    /\ Go(s, "binding")
    /\ UNCHANGED <<secret, linked, client, effaced, muddled, calls>>

\* write_discovery, in the same two steps.
OpenDiscovery(s) ==
    /\ server[s].pc = "ready"
    /\ discovery' = "empty"
    /\ linked' = linked \union {s}
    /\ Go(s, "writing")
    /\ effaced' = effaced \union Discovered
    /\ UNCHANGED <<secret, client, muddled, calls>>

\* Two that write one file at one time may leave the end of the longer entry; a handle
\* on a deleted file writes to nobody.
WriteDiscovery(s) ==
    /\ server[s].pc = "writing"
    /\ discovery' \in IF s \notin linked THEN {discovery}
                      ELSE IF discovery = "empty" THEN {s}
                      ELSE {s, "garbled"}
    /\ linked' = linked \ {s}
    /\ Go(s, "binding")
    /\ effaced' = effaced \union (IF s \in linked THEN Discovered ELSE {})
                          \union (IF discovery' = "garbled" THEN {s} ELSE {})
    /\ client' = [c \in Client |-> IF client[c].pc = "idle" THEN client[c]
                                   ELSE [client[c] EXCEPT !.missed = @ \union {s}]]
    /\ UNCHANGED <<secret, muddled, calls>>

\* uvicorn.run: the port may be taken by now.
Bind(s) ==
    /\ server[s].pc = "binding"
    /\ Go(s, IF Bound(server[s].port) THEN "leaving" ELSE "serving")
    /\ UNCHANGED <<secret, discovery, linked, client, effaced, muddled, calls>>

Stop(s) ==
    /\ server[s].pc = "serving"
    /\ Go(s, "leaving")
    /\ UNCHANGED <<secret, discovery, linked, client, effaced, muddled, calls>>

\* delete_discovery, whoever's entry it is.
Unlink == /\ discovery' = "none"
          /\ linked' = {}
          /\ effaced' = effaced \union Discovered \union linked

\* In the finally clause, and once more at exit.
Leave(s) ==
    /\ server[s].pc \in {"leaving", "exiting"}
    /\ Unlink
    /\ Go(s, IF server[s].pc = "leaving" THEN "exiting" ELSE "gone")
    /\ UNCHANGED <<secret, client, muddled, calls>>

\* A killed run cleans nothing up.
Kill(s) ==
    /\ s \in Running
    /\ Go(s, "gone")
    /\ linked' = linked \ {s}
    /\ muddled' = IF server[s].pc = "saving" THEN muddled \union {Folder[s]} ELSE muddled
    /\ UNCHANGED <<secret, discovery, client, effaced, calls>>

Dev(s) == \/ ReadSecret(s) \/ OpenSecret(s) \/ SaveSecret(s) \/ OpenDiscovery(s) \/ WriteDiscovery(s)
          \/ Bind(s) \/ Stop(s) \/ Leave(s) \/ Kill(s)
          \/ \E p \in Port, pid \in Pid : Start(s, p, pid)

-----------------------------------------------------------------------------
(***************************************************************************)
(* The SDKs.                                                               *)
(***************************************************************************)
\* os.kill(pid, 0), process.kill(pid, 0): some process has that id.
Alive(s) == \E t \in Running : server[t].pid = server[s].pid

\* The entry an SDK goes by; none if the file is not there, does not parse, or names a
\* dead process.
Entry == IF discovery \in Server THEN IF Alive(discovery) THEN discovery ELSE NIL ELSE NIL

Stale == discovery \in Server /\ ~Alive(discovery)

Begin(c) == client[c] = AtRest /\ calls < MaxCalls

\* resolve_server_url: the URL, of a server or the default one; a stale file is deleted
\* in a second step.
ResolveUrl(c) ==
    /\ c \in Python
    /\ Begin(c)
    /\ client' = [client EXCEPT ![c] = [AtRest EXCEPT !.pc = IF Stale THEN "cleaning" ELSE "found",
                                                    !.url = Entry]]
    /\ calls' = calls + 1
    /\ UNCHANGED <<server, secret, discovery, linked, effaced, muddled>>

CleanUp(c) ==
    /\ client[c].pc = "cleaning"
    /\ Unlink
    /\ client' = [client EXCEPT ![c].pc = "found"]
    /\ UNCHANGED <<server, secret, muddled, calls>>

\* resolve_admin_token reads the file anew; if it is stale by now, it is deleted, too.
ResolveToken(c) ==
    /\ c \in Python
    /\ client[c].pc = "found"
    /\ IF Stale
       THEN client' = [client EXCEPT ![c].pc = "cleaning"]
       ELSE client' = [client EXCEPT ![c].pc = "set", ![c].from = Entry]
    /\ UNCHANGED <<server, secret, discovery, linked, effaced, muddled, calls>>

\* resolveDiscoveryConfig: one read for both, kept for as long as the process lives.
ResolveConfig(c) ==
    /\ c \notin Python
    /\ Begin(c)
    /\ client' = [client EXCEPT ![c] = [AtRest EXCEPT !.pc = "set", !.url = Entry, !.from = Entry]]
    /\ calls' = calls + 1
    /\ UNCHANGED <<server, secret, discovery, linked, effaced, muddled>>

\* POST /api/tasks; the next call of a Python program looks again.
Call(c) ==
    /\ client[c].pc = "set"
    /\ c \in Python
    /\ client' = [client EXCEPT ![c] = AtRest]
    /\ UNCHANGED <<server, secret, discovery, linked, effaced, muddled, calls>>

Sdk(c) == ResolveUrl(c) \/ CleanUp(c) \/ ResolveToken(c) \/ ResolveConfig(c) \/ Call(c)

DevNext == (\E s \in Server : Dev(s)) \/ (\E c \in Client : Sdk(c))

DevSpec == DevInit /\ [][DevNext]_devVars

-----------------------------------------------------------------------------
UrlPort(c) == IF client[c].url = NIL THEN 1 ELSE server[client[c].url].port

Token(c) == IF client[c].from = NIL THEN NIL ELSE server[client[c].from].token

\* The call arrives, and its bearer is the one the server was started with.
GetsThrough(c, s) == /\ UrlPort(c) = server[s].port
                     /\ Token(c) = server[s].token
                     /\ Token(c) # "empty"

\* An agent gets through to the run that serves, whatever entries earlier runs left behind
\* and whoever has their process ids now, except where it is known why not: the run's
\* entry was overwritten, garbled or deleted by another run, or deleted by a reader that
\* had looked at an older one; or it was written after the agent began to look; or the
\* run's secret is one that SecretsAreShared excepts.
ServersAreFound ==
    \A c \in Client, s \in Serving :
        client[c].pc = "set"
        => GetsThrough(c, s) \/ s \in effaced \/ s \in client[c].missed \/ Folder[s] \in muddled

\* The runs of one directory, at one time or one after the other, share its secrets, so
\* that cookies, links and tokens outlive a restart: unless two runs made them at one
\* time, or a run was killed between truncating the file and writing it, or a run read
\* the file while it was truncated.
SecretsAreShared ==
    \A s \in Serving : \/ server[s].token = secret[Folder[s]] /\ server[s].token # "empty"
                       \/ Folder[s] \in muddled
=============================================================================
