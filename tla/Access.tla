------------------------------- MODULE Access -------------------------------
(***************************************************************************)
(* What lets a caller in, and for how long.  A session cookie carries the  *)
(* user's id and whether the user is an operator, and is believed without  *)
(* a look at the directory until it expires; passwords (behind a sliding-  *)
(* window limiter) and signed links out of Slack and e-mail earn one.  A   *)
(* service key mints tokens for embedding one task, believed in the same   *)
(* way.  Meanwhile operators change the directory and revoke keys.         *)
(*                                                                         *)
(* One action is one database transaction with what the code does until    *)
(* the next one.  A tick is a unit of the lifetimes.                       *)
(***************************************************************************)
EXTENDS Naturals, Sequences, FiniteSetsExt, TaskViews

CONSTANTS
    Password,     \* the users who have a password
    Address,      \* client IP addresses
    Key,          \* service keys
    Request,      \* requests in progress at one time
    Limit,        \* attempts an address (LOGIN_PER_IP) or an account has in a window
    Window,       \* the width of the window
    SessionTtl,   \* the lifetime of a session
    LinkDeadline, \* when the signed links expire: the task's timeout_at
    AdminToken,   \* whether ADMIN_API_TOKEN is set
    Origin,       \* the parent origins that callers ask embed tokens for
    Allowlist,    \* EMBED_PARENT_ORIGINS
    Ask,          \* the lifetimes that callers ask embed tokens to have, 0 for none
    DefaultTtl,   \* EMBED_TOKEN_DEFAULT_TTL_SECONDS
    MinTtl,       \* EMBED_TOKEN_MIN_TTL_SECONDS
    MaxTtl,       \* EMBED_TOKEN_MAX_TTL_SECONDS
    Leeway,       \* EMBED_TOKEN_LEEWAY_SECONDS
    MaxTime,      \* bound on the clock
    MaxChanges    \* bound on the changes to the directory

ASSUME AccessAssumption ==
    /\ Password \subseteq User
    /\ Address \intersect User = {}
    /\ {Limit, Window, Leeway} \subseteq Nat \ {0}
    /\ {SessionTtl, LinkDeadline, DefaultTtl, MinTtl, MaxTtl, MaxTime, MaxChanges}
          \subseteq Nat
    /\ MinTtl <= MaxTtl
    /\ AdminToken \in BOOLEAN
    /\ Ask \subseteq Nat

VARIABLES
    now,
    user,      \* the users table, as far as it decides who gets in
    key,       \* the service keys table
    sessions,  \* cookies that have not expired
    embeds,    \* embed tokens that have not expired
    hits,      \* the limiter's lists, in the server's memory
    request,   \* what each request is doing
    ledAt,     \* history: when each user was last an operator
    revokedAt, \* history: when each key was revoked
    slow,      \* history: whose credential was signed from a row read before a change
    admitted,  \* history: the attempts let through from each address since the server
               \* started
    changes

vars == <<now, user, key, sessions, embeds, hits, request, ledAt, revokedAt, slow,
          admitted, changes>>
records == <<user, key, ledAt, revokedAt, changes>>
limiter == <<hits, admitted>>

-----------------------------------------------------------------------------
Row == [active : BOOLEAN, operator : BOOLEAN]

Leads(u) == user[u].active /\ user[u].operator

Session == [user : User, operator : BOOLEAN, expires : Nat]

Embed == [key : Key, expires : Nat]

Pending == [pc       : {"idle", "knocking", "linked", "keyed"},
            user     : User \union {NONE},
            operator : BOOLEAN,           \* as the row said
            key      : Key \union {NONE}]

Idle == [pc |-> "idle", user |-> NONE, operator |-> FALSE, key |-> NONE]

Attempt == [at : Nat, nth : Nat]   \* attempts of one instant are told apart by a number

TypeOK ==
    /\ now \in 0..MaxTime
    /\ user \in [User -> Row]
    /\ key \in [Key -> {"unused", "live", "revoked"}]
    /\ sessions \subseteq Session
    /\ embeds \subseteq Embed
    /\ hits \in [Address \union User -> SUBSET Attempt]
    /\ request \in [Request -> Pending]
    /\ ledAt \in [User -> Nat]
    /\ revokedAt \in [Key -> Nat]
    /\ slow \subseteq User \union Key
    /\ admitted \in [Address -> SUBSET Attempt]
    /\ changes \in 0..MaxChanges

Init ==
    /\ now = 0
    /\ user \in [User -> [active : {TRUE}, operator : BOOLEAN]]
    /\ key = [k \in Key |-> "unused"]
    /\ sessions = {}
    /\ embeds = {}
    /\ hits = [w \in Address \union User |-> {}]
    /\ request = [c \in Request |-> Idle]
    /\ ledAt = [u \in User |-> 0]
    /\ revokedAt = [k \in Key |-> 0]
    /\ slow = {}
    /\ admitted = [a \in Address |-> {}]
    /\ changes = 0

Done(c) == request' = [request EXCEPT ![c] = Idle]

-----------------------------------------------------------------------------
(***************************************************************************)
(* RateLimiter.                                                            *)
(***************************************************************************)
\* Mutant: a hit leaves the window one unit early.
TrimmedEarly(s) == {h \in s : h.at + Window > now + 1}

\* The hits still in the window: later than now - Window.
Trimmed(s) == {h \in s : h.at + Window > now}

Allowed(w) == Cardinality(Trimmed(hits[w])) < Limit

\* One more attempt than those of this instant.
Another(s) == [at |-> now, nth |-> 1 + Cardinality({h \in s : h.at = now})]

Hit(s) == Trimmed(s) \union {Another(s)}

-----------------------------------------------------------------------------
(***************************************************************************)
(* Signing in.                                                             *)
(***************************************************************************)
\* verify_session: a cookie is believed until its expiry, and at that instant still.
Believed(s) == s.expires >= now

\* require_admin, on what the dashboard's middleware found: the admin token, or a cookie
\* that says operator.
AsAutomation == AdminToken

AsOperator == \E s \in sessions : Believed(s) /\ s.operator

MayAdminister == AsAutomation \/ AsOperator

\* sign_session.
SignSession(u, operator) ==
    sessions' = sessions \union {[user |-> u, operator |-> operator, expires |-> now + SessionTtl]}

\* login: the limiter of the address, then the one of the account.
Knock(c, u, a) ==
    /\ request[c] = Idle
    /\ Allowed(a)
    /\ IF Allowed(u)
       THEN /\ hits' = [hits EXCEPT ![a] = Hit(@), ![u] = Hit(@)]
            /\ request' = [request EXCEPT ![c] = [Idle EXCEPT !.pc = "knocking", !.user = u]]
            /\ admitted' = [admitted EXCEPT ![a] = @ \union {Another(hits[a])}]
       ELSE /\ hits' = [hits EXCEPT ![a] = Hit(@)]
            /\ UNCHANGED <<request, admitted>>
    /\ UNCHANGED <<now, records, sessions, embeds, slow>>

\* The right password of an active user: the account's hits are forgotten.
Enter(c) ==
    LET u == request[c].user IN
    /\ request[c].pc = "knocking"
    /\ user[u].active
    /\ u \in Password
    /\ hits' = [hits EXCEPT ![u] = {}]
    /\ SignSession(u, user[u].operator)
    /\ Done(c)
    /\ UNCHANGED <<now, records, embeds, slow, admitted>>

\* One 401 for a wrong password, an inactive account and an account without one.
Reject(c) ==
    /\ request[c].pc = "knocking"
    /\ Done(c)
    /\ UNCHANGED <<now, records, sessions, embeds, limiter, slow>>

\* verify_handoff: good at its deadline still.
LinkHolds == now <= LinkDeadline

\* slack_handoff: an unexpired link of an active user is a session at once.
SlackHandoff(u) ==
    /\ LinkHolds
    /\ user[u].active
    /\ SignSession(u, user[u].operator)
    /\ UNCHANGED <<now, records, embeds, limiter, request, slow>>

\* email_handoff reads the user, then claims the task for the user ...
EmailHandoff(c, u) ==
    /\ request[c] = Idle
    /\ LinkHolds
    /\ user[u].active
    /\ request' = [request EXCEPT ![c] = [Idle EXCEPT !.pc = "linked", !.user = u,
                                                      !.operator = user[u].operator]]
    /\ UNCHANGED <<now, records, sessions, embeds, limiter, slow>>

\* ... and signs what it read.
FinishHandoff(c) ==
    LET u == request[c].user IN
    /\ request[c].pc = "linked"
    /\ SignSession(u, request[c].operator)
    /\ slow' = IF request[c].operator /\ ~Leads(u) THEN slow \union {u} ELSE slow
    /\ Done(c)
    /\ UNCHANGED <<now, records, embeds, limiter>>

\* The cookie is deleted.
Logout(s) ==
    /\ sessions' = sessions \ {s}
    /\ UNCHANGED <<now, records, embeds, limiter, request, slow>>

SignIn(c) == Enter(c) \/ Reject(c) \/ FinishHandoff(c)
             \/ \E u \in User : EmailHandoff(c, u) \/ \E a \in Address : Knock(c, u, a)

-----------------------------------------------------------------------------
(***************************************************************************)
(* Embedding a task.                                                       *)
(***************************************************************************)
CreateKey(k) ==
    /\ key[k] = "unused"
    /\ key' = [key EXCEPT ![k] = "live"]
    /\ UNCHANGED <<now, user, ledAt, revokedAt, changes, sessions, embeds, limiter, request, slow>>

RevokeKey(k) ==
    /\ key[k] = "live"
    /\ key' = [key EXCEPT ![k] = "revoked"]
    /\ revokedAt' = [revokedAt EXCEPT ![k] = now]
    /\ UNCHANGED <<now, user, ledAt, changes, sessions, embeds, limiter, request, slow>>

\* verify_service_key reads the row.
ReadKey(c, k) ==
    /\ request[c] = Idle
    /\ key[k] = "live"
    /\ request' = [request EXCEPT ![c] = [Idle EXCEPT !.pc = "keyed", !.key = k]]
    /\ UNCHANGED <<now, records, sessions, embeds, limiter, slow>>

\* Mutant: the whole row is written back.
TouchRow(k) == key' = [key EXCEPT ![k] = "live"]

\* last_used_at is the only column of the UPDATE.
Touch(k) == UNCHANGED key

(***************************************************************************)
(* An origin is a scheme, a host (its labels, the first one leftmost) and  *)
(* a port or none; an entry of the allowlist may have "*" for its first    *)
(* label, and is bare when it has no path, query or fragment.  Labels are  *)
(* well-formed.                                                            *)
(***************************************************************************)
Loopback == {<<"localhost">>, <<"127", "0", "0", "1">>}

\* A wildcard stands for the leading label of a longer host, and nowhere else.
ValidEntry(e) ==
    /\ e.scheme \in {"http", "https"}
    /\ e.bare
    /\ e.host # <<>>
    /\ e.scheme = "http" => e.host \in Loopback
    /\ \A i \in 1..Len(e.host) : e.host[i] = "*" => i = 1 /\ Len(e.host) > 1

PortOf(o) == IF o.port # NONE THEN o.port ELSE IF o.scheme = "https" THEN 443 ELSE 80

\* The wildcard matches one label.
Matches(o, e) ==
    /\ o.scheme = e.scheme
    /\ PortOf(o) = PortOf(e)
    /\ \/ o.host = e.host
       \/ Head(e.host) = "*" /\ Len(o.host) = Len(e.host) /\ Tail(o.host) = Tail(e.host)

\* The list is parsed for every token: one bad entry, and there are none.
ParsesAllowlist == \A e \in Allowlist : ValidEntry(e)

InAllowlist(o) ==
    /\ o.scheme \in {"http", "https"}
    /\ o.host # <<>>
    /\ \E e \in Allowlist : Matches(o, e)

\* verify_embed_token: refused from the expiry on, with some leeway.
Accepted(e) == now < e.expires + Leeway

\* Mutant: the lifetime is what the caller asks for.
Unclamped(ttl) == ttl

Clamped(ttl) == Max({MinTtl, Min({ttl, MaxTtl})})

\* A caller that names no lifetime, or 0, gets the default one.
Asked(ttl) == IF ttl = 0 THEN DefaultTtl ELSE ttl

\* The row is touched and, for an origin on the allowlist and a task that exists, a
\* token is minted.
MintEmbed(c, o, ttl) ==
    LET k == request[c].key
        token == [key |-> k, expires |-> now + Clamped(Asked(ttl))]
    IN
    /\ request[c].pc = "keyed"
    /\ Touch(k)
    /\ \/ embeds' = embeds
       \/ ParsesAllowlist /\ InAllowlist(o) /\ embeds' = embeds \union {token}
    /\ slow' = IF embeds' # embeds /\ key[k] = "revoked" THEN slow \union {k} ELSE slow
    /\ Done(c)
    /\ UNCHANGED <<now, user, ledAt, revokedAt, changes, sessions, limiter>>

-----------------------------------------------------------------------------
\* An administrator changes the role, the active flag, or deletes (module Directory).
ChangeUser(u) ==
    /\ MayAdminister
    /\ changes < MaxChanges
    /\ changes' = changes + 1
    /\ user' \in {[user EXCEPT ![u] = row] : row \in Row \ {user[u]}}
    /\ ledAt' = IF Leads(u) THEN [ledAt EXCEPT ![u] = now] ELSE ledAt
    /\ UNCHANGED <<now, key, revokedAt, sessions, embeds, limiter, request, slow>>

\* What has expired is of no use any more.
Tick ==
    /\ now < MaxTime
    /\ now' = now + 1
    /\ sessions' = {s \in sessions : Believed(s)'}
    /\ embeds' = {e \in embeds : Accepted(e)'}
    /\ UNCHANGED <<records, limiter, request, slow>>

\* Requests and the limiter's memory are lost; what was signed stays valid.
Restart ==
    /\ \E w \in DOMAIN hits : hits[w] # {}
    /\ hits' = [w \in DOMAIN hits |-> {}]
    /\ admitted' = [a \in Address |-> {}]
    /\ request' = [c \in Request |-> Idle]
    /\ UNCHANGED <<now, records, sessions, embeds, slow>>

Next ==
    \/ \E c \in Request : \/ SignIn(c)
                          \/ \E k \in Key : ReadKey(c, k)
                          \/ \E o \in Origin, ttl \in Ask : MintEmbed(c, o, ttl)
    \/ \E u \in User : SlackHandoff(u) \/ ChangeUser(u)
    \/ \E s \in sessions : Logout(s)
    \/ \E k \in Key : CreateKey(k) \/ RevokeKey(k)
    \/ Tick \/ Restart

Spec == Init /\ [][Next]_vars

-----------------------------------------------------------------------------
(***************************************************************************)
(* Looking at tasks.  A request carries a cookie or none, and a bearer:    *)
(* the admin token, an embed token for some task, an embed token that does *)
(* not verify, or none.                                                    *)
(***************************************************************************)
Cookie == sessions \union {NONE}

Presented ==
    [bearer : {"none", "admin", "void"}, token : {NONE}, task : {NONE}, cookie : Cookie]
    \union [bearer : {"embed"}, token : embeds, task : Task, cookie : Cookie]

\* EmbedAuthMiddleware answers 401 to an embed token that does not verify.
TurnedAway(r) == r.bearer = "void" \/ (r.bearer = "embed" /\ ~Accepted(r.token))

\* The embed token, the admin token, the cookie: the first of them decides.
Identify(r) ==
    CASE TurnedAway(r) -> Nobody
      [] ~TurnedAway(r) /\ r.bearer = "embed" -> Guest(r.task)
      [] r.bearer = "admin" /\ AdminToken -> Automation
      [] r.bearer = "none" \/ (r.bearer = "admin" /\ ~AdminToken) ->
            IF r.cookie # NONE /\ Believed(r.cookie) THEN Member(r.cookie.user, r.cookie.operator)
            ELSE Nobody

-----------------------------------------------------------------------------
\* The user of an operator's cookie still is one, or was within a session's lifetime.
LeadsYet(s) == Leads(s.user) \/ s.user \in slow \/ now <= ledAt[s.user] + SessionTtl

\* The key of an embed token still is live, or was within the longest lifetime.
LivesYet(e) == key[e.key] = "live" \/ e.key \in slow \/ now < revokedAt[e.key] + MaxTtl + Leeway

\* A credential outlives the right it was issued for by one lifetime at most: a cookie
\* that says operator, the demotion, deactivation or deletion of its user; an embed
\* token, the revocation of the key that minted it.  The exception is a credential
\* that was signed from a row read before the change.
CredentialsFade ==
    /\ \A s \in sessions : s.operator => LeadsYet(s)
    /\ \A e \in embeds : LivesYet(e)

\* Whoever can look at a task, or at its audit trail, is the automation, or the task's
\* assignee, or an operator who is or was one within a session's lifetime, or holds an
\* embed token for this task whose key is or was live within a token's lifetime.
ReadersAreEntitled ==
    \A r \in Presented : \A t \in Sees[Identify(r)] :
        \/ r.bearer = "admin" /\ AdminToken
        \/ r.bearer = "embed" /\ r.task = t /\ LivesYet(r.token)
        \/ /\ r.cookie # NONE
           /\ TaskTable[t].assignee = r.cookie.user \/ (r.cookie.operator /\ LeadsYet(r.cookie))

\* The task by its id, its audit trail and the list show a caller the same tasks and say
\* the same of them, although each has a check of its own; the holder of an embed token
\* is the one exception, for whom only the task by its id opens (Agrees, in TaskViews).
ViewsAgree == \A r \in Presented : Identify(r) \in Agreeing

\* A key that was revoked stays revoked, although requests that still found it live
\* write its row afterwards.
KeysStayRevoked == [][\A k \in Key : key[k] = "revoked" => key'[k] = "revoked"]_vars

\* However the attempts are spread, no more than the limit gets through from one
\* address in any window of time, the window's edges included, as long as the server
\* runs.
WindowHolds ==
    \A a \in Address, t \in 0..now :
        Cardinality({h \in admitted[a] : h.at <= t /\ h.at + Window > t}) <= Limit
=============================================================================
