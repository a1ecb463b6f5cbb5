---------------------------- MODULE EmailActions ----------------------------
(***************************************************************************)
(* The e-mail channel of one task.  The notifier mails every address on    *)
(* the notify list: one button per option of the form, each with a signed, *)
(* single-use token, and a signed link into the dashboard.  A button opens *)
(* a confirmation page; the POST behind it burns the token in one          *)
(* transaction and submits the answer in others, with a verifier's call in *)
(* between.  The link signs the recipient in, creates the account if there *)
(* is none, and makes the recipient the owner of a task without one.       *)
(*                                                                         *)
(* One action is one database transaction, or one call of the mail         *)
(* transport or of the verifier.  A route is an entry of the notify list,  *)
(* and stands for its address.                                             *)
(***************************************************************************)
EXTENDS Naturals, FiniteSets

CONSTANTS
    Route,        \* the email: entries of the task's notify list
    Form,         \* the response form: named inputs, kind and options of the first
    Identity,     \* the sender identity an entry names, or NONE
    Sender,       \* sender identities an operator may configure
    EnvTransport, \* the settings of EMAIL_TRANSPORT: BOOLEAN or a part of it
    Reviewer,     \* users who take tasks elsewhere: dashboard, Slack
    Outcome,      \* the endings that occur
    Browser,      \* clients: a recipient may click twice, or on two devices
    MaxCrashes,   \* bound on the number of process crashes
    MaxChanges,   \* bound on what operators change
    NONE

Terminal == {"completed", "timed_out", "cancelled", "verification_exhausted"}

ASSUME EmailAssumption ==
    /\ Identity \in [Route -> Sender \union {NONE}]
    /\ Form.inputs \in Nat
    /\ EnvTransport \subseteq BOOLEAN
    /\ Outcome \subseteq Terminal
    /\ MaxCrashes \in Nat
    /\ MaxChanges \in Nat
    /\ NONE \notin Sender \union Route \union Reviewer
    /\ Reviewer \intersect Route = {}

VARIABLES
    status,      \* of the task's row
    assignee,    \* its assigned_to_user_id
    account,     \* what the directory holds under each address
    env,         \* whether EMAIL_TRANSPORT is set
    identities,  \* the configured sender identities
    notifier,    \* the background task of the creation
    mailed,      \* the addresses that have their mail
    consumed,    \* the ConsumedEmailToken rows
    client,      \* what each browser's request is doing
    used,        \* history: how often each token's answer was recorded
    lost,        \* history: tokens whose request failed after it had burnt them
    landed,      \* history: the recipients signed in by their link
    late,        \* whether the task's deadline has passed
    crashes,
    changes

vars == <<status, assignee, account, env, identities, notifier, mailed,
          consumed, client, used, lost, landed, late, crashes, changes>>
task == <<status, assignee>>
config == <<env, identities, changes>>
outbox == <<notifier, mailed>>
tokens == <<consumed, used, lost>>

-----------------------------------------------------------------------------
\* Two inputs or none: only the dashboard can show the form.
SingleInput == Form.inputs = 1

\* The buttons of a mail, each with its answer: a switch has two, a short selection one
\* per option; anything else has to be typed.
Option ==
    IF ~SingleInput THEN {}
    ELSE IF Form.kind = "switch" THEN BOOLEAN
    ELSE IF Form.kind = "single_select" /\ Cardinality(Form.options) <= 4 THEN Form.options
    ELSE {}

\* What a token says: for whom, and which answer.
Token == Route \X Option

Client == [pc     : {"idle", "page", "checked", "burnt", "verifying", "unknown", "known"},
           route  : Route \union {NONE},
           option : Option \union {NONE}]

Idle == [pc |-> "idle", route |-> NONE, option |-> NONE]

TokenOf(b) == <<client[b].route, client[b].option>>

TypeOK ==
    /\ status \in {"open", "deleted"} \union Terminal
    /\ assignee \in Route \union Reviewer \union {NONE}
    /\ account \in [Route -> {"none", "active", "inactive"}]
    /\ env \in EnvTransport
    /\ identities \subseteq Sender
    /\ notifier \in [pc : {"loading", "mailing", "done"}, todo : SUBSET Route]
    /\ mailed \subseteq Route
    /\ consumed \subseteq Token
    /\ client \in [Browser -> Client]
    /\ used \in [Token -> Nat]
    /\ lost \subseteq Token
    /\ landed \subseteq Route
    /\ late \in BOOLEAN
    /\ crashes \in 0..MaxCrashes
    /\ changes \in 0..MaxChanges

Init ==
    /\ status = "open"
    /\ assignee \in Reviewer \union {NONE}
    /\ account \in [Route -> {"none", "active", "inactive"}]
    /\ env \in EnvTransport
    /\ identities \in SUBSET Sender
    /\ notifier = [pc |-> "loading", todo |-> Route]
    /\ mailed = {}
    /\ consumed = {}
    /\ client = [b \in Browser |-> Idle]
    /\ used = [t \in Token |-> 0]
    /\ lost = {}
    /\ landed = {}
    /\ late = FALSE
    /\ crashes = 0
    /\ changes = 0

-----------------------------------------------------------------------------
(***************************************************************************)
(* notify_task.                                                            *)
(***************************************************************************)
\* get_task raises when the task is gone.
Load ==
    /\ notifier.pc = "loading"
    /\ notifier' = IF status = "deleted" THEN [pc |-> "done", todo |-> {}]
                   ELSE [notifier EXCEPT !.pc = "mailing"]
    /\ UNCHANGED <<task, account, config, mailed, client, tokens, landed, late, crashes>>

\* The identity an entry names, if it is still there; without a name none when the
\* environment has a transport, else the only identity there is.
IdentityOf(r) ==
    IF Identity[r] # NONE THEN {Identity[r]} \cap identities
    ELSE IF env \/ Cardinality(identities) # 1 THEN {}
    ELSE identities

\* The identity's transport, or the environment's in its place.
HasSender(r) == IdentityOf(r) # {} \/ env

Rest(r) ==
    LET rest == notifier.todo \ {r}
    IN [pc |-> IF rest = {} THEN "done" ELSE "mailing", todo |-> rest]

\* The transport took the message, whether or not its answer came back.
Send(r) ==
    /\ notifier.pc = "mailing"
    /\ r \in notifier.todo
    /\ HasSender(r)
    /\ mailed' = mailed \union {r}
    /\ notifier' = Rest(r)
    /\ UNCHANGED <<task, account, config, client, tokens, landed, late, crashes>>

\* No transport, no From: address, or an error of the transport: an audit entry says
\* so, and the loop goes on.
Fail(r) ==
    /\ notifier.pc = "mailing"
    /\ r \in notifier.todo
    /\ notifier' = Rest(r)
    /\ UNCHANGED <<task, account, config, mailed, client, tokens, landed, late, crashes>>

-----------------------------------------------------------------------------
(***************************************************************************)
(* The buttons: GET and POST /channels/email/action/{token}.               *)
(***************************************************************************)
\* Mutant: opening the page, which mail scanners do too, uses the token up.
OpenBurning(b, t) ==
    /\ t[1] \in mailed
    /\ client[b].pc = "idle"
    /\ status = "open"
    /\ client' = [client EXCEPT ![b] = [pc |-> "page", route |-> t[1], option |-> t[2]]]
    /\ consumed' = consumed \union {t}
    /\ UNCHANGED <<task, account, config, outbox, used, lost, landed, late, crashes>>

\* action_confirm: the page, for a valid token and a task that is open; a token may
\* expire at any time, and is refused from then on.
OpenPage(b, t) ==
    /\ t[1] \in mailed
    /\ client[b].pc = "idle"
    /\ status = "open"
    /\ client' = [client EXCEPT ![b] = [pc |-> "page", route |-> t[1], option |-> t[2]]]
    /\ UNCHANGED <<task, account, config, outbox, tokens, landed, late, crashes>>

\* The page is closed, or the token expires in front of it.
LeavePage(b) ==
    /\ client[b].pc = "page"
    /\ client' = [client EXCEPT ![b] = Idle]
    /\ UNCHANGED <<task, account, config, outbox, tokens, landed, late, crashes>>

\* action_submit: the signature, and the look-up that precedes the insert.
Check(b) ==
    /\ client[b].pc = "page"
    /\ client' = [client EXCEPT ![b] = IF TokenOf(b) \in consumed THEN Idle
                                       ELSE [@ EXCEPT !.pc = "checked"]]
    /\ UNCHANGED <<task, account, config, outbox, tokens, landed, late, crashes>>

\* Mutant: the insert ignores a row that is already there.
NoConflict(b) == FALSE

\* The primary key of consumed_email_tokens.
Replayed(b) == TokenOf(b) \in consumed

\* The loser of two inserts gets IntegrityError and 410.
Consume(b) ==
    /\ client[b].pc = "checked"
    /\ consumed' = consumed \union {TokenOf(b)}
    /\ client' = [client EXCEPT ![b] = IF Replayed(b) THEN Idle ELSE [@ EXCEPT !.pc = "burnt"]]
    /\ UNCHANGED <<task, account, config, outbox, used, lost, landed, late, crashes>>

\* complete_task reads the row: gone is an error, ended is "already completed".
BeginSubmit(b) ==
    /\ client[b].pc = "burnt"
    /\ client' = [client EXCEPT ![b] = IF status = "open" THEN [@ EXCEPT !.pc = "verifying"] ELSE Idle]
    /\ UNCHANGED <<task, account, config, outbox, tokens, landed, late, crashes>>

\* The guarded UPDATE: completed, rejected and still open, or exhausted.
Record(b) ==
    /\ client[b].pc = "verifying"
    /\ IF status = "open"
       THEN /\ status' \in {"open"} \union (Outcome \cap {"completed", "verification_exhausted"})
            /\ used' = [used EXCEPT ![TokenOf(b)] = @ + 1]
       ELSE UNCHANGED <<status, used>>
    /\ client' = [client EXCEPT ![b] = Idle]
    /\ UNCHANGED <<assignee, account, config, outbox, consumed, lost, landed, late, crashes>>

\* The verifier's provider fails: 503, and the token stays burnt.
VerifierFails(b) ==
    /\ client[b].pc = "verifying"
    /\ lost' = lost \union {TokenOf(b)}
    /\ client' = [client EXCEPT ![b] = Idle]
    /\ UNCHANGED <<task, account, config, outbox, consumed, used, landed, late, crashes>>

Button(b) == LeavePage(b) \/ Check(b) \/ Consume(b) \/ BeginSubmit(b) \/ Record(b) \/ VerifierFails(b)
             \/ \E t \in Token : OpenPage(b, t)

-----------------------------------------------------------------------------
(***************************************************************************)
(* The link: GET /auth/email-handoff.                                      *)
(***************************************************************************)
\* The signature, valid until the deadline, and the directory look-up; an inactive
\* account is turned away.
ClickLink(b, r) ==
    /\ r \in mailed
    /\ client[b].pc = "idle"
    /\ ~late
    /\ account[r] # "inactive"
    /\ client' = [client EXCEPT ![b] =
                    [Idle EXCEPT !.pc = IF account[r] = "none" THEN "unknown" ELSE "known",
                                 !.route = r]]
    /\ UNCHANGED <<task, account, config, outbox, tokens, landed, late, crashes>>

\* Mutant: an account that was just created is signed in and redirected at once.
SignNewcomerIn(b) ==
    /\ client[b].pc = "unknown"
    /\ account' = [account EXCEPT ![client[b].route] = "active"]
    /\ landed' = landed \union {client[b].route}
    /\ client' = [client EXCEPT ![b] = Idle]
    /\ UNCHANGED <<task, config, outbox, tokens, late, crashes>>

\* create_user: of two clicks, the second insert meets the unique e-mail and fails.
Provision(b) ==
    /\ client[b].pc = "unknown"
    /\ IF account[client[b].route] = "none"
       THEN /\ account' = [account EXCEPT ![client[b].route] = "active"]
            /\ client' = [client EXCEPT ![b].pc = "known"]
       ELSE /\ client' = [client EXCEPT ![b] = Idle]
            /\ UNCHANGED account
    /\ UNCHANGED <<task, config, outbox, tokens, landed, late, crashes>>

\* _claim_task_for_recipient_if_unassigned, then the session and the redirect.
ClaimAndSignIn(b) ==
    /\ client[b].pc = "known"
    /\ assignee' = IF status = "open" /\ assignee = NONE THEN client[b].route ELSE assignee
    /\ landed' = landed \union {client[b].route}
    /\ client' = [client EXCEPT ![b] = Idle]
    /\ UNCHANGED <<status, account, config, outbox, tokens, late, crashes>>

Link(b) == Provision(b) \/ ClaimAndSignIn(b) \/ \E r \in Route : ClickLink(b, r)

-----------------------------------------------------------------------------
(***************************************************************************)
(* The rest of the server, as far as it touches what is modelled here.     *)
(***************************************************************************)
\* An ending over another channel; the scheduler ends tasks past their deadline only.
Settle ==
    /\ status = "open"
    /\ status' \in Outcome
    /\ status' = "timed_out" => late
    /\ UNCHANGED <<assignee, account, config, outbox, client, tokens, landed, late, crashes>>

Delete ==
    /\ status # "deleted"
    /\ status' = "deleted"
    /\ UNCHANGED <<assignee, account, config, outbox, client, tokens, landed, late, crashes>>

AssignElsewhere(u) ==
    /\ status = "open"
    /\ assignee = NONE
    /\ assignee' = u
    /\ UNCHANGED <<status, account, config, outbox, client, tokens, landed, late, crashes>>

Change ==
    /\ changes < MaxChanges
    /\ changes' = changes + 1
    /\ UNCHANGED <<task, env, outbox, client, tokens, landed, late, crashes>>

\* POST /channels/email/identities, which overwrites one of that name, and DELETE.
UpsertIdentity(s) == Change /\ identities' = identities \union {s} /\ UNCHANGED account

DeleteIdentity(s) == Change /\ s \in identities /\ identities' = identities \ {s} /\ UNCHANGED account

\* create_user, update_user and delete_user for the address; a request that has found or
\* made its user goes by what it holds.
Administer(r) ==
    /\ Change
    /\ \E state \in {"none", "active", "inactive"} \ {account[r]} :
          account' = [account EXCEPT ![r] = state]
    /\ UNCHANGED identities

PassDeadline ==
    /\ ~late
    /\ late' = TRUE
    /\ UNCHANGED <<task, account, config, outbox, client, tokens, landed, crashes>>

\* The notifier and the requests die with the process; a page in a browser does not.
Crash ==
    /\ crashes < MaxCrashes
    /\ crashes' = crashes + 1
    /\ notifier' = [pc |-> "done", todo |-> {}]
    /\ lost' = lost \union {TokenOf(b) : b \in {c \in Browser : client[c].pc \in {"burnt", "verifying"}}}
    /\ client' = [b \in Browser |-> IF client[b].pc = "page" THEN client[b] ELSE Idle]
    /\ UNCHANGED <<task, account, config, mailed, consumed, used, landed, late>>

Notify == Load \/ \E r \in Route : Send(r) \/ Fail(r)

Next ==
    \/ Notify
    \/ \E b \in Browser : Button(b) \/ Link(b)
    \/ Settle \/ Delete \/ PassDeadline \/ Crash
    \/ \E u \in Reviewer : AssignElsewhere(u)
    \/ \E s \in Sender : UpsertIdentity(s) \/ DeleteIdentity(s)
    \/ \E r \in Route : Administer(r)

Spec == Init /\ [][Next]_vars

-----------------------------------------------------------------------------
\* A button's answer is recorded once at most, on the audit trail and against
\* max_attempts, however often its page is posted and although a rejection leaves the
\* task open.
TokensActOnce == \A t \in Token : used[t] <= 1

InFlight(t) == \E b \in Browser : client[b].pc \in {"burnt", "verifying"} /\ TokenOf(b) = t

\* While the task is open, a token that no longer works has had its answer recorded, or
\* is on its way to it, unless the verifier or the process failed in between: neither a
\* scanner that opens the page nor a second click can use a button up.
BurntTokensExplained ==
    \A t \in consumed : status = "open" => used[t] = 1 \/ InFlight(t) \/ t \in lost

\* A recipient who came through the link finds the task, or finds that it is somebody
\* else's: an open task has an owner from then on.
LandedMeansOwned == landed # {} /\ status = "open" => assignee # NONE
=============================================================================
