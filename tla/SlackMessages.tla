--------------------------- MODULE SlackMessages ---------------------------
(***************************************************************************)
(* The Slack messages of one task: posted by a background task after the   *)
(* task was created, rewritten when somebody claims it, closed when it     *)
(* ends.  Slack shows a message as soon as it is posted; the row that lets *)
(* it be rewritten is committed when the notifier is through all routes.   *)
(* Every rewrite is a chat.update in a background task of its own, made    *)
(* from what that task read earlier; Slack keeps the one that came last.   *)
(*                                                                         *)
(* One action is one database transaction or one call of Slack's API.      *)
(* A route is an entry of the task's notify list.                          *)
(***************************************************************************)
EXTENDS Naturals, FiniteSets

CONSTANTS
    Route,        \* the slack: entries of the task's notify list
    Broadcast,    \* the routes whose target is a channel
    Identity,     \* the workspace an entry names, or NIL
    Team,         \* Slack workspaces
    Form,         \* the kinds of the response form's fields, nested ones included; {} for
                  \* a task without a form
    Env,          \* the workspaces SLACK_BOT_TOKEN may belong to, NIL where it is unset
    User,         \* active directory users with a Slack account
    Operator,     \* the operators among them
    Updater,      \* background runs of update_slack_messages_for_task, each used once
    Outcome,      \* the endings that occur
    MaxCrashes,   \* bound on the number of process crashes
    MaxChanges,   \* bound on installations and removals of the Slack app
    NIL

Terminal == {"completed", "timed_out", "cancelled", "verification_exhausted"}

ASSUME SlackAssumption ==
    /\ Broadcast \subseteq Route
    /\ Identity \in [Route -> Team \union {NIL}]
    /\ Env \subseteq Team \union {NIL}
    /\ Operator \subseteq User
    /\ Outcome \subseteq Terminal
    /\ MaxCrashes \in Nat
    /\ MaxChanges \in Nat
    /\ NIL \notin Team \union User \union Route

VARIABLES
    status,     \* of the task's row
    assignee,   \* its assigned_to_user_id
    env,        \* the workspace of SLACK_BOT_TOKEN, or NIL
    installed,  \* the workspaces with a row in slack_installations
    message,    \* what Slack shows for each route
    logged,     \* the routes with a committed SlackTaskMessage row
    notifier,   \* the background task of the creation
    updater,    \* the background tasks of the endings
    click,      \* what each user's button click is doing
    modal,      \* the users who have the task's modal open
    missed,     \* history: messages an update passed over, or a claim wrote over
    crashes,
    changes

slackVars == <<status, assignee, env, installed, message, logged, notifier, updater,
              click, modal, missed, crashes, changes>>
row == <<status, assignee>>
config == <<env, installed, changes>>

-----------------------------------------------------------------------------
Status == {"open", "deleted"} \union Terminal

Settled == status \in Terminal

\* The face of a message: buttons, the claimer's name, or a closing headline.
Message == [face : {"absent", "actionable", "claimed", "closed"} \union Terminal,
            link : User \union {NIL},   \* the user the dashboard link signs in
            home : Team \union {NIL}]   \* the workspace it was posted in

NoMessage == [face |-> "absent", link |-> NIL, home |-> NIL]

Notifier == [pc      : {"loading", "posting", "done"},
             link    : User \union {NIL},
             todo    : SUBSET Route,
             pending : SUBSET Route]   \* rows added to the session, not committed

Run == [pc   : {"unused", "loading", "listing", "updating", "done"},
        face : {"none", "closed"} \union Terminal,
        link : User \union {NIL},
        todo : SUBSET Route]

Unused == [pc |-> "unused", face |-> "none", link |-> NIL, todo |-> {}]

Finished == [Unused EXCEPT !.pc = "done"]

Click == [pc    : {"idle", "clicked", "claimed"},
          route : Route \union {NIL}]

NoClick == [pc |-> "idle", route |-> NIL]

SlackTypeOK ==
    /\ status \in Status
    /\ assignee \in User \union {NIL}
    /\ env \in Env
    /\ installed \subseteq Team
    /\ message \in [Route -> Message]
    /\ logged \subseteq Route
    /\ notifier \in Notifier
    /\ updater \in [Updater -> Run]
    /\ click \in [User -> Click]
    /\ modal \subseteq User
    /\ missed \subseteq Route
    /\ crashes \in 0..MaxCrashes
    /\ changes \in 0..MaxChanges

SlackInit ==
    /\ status = "open"
    /\ assignee \in User \union {NIL}
    /\ env \in Env
    /\ installed \in SUBSET Team
    /\ message = [r \in Route |-> NoMessage]
    /\ logged = {}
    /\ notifier = [pc |-> "loading", link |-> NIL, todo |-> Route, pending |-> {}]
    /\ updater = [x \in Updater |-> Unused]
    /\ click = [u \in User |-> NoClick]
    /\ modal = {}
    /\ missed = {}
    /\ crashes = 0
    /\ changes = 0

-----------------------------------------------------------------------------
(***************************************************************************)
(* The three surfaces: buttons (and a link signed for the assignee the     *)
(* notifier knew), the claimer's name, the closing headline.               *)
(***************************************************************************)
OpenReview(team, user) == [face |-> "actionable", link |-> user, home |-> team]

ClaimedBy(m, user) == [m EXCEPT !.face = "claimed", !.link = user]

Closed(m, headline, user) == [m EXCEPT !.face = headline, !.link = user]

\* Mutant: the headline is whatever the status says.
Verbatim(s) == s

\* Mutant: a status nobody expected is taken for a completion.
Completed(s) == IF s \in Terminal THEN s ELSE "completed"

\* A status that is not terminal falls back to a neutral "Closed".
Headline(s) == IF s \in Terminal THEN s ELSE "closed"

-----------------------------------------------------------------------------
(***************************************************************************)
(* The client for a workspace.                                             *)
(***************************************************************************)
\* The installation of the workspace, else the environment's token.
ClientForTeam(t) == IF t \in installed THEN t ELSE env

\* The environment's token, else the only installation.
DefaultClient ==
    IF env # NIL THEN env
    ELSE IF Cardinality(installed) = 1 THEN CHOOSE t \in Team : t \in installed ELSE NIL

ClientFor(r) == IF Identity[r] # NIL THEN ClientForTeam(Identity[r]) ELSE DefaultClient

\* chat.update finds the message only in the workspace it was posted in.
Reaches(r) == ClientFor(r) = message[r].home

-----------------------------------------------------------------------------
(***************************************************************************)
(* notify_task.                                                            *)
(***************************************************************************)
\* get_task raises when the task is gone; the link is signed for whoever is the
\* assignee now.
Load ==
    /\ notifier.pc = "loading"
    /\ notifier' = IF status = "deleted"
                   THEN [notifier EXCEPT !.pc = "done", !.todo = {}]
                   ELSE [notifier EXCEPT !.pc = "posting", !.link = assignee]
    /\ UNCHANGED <<row, config, message, logged, updater, click, modal, missed, crashes>>

Post(r) ==
    /\ notifier.pc = "posting"
    /\ r \in notifier.todo
    /\ ClientFor(r) # NIL
    /\ message' = [message EXCEPT ![r] = OpenReview(ClientFor(r), notifier.link)]

\* chat.postMessage answered: the row waits in the session.
PostAnswered(r) ==
    /\ Post(r)
    /\ notifier' = [notifier EXCEPT !.todo = @ \ {r}, !.pending = @ \union {r}]
    /\ UNCHANGED <<row, config, logged, updater, click, modal, missed, crashes>>

\* Mutant: a failed delivery rolls the session back.
ForgetPending(r) ==
    /\ notifier' = [notifier EXCEPT !.todo = @ \ {r}, !.pending = {}]
    /\ UNCHANGED logged

\* The audit entry of a failed delivery commits the session, the rows of the
\* messages posted so far included.
CommitFailure(r) ==
    /\ logged' = logged \union notifier.pending
    /\ notifier' = [notifier EXCEPT !.todo = @ \ {r}, !.pending = {}]

\* No client, an unknown target, or an error of Slack's.
Undeliverable(r) ==
    /\ notifier.pc = "posting"
    /\ r \in notifier.todo
    /\ CommitFailure(r)
    /\ UNCHANGED <<row, config, message, updater, click, modal, missed, crashes>>

\* The message was posted and the answer lost: recorded as a failure, without a row.
PostUnanswered(r) ==
    /\ Post(r)
    /\ CommitFailure(r)
    /\ missed' = missed \union {r}
    /\ UNCHANGED <<row, config, updater, click, modal, crashes>>

CommitRows ==
    /\ notifier.pc = "posting"
    /\ notifier.todo = {}
    /\ logged' = logged \union notifier.pending
    /\ notifier' = [notifier EXCEPT !.pc = "done", !.pending = {}]
    /\ UNCHANGED <<row, config, message, updater, click, modal, missed, crashes>>

Notify == Load \/ CommitRows \/ \E r \in Route : PostAnswered(r) \/ Undeliverable(r) \/ PostUnanswered(r)

-----------------------------------------------------------------------------
(***************************************************************************)
(* update_slack_messages_for_task.                                         *)
(***************************************************************************)
InFlight == {x \in Updater : updater[x].pc \in {"loading", "listing", "updating"}}

Launch ==
    \E x \in Updater :
        /\ updater[x].pc = "unused"
        /\ updater' = [updater EXCEPT ![x].pc = "loading"]

LoadTask(x) ==
    /\ updater[x].pc = "loading"
    /\ updater' = [updater EXCEPT ![x] =
                     IF status = "deleted" THEN Finished
                     ELSE [@ EXCEPT !.pc = "listing", !.face = Headline(status),
                                    !.link = assignee]]
    /\ UNCHANGED <<row, config, message, logged, notifier, click, modal, missed, crashes>>

\* Whatever is not in the table yet will not be updated by this run.
ListMessages(x) ==
    /\ updater[x].pc = "listing"
    /\ updater' = [updater EXCEPT ![x].pc = "updating", ![x].todo = logged]
    /\ missed' = missed \union (notifier.todo \union notifier.pending)
    /\ UNCHANGED <<row, config, message, logged, notifier, click, modal, crashes>>

After(x, r) ==
    LET rest == updater[x].todo \ {r}
    IN updater' = [updater EXCEPT ![x] = IF rest = {} THEN Finished ELSE [@ EXCEPT !.todo = rest]]

UpdateMessage(x, r) ==
    /\ updater[x].pc = "updating"
    /\ r \in updater[x].todo
    /\ Reaches(r)
    /\ message' = [message EXCEPT ![r] = Closed(@, updater[x].face, updater[x].link)]
    /\ missed' = missed \ {r}
    /\ After(x, r)
    /\ UNCHANGED <<row, config, logged, notifier, click, modal, crashes>>

\* No client, the wrong workspace, or any exception: logged, and the loop goes on.
SkipMessage(x, r) ==
    /\ updater[x].pc = "updating"
    /\ r \in updater[x].todo
    /\ missed' = missed \union {r}
    /\ After(x, r)
    /\ UNCHANGED <<row, config, message, logged, notifier, click, modal, crashes>>

NothingPosted(x) ==
    /\ updater[x].pc = "updating"
    /\ updater[x].todo = {}
    /\ updater' = [updater EXCEPT ![x] = Finished]
    /\ UNCHANGED <<row, config, message, logged, notifier, click, modal, missed, crashes>>

Update(x) == LoadTask(x) \/ ListMessages(x) \/ NothingPosted(x)
             \/ \E r \in Route : UpdateMessage(x, r) \/ SkipMessage(x, r)

-----------------------------------------------------------------------------
(***************************************************************************)
(* The interactivity endpoint.                                             *)
(***************************************************************************)
MayAct(u) == u \in Operator \/ assignee = u

\* "Claim this task", under a message in a channel.
ClickClaim(u, r) ==
    /\ click[u] = NoClick
    /\ r \in Broadcast
    /\ message[r].face = "actionable"
    /\ click' = [click EXCEPT ![u] = [pc |-> "clicked", route |-> r]]
    /\ UNCHANGED <<row, config, message, logged, notifier, updater, modal, missed, crashes>>

\* Mutant: a UPDATE whose WHERE forgets the assignee.
Overclaim(u) ==
    /\ click[u].pc = "clicked"
    /\ IF status = "open"
       THEN /\ assignee' = u
            /\ click' = [click EXCEPT ![u].pc = "claimed"]
       ELSE /\ click' = [click EXCEPT ![u] = NoClick]
            /\ UNCHANGED assignee
    /\ UNCHANGED <<status, config, message, logged, notifier, updater, modal, missed, crashes>>

\* claim_task, once a client for the workspace was found; a refusal is an ephemeral
\* reply and nothing more.
ClaimTask(u) ==
    /\ click[u].pc = "clicked"
    /\ IF /\ ClientForTeam(message[click[u].route].home) # NIL
          /\ status = "open"
          /\ assignee = NIL
       THEN /\ assignee' = u
            /\ click' = [click EXCEPT ![u].pc = "claimed"]
       ELSE /\ click' = [click EXCEPT ![u] = NoClick]
            /\ UNCHANGED assignee
    /\ UNCHANGED <<status, config, message, logged, notifier, updater, modal, missed, crashes>>

\* The kinds that have a Block Kit renderer; any other raises UnrenderableInSlackError.
Renderable ==
    {"display_text", "divider", "section", "image", "switch", "short_text", "long_text",
     "single_select", "multi_select", "picture_choice", "date", "datetime", "time",
     "slider", "star_rating", "opinion_scale", "file_upload"}

\* _open_modal_for_task, for an open or an ended task; nothing opens for a deleted
\* one, for a form Slack cannot render, without a client, or when Slack refuses.
OpenModal(u) ==
    \/ UNCHANGED modal
    \/ /\ status # "deleted"
       /\ Form # {} /\ Form \subseteq Renderable
       /\ modal' = modal \union {u}

\* chat.update with the claimer's name, whatever the message shows by now, and the
\* modal for the claimer.
ShowClaim(u) ==
    LET r == click[u].route IN
    /\ click[u].pc = "claimed"
    /\ message' = [message EXCEPT ![r] = ClaimedBy(@, u)]
    /\ missed' = IF message[r].face = "actionable" THEN missed ELSE missed \union {r}
    /\ OpenModal(u)
    /\ click' = [click EXCEPT ![u] = NoClick]
    /\ UNCHANGED <<row, config, logged, notifier, updater, crashes>>

\* SlackApiError: the modal opens nevertheless.
ClaimNotShown(u) ==
    /\ click[u].pc = "claimed"
    /\ OpenModal(u)
    /\ click' = [click EXCEPT ![u] = NoClick]
    /\ UNCHANGED <<row, config, message, logged, notifier, updater, missed, crashes>>

\* The kinds the capability matrix links out of Slack: a message has no button for them.
Offenders ==
    Form \cap {"rich_text", "ranking", "date_range", "signature", "video", "pdf_viewer", "html",
               "section_collapse", "table", "subform"}

\* "Open in Slack", under a direct message: for operators and the assignee.
ClickOpen(u, r) ==
    /\ r \in Route \ Broadcast
    /\ Offenders = {}
    /\ message[r].face = "actionable"
    /\ MayAct(u)
    /\ OpenModal(u)
    /\ UNCHANGED <<row, config, message, logged, notifier, updater, click, missed, crashes>>

\* view_submission: authorised once more (who may act never loses that), verified and
\* written; the messages are updated after any verdict, a rejection that leaves the
\* task open included.  When the task has ended, or the verifier fails, the modal stays.
Submit(u) ==
    /\ u \in modal
    /\ MayAct(u)
    /\ status = "open"
    /\ status' \in {"open"} \union (Outcome \cap {"completed", "verification_exhausted"})
    /\ modal' = modal \ {u}
    /\ Launch
    /\ UNCHANGED <<assignee, config, message, logged, notifier, click, missed, crashes>>

Handle(u) == ClaimTask(u) \/ ShowClaim(u) \/ ClaimNotShown(u)

-----------------------------------------------------------------------------
(***************************************************************************)
(* The rest of the server, as far as it touches what is modelled here.     *)
(***************************************************************************)
\* A terminal transition over HTTP, or by the timeout scheduler.
Settle ==
    /\ status = "open"
    /\ status' \in Outcome
    /\ Launch
    /\ UNCHANGED <<assignee, config, message, logged, notifier, click, modal, missed, crashes>>

\* The scheduler visits a row of its batch that has ended since: updated once more.
SweepSettled ==
    /\ Settled
    /\ Launch
    /\ UNCHANGED <<row, config, message, logged, notifier, click, modal, missed, crashes>>

\* A magic link completes the task; this channel updates no Slack message.
SettleByEmail ==
    /\ status = "open"
    /\ status' \in Outcome \cap {"completed", "verification_exhausted"}
    /\ missed' = Route
    /\ UNCHANGED <<assignee, config, message, logged, notifier, updater, click, modal, crashes>>

\* A claim in the dashboard or an e-mail hand-off, which leave Slack alone too.
AssignElsewhere(u) ==
    /\ status = "open"
    /\ assignee = NIL
    /\ assignee' = u
    /\ UNCHANGED <<status, config, message, logged, notifier, updater, click, modal, missed, crashes>>

Delete ==
    /\ status # "deleted"
    /\ status' = "deleted"
    /\ UNCHANGED <<assignee, config, message, logged, notifier, updater, click, modal, missed, crashes>>

\* The OAuth flow refuses to start where the environment has a token.
MayInstall == env = NIL

\* The table has one row per workspace: a reinstallation overwrites it.
Upserted(t) == installed \union {t}

Removed(t) == installed \ {t}

Install(t) ==
    /\ changes < MaxChanges
    /\ MayInstall
    /\ installed' = Upserted(t)
    /\ changes' = changes + 1
    /\ UNCHANGED <<row, env, message, logged, notifier, updater, click, modal, missed, crashes>>

Uninstall(t) ==
    /\ changes < MaxChanges
    /\ t \in installed
    /\ installed' = Removed(t)
    /\ changes' = changes + 1
    /\ UNCHANGED <<row, env, message, logged, notifier, updater, click, modal, missed, crashes>>

\* Background tasks and handlers die with the process.
Crash ==
    /\ crashes < MaxCrashes
    /\ crashes' = crashes + 1
    /\ missed' = missed \union notifier.pending
                 \union UNION {IF updater[x].pc = "updating" THEN updater[x].todo ELSE logged :
                                 x \in InFlight}
    /\ notifier' = [notifier EXCEPT !.pc = "done", !.todo = {}, !.pending = {}]
    /\ updater' = [x \in Updater |-> IF x \in InFlight THEN Finished ELSE updater[x]]
    /\ click' = [u \in User |-> NoClick]
    /\ UNCHANGED <<row, config, message, logged, modal>>

SlackNext ==
    \/ Notify
    \/ \E x \in Updater : Update(x)
    \/ \E u \in User : \/ Handle(u) \/ Submit(u) \/ AssignElsewhere(u)
                       \/ \E r \in Route : ClickClaim(u, r) \/ ClickOpen(u, r)
    \/ Settle \/ SweepSettled \/ SettleByEmail \/ Delete
    \/ \E t \in Team : Install(t) \/ Uninstall(t)
    \/ Crash

SlackSpec == SlackInit /\ [][SlackNext]_slackVars

-----------------------------------------------------------------------------
\* Once a task has ended and no update is on its way any more, a message that still
\* shows its buttons, or its claimer, is one that an update could not reach, had no
\* row when the update listed them, was written over by a late claim, or belongs to a
\* task completed by e-mail.
StaleMessagesExplained ==
    Settled /\ InFlight = {}
    => \A r \in Route \ missed : message[r].face \notin {"actionable", "claimed"}

\* A headline that names an outcome names the task's outcome, however the updates of
\* several endings and rejections overtook one another.
HeadlinesAreTrue ==
    \A r \in Route :
        message[r].face \in Terminal /\ status # "deleted" => message[r].face = status

\* A link that signs a user in, and the name of a claimer, are those of the task's
\* assignee, whichever of several claims Slack delivered and rewrote last.
LinksNameTheAssignee ==
    \A r \in Route : message[r].link # NIL => message[r].link = assignee
=============================================================================
