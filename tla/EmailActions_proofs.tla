------------------------ MODULE EmailActions_proofs ------------------------
(***************************************************************************)
(* Proofs about EmailActions, for every number of recipients, buttons,     *)
(* browsers, identities, crashes and changes.                              *)
(***************************************************************************)
EXTENDS EmailActions, TLAPS

-----------------------------------------------------------------------------
Holding == {"page", "checked", "burnt", "verifying"}

\* A request on behalf of a button knows its token, one on behalf of a link its address.
Grounded(b) ==
    /\ client[b].pc \in Holding => client[b].route \in Route /\ client[b].option \in Option
    /\ client[b].pc \in {"unknown", "known"} => client[b].route \in Route

Typed ==
    /\ TypeOK
    /\ \A b \in Browser : Grounded(b)

LEMMA IdleIsClient == Idle \in Client
  BY DEF Idle, Client

LEMMA InitTyped == Init => Typed
  <1> SUFFICES ASSUME Init PROVE Typed
      OBVIOUS
  <1>1. client \in [Browser -> Client] /\ \A b \in Browser : Grounded(b)
      BY IdleIsClient DEF Init, Grounded, Holding, Idle
  <1>2. used \in [Token -> Nat]
      BY DEF Init
  <1>3. crashes \in 0..MaxCrashes /\ changes \in 0..MaxChanges
      BY EmailAssumption DEF Init
  <1> QED
      BY <1>1, <1>2, <1>3 DEF Init, Typed, TypeOK

LEMMA TokenOfHolder ==
  ASSUME Typed, NEW b \in Browser, client[b].pc \in Holding
  PROVE  TokenOf(b) \in Token
  BY DEF Typed, Grounded, TokenOf, Token

\* The next request of one browser, typed and grounded, keeps all of them so.
LEMMA ClientStep ==
  ASSUME Typed, NEW b \in Browser, NEW w \in Client,
         client' = [client EXCEPT ![b] = w],
         w.pc \in Holding => w.route \in Route /\ w.option \in Option,
         w.pc \in {"unknown", "known"} => w.route \in Route
  PROVE  client' \in [Browser -> Client] /\ \A c \in Browser : Grounded(c)'
  BY DEF Typed, TypeOK, Grounded

LEMMA SameClient ==
  ASSUME Typed, UNCHANGED client
  PROVE  client' \in [Browser -> Client] /\ \A c \in Browser : Grounded(c)'
  BY DEF Typed, TypeOK, Grounded

LEMMA NotifyTyped == ASSUME Typed, Notify PROVE Typed'
  <1>1. CASE Load
      BY <1>1, SameClient DEF Load, Typed, TypeOK, task, config, tokens
  <1>2. ASSUME NEW r \in Route, Send(r) PROVE Typed'
      BY <1>2, SameClient DEF Send, Rest, Typed, TypeOK, task, config, tokens
  <1>3. ASSUME NEW r \in Route, Fail(r) PROVE Typed'
      BY <1>3, SameClient DEF Fail, Rest, Typed, TypeOK, task, config, tokens
  <1> QED
      BY <1>1, <1>2, <1>3 DEF Notify

LEMMA ButtonTyped == ASSUME Typed, NEW b \in Browser, Button(b) PROVE Typed'
  <1> USE DEF task, config, outbox, tokens
  <1> client[b] \in Client
      BY DEF Typed, TypeOK
  <1>1. CASE LeavePage(b)
      BY <1>1, ClientStep, IdleIsClient DEF LeavePage, Typed, TypeOK, Idle, Holding
  <1>2. CASE Check(b)
    <2> DEFINE w == IF TokenOf(b) \in consumed THEN Idle ELSE [client[b] EXCEPT !.pc = "checked"]
    <2>1. w \in Client /\ (w.pc \in Holding => w.route \in Route /\ w.option \in Option)
                       /\ w.pc \notin {"unknown", "known"}
        BY <1>2 DEF Check, Typed, Grounded, Holding, Idle, Client
    <2>2. client' = [client EXCEPT ![b] = w]
        BY <1>2 DEF Check
    <2> QED
        BY <1>2, <2>1, <2>2, ClientStep DEF Check, Typed, TypeOK
  <1>3. CASE Consume(b)
    <2> DEFINE w == IF Replayed(b) THEN Idle ELSE [client[b] EXCEPT !.pc = "burnt"]
    <2>1. w \in Client /\ (w.pc \in Holding => w.route \in Route /\ w.option \in Option)
                       /\ w.pc \notin {"unknown", "known"}
        BY <1>3 DEF Consume, Typed, Grounded, Holding, Idle, Client
    <2>2. client' = [client EXCEPT ![b] = w]
        BY <1>3 DEF Consume
    <2>3. TokenOf(b) \in Token
        BY <1>3, TokenOfHolder DEF Consume, Holding
    <2> QED
        BY <1>3, <2>1, <2>2, <2>3, ClientStep DEF Consume, Typed, TypeOK
  <1>4. CASE BeginSubmit(b)
    <2> DEFINE w == IF status = "open" THEN [client[b] EXCEPT !.pc = "verifying"] ELSE Idle
    <2>1. w \in Client /\ (w.pc \in Holding => w.route \in Route /\ w.option \in Option)
                       /\ w.pc \notin {"unknown", "known"}
        BY <1>4 DEF BeginSubmit, Typed, Grounded, Holding, Idle, Client
    <2>2. client' = [client EXCEPT ![b] = w]
        BY <1>4 DEF BeginSubmit
    <2> QED
        BY <1>4, <2>1, <2>2, ClientStep DEF BeginSubmit, Typed, TypeOK
  <1>5. CASE Record(b)
    <2>1. client' \in [Browser -> Client] /\ \A c \in Browser : Grounded(c)'
        BY <1>5, ClientStep, IdleIsClient DEF Record, Idle, Holding
    <2>2. status' \in {"open", "deleted"} \union Terminal
        BY <1>5 DEF Record, Typed, TypeOK, Terminal
    <2>3. used' \in [Token -> Nat]
        BY <1>5 DEF Record, Typed, TypeOK
    <2> QED
        BY <1>5, <2>1, <2>2, <2>3 DEF Record, Typed, TypeOK
  <1>6. CASE VerifierFails(b)
    <2>1. client' \in [Browser -> Client] /\ \A c \in Browser : Grounded(c)'
        BY <1>6, ClientStep, IdleIsClient DEF VerifierFails, Idle, Holding
    <2>2. TokenOf(b) \in Token
        BY <1>6, TokenOfHolder DEF VerifierFails, Holding
    <2> QED
        BY <1>6, <2>1, <2>2 DEF VerifierFails, Typed, TypeOK
  <1>7. ASSUME NEW t \in Token, OpenPage(b, t) PROVE Typed'
    <2> DEFINE w == [pc |-> "page", route |-> t[1], option |-> t[2]]
    <2>1. t[1] \in Route /\ t[2] \in Option
        BY DEF Token
    <2>2. w \in Client /\ w.pc = "page" /\ w.route \in Route /\ w.option \in Option
        BY <2>1 DEF Client
    <2> QED
        BY <1>7, <2>2, ClientStep DEF OpenPage, Typed, TypeOK
  <1> QED
      BY <1>1, <1>2, <1>3, <1>4, <1>5, <1>6, <1>7 DEF Button

LEMMA LinkTyped == ASSUME Typed, NEW b \in Browser, Link(b) PROVE Typed'
  <1> USE DEF task, config, outbox, tokens
  <1> client[b] \in Client
      BY DEF Typed, TypeOK
  <1>1. ASSUME NEW r \in Route, ClickLink(b, r) PROVE Typed'
    <2> DEFINE w == [Idle EXCEPT !.pc = IF account[r] = "none" THEN "unknown" ELSE "known",
                                 !.route = r]
    <2>1. w \in Client /\ w.pc \notin Holding /\ w.route \in Route
        BY DEF Client, Idle, Holding
    <2>2. client' = [client EXCEPT ![b] = w]
        BY <1>1 DEF ClickLink
    <2> QED
        BY <1>1, <2>1, <2>2, ClientStep DEF ClickLink, Typed, TypeOK
  <1>2. CASE Provision(b)
    <2>1. client[b].route \in Route
        BY <1>2 DEF Provision, Typed, Grounded
    <2>2. CASE account[client[b].route] = "none"
      <3> DEFINE w == [client[b] EXCEPT !.pc = "known"]
      <3>1. w \in Client /\ w.pc \notin Holding /\ w.route \in Route
          BY <2>1 DEF Client, Holding
      <3>2. client' = [client EXCEPT ![b] = w]
          BY <1>2, <2>2 DEF Provision, Typed, TypeOK
      <3> QED
          BY <1>2, <2>1, <2>2, <3>1, <3>2, ClientStep DEF Provision, Typed, TypeOK
    <2>3. CASE account[client[b].route] # "none"
        BY <1>2, <2>3, ClientStep, IdleIsClient DEF Provision, Typed, TypeOK, Idle, Holding
    <2> QED
        BY <2>2, <2>3
  <1>3. CASE ClaimAndSignIn(b)
    <2>1. client[b].route \in Route
        BY <1>3 DEF ClaimAndSignIn, Typed, Grounded
    <2>2. client' \in [Browser -> Client] /\ \A c \in Browser : Grounded(c)'
        BY <1>3, ClientStep, IdleIsClient DEF ClaimAndSignIn, Idle, Holding
    <2> QED
        BY <1>3, <2>1, <2>2 DEF ClaimAndSignIn, Typed, TypeOK
  <1> QED
      BY <1>1, <1>2, <1>3 DEF Link

\* What else the server does, one action at a time.
Elsewhere ==
    \/ Settle \/ Delete \/ PassDeadline
    \/ \E u \in Reviewer : AssignElsewhere(u)
    \/ \E s \in Sender : UpsertIdentity(s) \/ DeleteIdentity(s)
    \/ \E r \in Route : Administer(r)

LEMMA ElsewhereTyped == ASSUME Typed, Elsewhere PROVE Typed'
  <1> USE EmailAssumption DEF task, config, outbox, tokens
  <1>1. CASE Settle
      BY <1>1, SameClient DEF Settle, Typed, TypeOK
  <1>2. CASE Delete
      BY <1>2, SameClient DEF Delete, Typed, TypeOK
  <1>3. CASE PassDeadline
      BY <1>3, SameClient DEF PassDeadline, Typed, TypeOK
  <1>4. ASSUME NEW u \in Reviewer, AssignElsewhere(u) PROVE Typed'
      BY <1>4, SameClient DEF AssignElsewhere, Typed, TypeOK
  <1>5. ASSUME NEW s \in Sender, UpsertIdentity(s) \/ DeleteIdentity(s) PROVE Typed'
      BY <1>5, SameClient DEF UpsertIdentity, DeleteIdentity, Change, Typed, TypeOK
  <1>6. ASSUME NEW r \in Route, Administer(r) PROVE Typed'
      BY <1>6, SameClient DEF Administer, Change, Typed, TypeOK
  <1> QED
      BY <1>1, <1>2, <1>3, <1>4, <1>5, <1>6 DEF Elsewhere

LEMMA CrashTyped == ASSUME Typed, Crash PROVE Typed'
  <1> USE EmailAssumption DEF task, config
  <1>1. client' \in [Browser -> Client] /\ \A c \in Browser : Grounded(c)'
      BY IdleIsClient DEF Crash, Typed, TypeOK, Grounded, Idle, Holding
  <1>2. lost' \subseteq Token
      BY TokenOfHolder DEF Crash, Typed, TypeOK, Holding
  <1>3. crashes' \in 0..MaxCrashes
      BY DEF Crash, Typed, TypeOK
  <1> QED
      BY <1>1, <1>2, <1>3 DEF Crash, Typed, TypeOK

LEMMA NextCases ==
  ASSUME Next
  PROVE  Notify \/ Elsewhere \/ Crash \/ \E b \in Browser : Button(b) \/ Link(b)
  BY DEF Next, Elsewhere

LEMMA NextTyped == ASSUME Typed, [Next]_vars PROVE Typed'
  <1>1. CASE Next
      BY <1>1, NextCases, NotifyTyped, ElsewhereTyped, CrashTyped, ButtonTyped, LinkTyped
  <1>2. CASE UNCHANGED vars
      BY <1>2, SameClient DEF vars, Typed, TypeOK
  <1> QED
      BY <1>1, <1>2

\* Every variable has its type, and a request in flight its token or its address.
THEOREM AlwaysTyped == Spec => []Typed
  BY InitTyped, NextTyped, PTL DEF Spec

-----------------------------------------------------------------------------
(***************************************************************************)
(* Tokens.  A request that has burnt a token is the only one with it, and  *)
(* nothing has been recorded for it; what was recorded was burnt before.   *)
(***************************************************************************)
Carrying(b) == client[b].pc \in {"burnt", "verifying"}

Burnt(b) == Carrying(b) => TokenOf(b) \in consumed /\ used[TokenOf(b)] = 0

Alone(b, c) == Carrying(b) /\ Carrying(c) /\ TokenOf(b) = TokenOf(c) => b = c

Spent(t) == used[t] = 0 \/ (used[t] = 1 /\ t \in consumed)

Explained(t) ==
    t \in consumed /\ status = "open" => used[t] = 1 \/ InFlight(t) \/ t \in lost

Tokens ==
    /\ \A b \in Browser : Burnt(b)
    /\ \A b, c \in Browser : Alone(b, c)
    /\ \A t \in Token : Spent(t) /\ Explained(t)

LEMMA InitTokens == Init => Tokens
  <1> SUFFICES ASSUME Init PROVE Tokens
      OBVIOUS
  <1>1. \A b \in Browser : ~Carrying(b)
      BY DEF Init, Carrying, Idle
  <1>2. \A t \in Token : used[t] = 0 /\ t \notin consumed
      BY DEF Init
  <1>3. \A b, c \in Browser : Burnt(b) /\ Alone(b, c)
      BY <1>1 DEF Burnt, Alone
  <1>4. \A t \in Token : Spent(t) /\ Explained(t)
      BY <1>2 DEF Spent, Explained
  <1> QED
      BY <1>3, <1>4 DEF Tokens

\* What only ends the task, or has nothing to do with tokens.
LEMMA SameTokens ==
  ASSUME Typed, Tokens, UNCHANGED <<client, consumed, used, lost>>,
         status' = "open" => status = "open"
  PROVE  Tokens'
  BY DEF Tokens, Burnt, Alone, Carrying, Spent, Explained, InFlight, TokenOf

\* A browser that carries nothing, before and after.
LEMMA OtherClient ==
  ASSUME Typed, Tokens, UNCHANGED <<consumed, used, lost>>, NEW b \in Browser,
         ~Carrying(b), ~Carrying(b)', client' \in [Browser -> Client],
         \A c \in Browser \ {b} : client'[c] = client[c],
         status' = "open" => status = "open"
  PROVE  Tokens'
  <1>1. \A c \in Browser : Carrying(c)' <=> Carrying(c)
      BY DEF Carrying
  <1>2. \A c \in Browser : Carrying(c) => TokenOf(c)' = TokenOf(c)
      BY DEF TokenOf
  <1>3. \A t \in Token : InFlight(t)' <=> InFlight(t)
      BY <1>1, <1>2 DEF InFlight, Carrying
  <1> QED
      BY <1>1, <1>2, <1>3 DEF Tokens, Burnt, Alone, Spent, Explained

LEMMA ButtonTokens == ASSUME Typed, Tokens, NEW b \in Browser, Button(b) PROVE Tokens'
  <1> USE DEF task, config, outbox, tokens
  <1>0. client' \in [Browser -> Client]
      BY ButtonTyped DEF Typed, TypeOK
  <1>1. CASE LeavePage(b)
      BY <1>0, <1>1, OtherClient DEF LeavePage, Carrying, Idle, Typed, TypeOK
  <1>2. CASE Check(b)
      BY <1>0, <1>2, OtherClient DEF Check, Carrying, Idle, Typed, TypeOK, Client
  <1>3. CASE Consume(b)
    <2>1. CASE Replayed(b)
      <3>1. consumed' = consumed
          BY <1>3, <2>1 DEF Consume, Replayed
      <3> QED
          BY <1>0, <1>3, <2>1, <3>1, OtherClient DEF Consume, Carrying, Idle, Typed, TypeOK
    <2>2. CASE ~Replayed(b)
      <3> DEFINE tok == TokenOf(b)
      <3>1. tok \in Token /\ tok \notin consumed /\ used[tok] = 0
          BY <1>3, <2>2, TokenOfHolder DEF Consume, Replayed, Holding, Tokens, Spent
      <3>2. \A c \in Browser : Carrying(c)' <=> Carrying(c) \/ c = b
          BY <1>3, <2>2 DEF Consume, Carrying, Typed, TypeOK, Client
      <3>3. \A c \in Browser : TokenOf(c)' = TokenOf(c)
          BY <1>3, <2>2 DEF Consume, TokenOf, Typed, TypeOK, Client
      <3>4. \A c \in Browser : Carrying(c) => TokenOf(c) # tok
          BY <3>1 DEF Tokens, Burnt
      <3>5. consumed' = consumed \union {tok} /\ UNCHANGED <<used, lost, status>>
          BY <1>3 DEF Consume
      <3>6. \A c \in Browser : Burnt(c)'
          BY <3>1, <3>2, <3>3, <3>5 DEF Tokens, Burnt
      <3>7. \A c, d \in Browser : Alone(c, d)'
          BY <3>2, <3>3, <3>4 DEF Tokens, Alone
      <3>8. \A t \in Token : InFlight(t)' <=> InFlight(t) \/ t = tok
          BY <3>2, <3>3 DEF InFlight, Carrying
      <3>9. \A t \in Token : Spent(t)' /\ Explained(t)'
          BY <3>5, <3>8 DEF Tokens, Spent, Explained
      <3> QED
          BY <3>6, <3>7, <3>9 DEF Tokens
    <2> QED
        BY <2>1, <2>2
  <1>4. CASE BeginSubmit(b)
    <2>1. CASE status = "open"
      <3>1. \A c \in Browser : Carrying(c)' <=> Carrying(c)
          BY <1>4, <2>1 DEF BeginSubmit, Carrying, Typed, TypeOK, Client
      <3>2. \A c \in Browser : TokenOf(c)' = TokenOf(c)
          BY <1>4, <2>1 DEF BeginSubmit, TokenOf, Typed, TypeOK, Client
      <3>3. \A t \in Token : InFlight(t)' <=> InFlight(t)
          BY <3>1, <3>2 DEF InFlight, Carrying
      <3> QED
          BY <1>4, <3>1, <3>2, <3>3 DEF BeginSubmit, Tokens, Burnt, Alone, Spent, Explained
    <2>2. CASE status # "open"
      <3>1. ~Carrying(b)' /\ \A c \in Browser \ {b} : client'[c] = client[c]
          BY <1>4, <2>2 DEF BeginSubmit, Carrying, Idle, Typed, TypeOK
      <3>2. \A c \in Browser \ {b} : (Carrying(c)' <=> Carrying(c)) /\ TokenOf(c)' = TokenOf(c)
          BY <3>1 DEF Carrying, TokenOf
      <3>3. status' # "open" /\ UNCHANGED <<consumed, used, lost>>
          BY <1>4, <2>2 DEF BeginSubmit
      <3> QED
          BY <3>1, <3>2, <3>3 DEF Tokens, Burnt, Alone, Spent, Explained
    <2> QED
        BY <2>1, <2>2
  <1>5. CASE Record(b)
    <2>0. PICK tok \in Token : tok = TokenOf(b)
        BY <1>5, TokenOfHolder DEF Record, Holding
    <2>1. tok \in consumed /\ used[tok] = 0
        BY <1>5, <2>0 DEF Record, Tokens, Burnt, Carrying
    <2>2. ~Carrying(b)' /\ \A c \in Browser \ {b} : client'[c] = client[c]
        BY <1>5 DEF Record, Carrying, Idle, Typed, TypeOK
    <2>3. \A c \in Browser \ {b} : (Carrying(c)' <=> Carrying(c)) /\ TokenOf(c)' = TokenOf(c)
        BY <2>2 DEF Carrying, TokenOf
    <2>4. \A c \in Browser \ {b} : Carrying(c) => TokenOf(c) # tok
        BY <1>5, <2>0 DEF Record, Tokens, Alone, Carrying
    <2>5. UNCHANGED <<consumed, lost>>
        BY <1>5 DEF Record
    <2>6. \A t \in Token \ {tok} : used'[t] = used[t] /\ (InFlight(t) => InFlight(t)')
      <3>1. \A t \in Token \ {tok} : used'[t] = used[t]
          BY <1>5, <2>0 DEF Record, Typed, TypeOK
      <3>2. \A t \in Token \ {tok} : InFlight(t) => InFlight(t)'
          BY <2>0, <2>3 DEF InFlight, Carrying
      <3> QED
          BY <3>1, <3>2
    <2>7. IF status = "open" THEN used'[tok] = 1 ELSE used'[tok] = 0 /\ status' # "open"
        BY <1>5, <2>0, <2>1 DEF Record, Typed, TypeOK
    <2>8. \A c \in Browser : Burnt(c)'
        BY <2>2, <2>3, <2>4, <2>5, <2>6, TokenOfHolder DEF Tokens, Burnt, Carrying, Holding
    <2>9. \A c, d \in Browser : Alone(c, d)'
        BY <2>2, <2>3 DEF Tokens, Alone
    <2>10. \A t \in Token : Spent(t)' /\ Explained(t)'
      <3>1. status' = "open" => status = "open"
          BY <2>7
      <3>2. Spent(tok)' /\ Explained(tok)'
          BY <2>1, <2>5, <2>7 DEF Spent, Explained
      <3>3. \A t \in Token \ {tok} : Spent(t)' /\ Explained(t)'
          BY <2>5, <2>6, <3>1 DEF Tokens, Spent, Explained
      <3> QED
          BY <3>2, <3>3
    <2> QED
        BY <2>8, <2>9, <2>10 DEF Tokens
  <1>6. CASE VerifierFails(b)
    <2> DEFINE tok == TokenOf(b)
    <2>1. ~Carrying(b)' /\ \A c \in Browser \ {b} : client'[c] = client[c]
        BY <1>6 DEF VerifierFails, Carrying, Idle, Typed, TypeOK
    <2>2. \A c \in Browser \ {b} : (Carrying(c)' <=> Carrying(c)) /\ TokenOf(c)' = TokenOf(c)
        BY <2>1 DEF Carrying, TokenOf
    <2>3. UNCHANGED <<status, consumed, used>> /\ lost' = lost \union {tok}
        BY <1>6 DEF VerifierFails
    <2>4. \A t \in Token \ {tok} : InFlight(t) => InFlight(t)'
        BY <2>2 DEF InFlight, Carrying
    <2>5. \A t \in Token : Spent(t)' /\ Explained(t)'
        BY <2>3, <2>4 DEF Tokens, Spent, Explained
    <2> QED
        BY <2>1, <2>2, <2>3, <2>5 DEF Tokens, Burnt, Alone
  <1>7. ASSUME NEW t \in Token, OpenPage(b, t) PROVE Tokens'
      BY <1>0, <1>7, OtherClient DEF OpenPage, Carrying, Idle, Typed, TypeOK
  <1> QED
      BY <1>1, <1>2, <1>3, <1>4, <1>5, <1>6, <1>7 DEF Button

LEMMA LinkTokens == ASSUME Typed, Tokens, NEW b \in Browser, Link(b) PROVE Tokens'
  <1> USE DEF task, config, outbox, tokens
  <1>0. client' \in [Browser -> Client]
      BY LinkTyped DEF Typed, TypeOK
  <1>1. ASSUME NEW r \in Route, ClickLink(b, r) PROVE Tokens'
      BY <1>0, <1>1, OtherClient DEF ClickLink, Carrying, Idle, Typed, TypeOK
  <1>2. CASE Provision(b)
      BY <1>0, <1>2, OtherClient DEF Provision, Carrying, Idle, Typed, TypeOK, Client
  <1>3. CASE ClaimAndSignIn(b)
      BY <1>0, <1>3, OtherClient DEF ClaimAndSignIn, Carrying, Idle, Typed, TypeOK
  <1> QED
      BY <1>1, <1>2, <1>3 DEF Link

LEMMA CrashTokens == ASSUME Typed, Tokens, Crash PROVE Tokens'
  <1>1. \A b \in Browser : ~Carrying(b)'
      BY DEF Crash, Carrying, Idle
  <1>2. UNCHANGED <<status, consumed, used>>
      BY DEF Crash, task
  <1>3. \A t \in Token : InFlight(t) \/ t \in lost => t \in lost'
      BY DEF Crash, InFlight
  <1> QED
      BY <1>1, <1>2, <1>3 DEF Tokens, Burnt, Alone, Spent, Explained

LEMMA NextTokens == ASSUME Typed, Tokens, [Next]_vars PROVE Tokens'
  <1> USE DEF task, config, outbox, tokens
  <1>1. CASE Notify
      BY <1>1, SameTokens DEF Notify, Load, Send, Fail
  <1>2. CASE Elsewhere
    <2>1. UNCHANGED <<client, consumed, used, lost>>
        BY <1>2 DEF Elsewhere, Settle, Delete, PassDeadline, AssignElsewhere, UpsertIdentity,
                    DeleteIdentity, Administer, Change
    <2>2. status' = "open" => status = "open"
        BY <1>2 DEF Elsewhere, Settle, Delete, PassDeadline, AssignElsewhere, UpsertIdentity,
                    DeleteIdentity, Administer, Change
    <2> QED
        BY <2>1, <2>2, SameTokens
  <1>3. CASE UNCHANGED vars
      BY <1>3, SameTokens DEF vars
  <1> QED
      BY <1>1, <1>2, <1>3, NextCases, CrashTokens, ButtonTokens, LinkTokens

LEMMA AlwaysTokens == Spec => []Tokens
  <1>1. Typed /\ Tokens /\ [Next]_vars => Tokens'
      BY NextTokens
  <1> QED
      BY <1>1, InitTokens, AlwaysTyped, PTL DEF Spec

\* However often a button's page is opened and posted, from however many browsers, its
\* answer is recorded once at most.
THEOREM ButtonsActOnce == Spec => []TokensActOnce
  <1>1. Typed /\ Tokens => TokensActOnce
      BY DEF Tokens, Spent, TokensActOnce
  <1> QED
      BY <1>1, AlwaysTyped, AlwaysTokens, PTL

\* A button that no longer works on an open task has had its answer recorded, or lost
\* it to a failure of the verifier or of the process.
THEOREM BurntAlwaysExplained == Spec => []BurntTokensExplained
  <1>1. Typed /\ Tokens => BurntTokensExplained
      BY DEF Typed, TypeOK, Tokens, Explained, BurntTokensExplained
  <1> QED
      BY <1>1, AlwaysTyped, AlwaysTokens, PTL

-----------------------------------------------------------------------------
\* Owners: nobody gives an open task back.
LEMMA NextOwned == ASSUME Typed, LandedMeansOwned, [Next]_vars PROVE LandedMeansOwned'
  <1> USE EmailAssumption DEF task, config, outbox, tokens, LandedMeansOwned
  <1>1. CASE Notify
      BY <1>1 DEF Notify, Load, Send, Fail
  <1>2. CASE Elsewhere
    <2>1. CASE Settle \/ Delete \/ PassDeadline
        BY <2>1 DEF Settle, Delete, PassDeadline
    <2>2. ASSUME NEW u \in Reviewer, AssignElsewhere(u) PROVE LandedMeansOwned'
        BY <2>2 DEF AssignElsewhere
    <2>3. ASSUME NEW s \in Sender, UpsertIdentity(s) \/ DeleteIdentity(s) PROVE LandedMeansOwned'
        BY <2>3 DEF UpsertIdentity, DeleteIdentity, Change
    <2>4. ASSUME NEW r \in Route, Administer(r) PROVE LandedMeansOwned'
        BY <2>4 DEF Administer, Change
    <2> QED
        BY <1>2, <2>1, <2>2, <2>3, <2>4 DEF Elsewhere
  <1>3. CASE Crash
      BY <1>3 DEF Crash
  <1>4. ASSUME NEW b \in Browser, Button(b) PROVE LandedMeansOwned'
      BY <1>4 DEF Button, LeavePage, Check, Consume, BeginSubmit, Record, VerifierFails, OpenPage
  <1>5. ASSUME NEW b \in Browser, Link(b) PROVE LandedMeansOwned'
    <2>1. CASE Provision(b) \/ \E r \in Route : ClickLink(b, r)
        BY <2>1 DEF Provision, ClickLink
    <2>2. CASE ClaimAndSignIn(b)
      <3>1. client[b].route \in Route
          BY <2>2 DEF ClaimAndSignIn, Typed, Grounded
      <3> QED
          BY <2>2, <3>1 DEF ClaimAndSignIn
    <2> QED
        BY <1>5, <2>1, <2>2 DEF Link
  <1>6. CASE UNCHANGED vars
      BY <1>6 DEF vars
  <1> QED
      BY <1>1, <1>2, <1>3, <1>4, <1>5, <1>6, NextCases

\* Whoever came through a link while the task is open finds an owner on it: the
\* recipient, or whoever was faster.
THEOREM LandedAlwaysOwned == Spec => []LandedMeansOwned
  <1>1. Init => LandedMeansOwned
      BY DEF Init, LandedMeansOwned
  <1>2. Typed /\ LandedMeansOwned /\ [Next]_vars => LandedMeansOwned'
      BY NextOwned
  <1> QED
      BY <1>1, <1>2, AlwaysTyped, PTL DEF Spec
=============================================================================
