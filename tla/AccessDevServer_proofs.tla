---------------------- MODULE AccessDevServer_proofs -----------------------
(***************************************************************************)
(* Proofs about Access and TaskViews, for every set of users, keys, tasks  *)
(* and requests, every lifetime and every length of the clock; and about   *)
(* DevServer, for every set of runs, directories and agents.  The two have *)
(* nothing in common but the secret that a development server starts with. *)
(***************************************************************************)
EXTENDS Access, DevServer, TLAPS, FiniteSetTheorems

-----------------------------------------------------------------------------
\* TypeOK, as far as credentials go: the limiter's lists are left out.
Credentials ==
    /\ now \in Nat
    /\ user \in [User -> Row]
    /\ key \in [Key -> {"unused", "live", "revoked"}]
    /\ sessions \subseteq Session
    /\ embeds \subseteq Embed
    /\ request \in [Request -> Pending]
    /\ ledAt \in [User -> Nat]
    /\ revokedAt \in [Key -> Nat]

\* What a request in progress goes by.
Grounded(w) ==
    /\ w.pc \in {"knocking", "linked"} => w.user \in User
    /\ w.pc = "keyed" => w.key \in Key /\ key[w.key] # "unused"

Typed ==
    /\ Credentials
    /\ \A c \in Request : Grounded(request[c])

LEMMA IdleIsPending == Idle \in Pending /\ Idle.pc = "idle"
  BY DEF Idle, Pending

LEMMA InitTyped == Init => Typed
  <1> SUFFICES ASSUME Init PROVE Typed
      OBVIOUS
  <1>1. request \in [Request -> Pending] /\ \A c \in Request : Grounded(request[c])
      BY IdleIsPending DEF Init, Grounded
  <1>2. user \in [User -> Row]
      BY DEF Init, Row
  <1> QED
      BY <1>1, <1>2 DEF Init, Typed, Credentials

LEMMA RequestTyped ==
  ASSUME Typed, NEW c \in Request
  PROVE  request[c] \in Pending /\ Grounded(request[c])
  BY DEF Typed, Credentials

\* One request moves on, the keys stay as they are.
LEMMA RequestStep ==
  ASSUME Typed, NEW c \in Request, NEW w \in Pending, Grounded(w),
         request' = [request EXCEPT ![c] = w], UNCHANGED key
  PROVE  request' \in [Request -> Pending] /\ \A d \in Request : Grounded(request[d])'
  BY DEF Typed, Credentials, Grounded

LEMMA DoneStep ==
  ASSUME Typed, NEW c \in Request, Done(c), UNCHANGED key
  PROVE  request' \in [Request -> Pending] /\ \A d \in Request : Grounded(request[d])'
  BY RequestStep, IdleIsPending DEF Done, Grounded

LEMMA SameRequests ==
  ASSUME Typed, UNCHANGED request,
         \A k \in Key : key[k] # "unused" => key'[k] # "unused"
  PROVE  request' \in [Request -> Pending] /\ \A d \in Request : Grounded(request[d])'
  BY DEF Typed, Credentials, Grounded

LEMMA TtlTyped == {SessionTtl, DefaultTtl, MinTtl, MaxTtl, Leeway} \subseteq Nat
  BY AccessAssumption

\* A lifetime is never longer than the longest one allowed.
LEMMA ClampedBounded ==
  ASSUME NEW ttl \in Nat
  PROVE  Clamped(ttl) \in Nat /\ Clamped(ttl) <= MaxTtl
  <1>1. ASSUME NEW a \in Nat, NEW b \in Nat
        PROVE  /\ Min({a, b}) \in {a, b} /\ Min({a, b}) <= a /\ Min({a, b}) <= b
               /\ Max({a, b}) \in {a, b}
    <2>1. \E x \in {a, b} : \A y \in {a, b} : x <= y
        OBVIOUS
    <2>2. \E x \in {a, b} : \A y \in {a, b} : x >= y
        OBVIOUS
    <2> QED
        BY <2>1, <2>2 DEF Min, Max
  <1>2. MinTtl \in Nat /\ MaxTtl \in Nat /\ MinTtl <= MaxTtl
      BY AccessAssumption
  <1>3. Min({ttl, MaxTtl}) \in Nat /\ Min({ttl, MaxTtl}) <= MaxTtl
      BY <1>1, <1>2
  <1> QED
      BY <1>1, <1>2, <1>3 DEF Clamped

LEMMA SignTyped ==
  ASSUME Typed, NEW u \in User, NEW operator \in BOOLEAN, SignSession(u, operator)
  PROVE  sessions' \subseteq Session
  <1>1. now + SessionTtl \in Nat
      BY TtlTyped DEF Typed, Credentials
  <1> QED
      BY <1>1 DEF SignSession, Session, Typed, Credentials

LEMMA SignInTyped == ASSUME Typed, NEW c \in Request, SignIn(c) PROVE Typed'
  <1> USE DEF records, limiter
  <1>1. CASE Enter(c)
    <2>1. request[c].user \in User
        BY <1>1, RequestTyped DEF Enter, Grounded
    <2>2. sessions' \subseteq Session
        BY <1>1, <2>1, SignTyped DEF Enter, Typed, Credentials, Row
    <2> QED
        BY <1>1, <2>2, DoneStep DEF Enter, Typed, Credentials
  <1>2. CASE Reject(c)
      BY <1>2, DoneStep DEF Reject, Typed, Credentials
  <1>3. CASE FinishHandoff(c)
    <2>1. request[c].user \in User /\ request[c].operator \in BOOLEAN
        BY <1>3, RequestTyped DEF FinishHandoff, Grounded, Pending
    <2>2. sessions' \subseteq Session
        BY <1>3, <2>1, SignTyped DEF FinishHandoff
    <2> QED
        BY <1>3, <2>2, DoneStep DEF FinishHandoff, Typed, Credentials
  <1>4. ASSUME NEW u \in User, EmailHandoff(c, u) PROVE Typed'
    <2> DEFINE w == [Idle EXCEPT !.pc = "linked", !.user = u, !.operator = user[u].operator]
    <2>1. w \in Pending /\ Grounded(w)
        BY IdleIsPending DEF Pending, Grounded, Typed, Credentials, Row
    <2>2. request' = [request EXCEPT ![c] = w] /\ UNCHANGED <<now, records, sessions, embeds>>
        BY <1>4 DEF EmailHandoff
    <2> HIDE DEF w
    <2>3. request' \in [Request -> Pending] /\ \A d \in Request : Grounded(request[d])'
        BY <2>1, <2>2, RequestStep
    <2> QED
        BY <2>2, <2>3 DEF Typed, Credentials
  <1>5. ASSUME NEW u \in User, NEW a \in Address, Knock(c, u, a) PROVE Typed'
    <2> DEFINE w == [Idle EXCEPT !.pc = "knocking", !.user = u]
    <2>1. w \in Pending /\ Grounded(w)
        BY IdleIsPending DEF Pending, Grounded
    <2>2. /\ request' = [request EXCEPT ![c] = w] \/ UNCHANGED request
          /\ UNCHANGED <<now, records, sessions, embeds>>
        BY <1>5 DEF Knock
    <2> HIDE DEF w
    <2>3. request' \in [Request -> Pending] /\ \A d \in Request : Grounded(request[d])'
        BY <2>1, <2>2, RequestStep, SameRequests
    <2> QED
        BY <2>2, <2>3 DEF Typed, Credentials
  <1> QED
      BY <1>1, <1>2, <1>3, <1>4, <1>5 DEF SignIn

\* What a minted token is.
Minted(k, ttl) == [key |-> k, expires |-> now + Clamped(Asked(ttl))]

LEMMA MintedTyped ==
  ASSUME Typed, NEW k \in Key, NEW ttl \in Ask
  PROVE  /\ Minted(k, ttl) \in Embed
         /\ Minted(k, ttl).key = k
         /\ now <= Minted(k, ttl).expires /\ Minted(k, ttl).expires <= now + MaxTtl
  <1>1. Asked(ttl) \in Nat
      BY AccessAssumption, TtlTyped DEF Asked
  <1>2. Clamped(Asked(ttl)) \in Nat /\ Clamped(Asked(ttl)) <= MaxTtl
      BY <1>1, ClampedBounded
  <1>3. now \in Nat /\ MaxTtl \in Nat
      BY TtlTyped DEF Typed, Credentials
  <1> QED
      BY <1>2, <1>3 DEF Minted, Embed

LEMMA MintStep ==
  ASSUME NEW c \in Request, NEW o \in Origin, NEW ttl \in Ask, MintEmbed(c, o, ttl)
  PROVE  /\ request[c].pc = "keyed"
         /\ embeds' = embeds \/ embeds' = embeds \union {Minted(request[c].key, ttl)}
         /\ slow' = IF embeds' # embeds /\ key[request[c].key] = "revoked"
                    THEN slow \union {request[c].key} ELSE slow
         /\ Done(c)
         /\ UNCHANGED <<now, user, key, ledAt, revokedAt, sessions>>
  BY DEF MintEmbed, Touch, Minted

LEMMA EmbedTyped ==
  ASSUME Typed,
         \/ \E k \in Key : CreateKey(k) \/ RevokeKey(k)
         \/ \E c \in Request, k \in Key : ReadKey(c, k)
         \/ \E c \in Request, o \in Origin, ttl \in Ask : MintEmbed(c, o, ttl)
  PROVE  Typed'
  <1> USE DEF records, limiter
  <1>1. ASSUME NEW k \in Key, CreateKey(k) \/ RevokeKey(k) PROVE Typed'
    <2>1. key' \in [Key -> {"unused", "live", "revoked"}]
        BY <1>1 DEF CreateKey, RevokeKey, Typed, Credentials
    <2>2. revokedAt' \in [Key -> Nat]
        BY <1>1 DEF CreateKey, RevokeKey, Typed, Credentials
    <2>3. UNCHANGED request /\ \A l \in Key : key[l] # "unused" => key'[l] # "unused"
        BY <1>1 DEF CreateKey, RevokeKey, Typed, Credentials
    <2>4. UNCHANGED <<now, user, ledAt, sessions, embeds>>
        BY <1>1 DEF CreateKey, RevokeKey
    <2>5. request' \in [Request -> Pending] /\ \A d \in Request : Grounded(request[d])'
        BY <2>3, SameRequests
    <2> QED
        BY <2>1, <2>2, <2>4, <2>5 DEF Typed, Credentials
  <1>2. ASSUME NEW c \in Request, NEW k \in Key, ReadKey(c, k) PROVE Typed'
    <2> DEFINE w == [Idle EXCEPT !.pc = "keyed", !.key = k]
    <2>1. w \in Pending
        BY IdleIsPending DEF Pending
    <2>2. Grounded(w)
        BY <1>2, IdleIsPending DEF Pending, Grounded, ReadKey
    <2>3. request' = [request EXCEPT ![c] = w] /\ UNCHANGED <<now, records, sessions, embeds>>
        BY <1>2 DEF ReadKey
    <2> HIDE DEF w
    <2>4. request' \in [Request -> Pending] /\ \A d \in Request : Grounded(request[d])'
        BY <2>1, <2>2, <2>3, RequestStep
    <2> QED
        BY <2>3, <2>4 DEF Typed, Credentials
  <1>3. ASSUME NEW c \in Request, NEW o \in Origin, NEW ttl \in Ask, MintEmbed(c, o, ttl)
        PROVE  Typed'
    <2>1. request[c].key \in Key
        BY <1>3, MintStep, RequestTyped DEF Grounded
    <2>2. embeds' \subseteq Embed
        BY <1>3, <2>1, MintStep, MintedTyped DEF Typed, Credentials
    <2> QED
        BY <1>3, <2>2, MintStep, DoneStep DEF Typed, Credentials
  <1> QED
      BY <1>1, <1>2, <1>3

LEMMA OtherTyped ==
  ASSUME Typed,
         \/ \E u \in User : SlackHandoff(u) \/ ChangeUser(u)
         \/ \E s \in sessions : Logout(s)
         \/ Tick \/ Restart
  PROVE  Typed'
  <1> USE DEF records, limiter
  <1>1. ASSUME NEW u \in User, SlackHandoff(u) PROVE Typed'
    <2>1. sessions' \subseteq Session
        BY <1>1, SignTyped DEF SlackHandoff, Typed, Credentials, Row
    <2> QED
        BY <1>1, <2>1, SameRequests DEF SlackHandoff, Typed, Credentials
  <1>2. ASSUME NEW u \in User, ChangeUser(u) PROVE Typed'
    <2>1. user' \in [User -> Row]
        BY <1>2 DEF ChangeUser, Typed, Credentials
    <2>2. ledAt' \in [User -> Nat]
        BY <1>2 DEF ChangeUser, Typed, Credentials
    <2> QED
        BY <1>2, <2>1, <2>2, SameRequests DEF ChangeUser, Typed, Credentials
  <1>3. ASSUME NEW s \in sessions, Logout(s) PROVE Typed'
      BY <1>3, SameRequests DEF Logout, Typed, Credentials
  <1>4. CASE Tick
      BY <1>4, SameRequests DEF Tick, Typed, Credentials
  <1>5. CASE Restart
    <2>1. request' \in [Request -> Pending] /\ \A d \in Request : Grounded(request[d])'
        BY <1>5, IdleIsPending DEF Restart, Grounded
    <2> QED
        BY <1>5, <2>1 DEF Restart, Typed, Credentials
  <1> QED
      BY <1>1, <1>2, <1>3, <1>4, <1>5

LEMMA NextTyped == ASSUME Typed, [Next]_vars PROVE Typed'
  <1>1. CASE UNCHANGED vars
      BY <1>1, SameRequests DEF vars, Typed, Credentials
  <1> QED
      BY <1>1, SignInTyped, EmbedTyped, OtherTyped DEF Next

\* Users, keys, cookies and tokens keep their types, and requests what they go by: Access.
THEOREM AlwaysTyped == Spec => []Typed
  <1> QED
      BY InitTyped, NextTyped, PTL DEF Spec

-----------------------------------------------------------------------------
LEMMA NextRevoked ==
  ASSUME Typed, Next, NEW k \in Key, key[k] = "revoked"
  PROVE  key'[k] = "revoked"
  <1> USE DEF records
  <1>1. ASSUME NEW c \in Request, SignIn(c) PROVE UNCHANGED key
      BY <1>1 DEF SignIn, Enter, Reject, FinishHandoff, EmailHandoff, Knock
  <1>2. ASSUME NEW l \in Key, CreateKey(l) \/ RevokeKey(l) PROVE key'[k] = "revoked"
      BY <1>2 DEF CreateKey, RevokeKey, Typed, Credentials
  <1>3. ASSUME NEW c \in Request, NEW o \in Origin, NEW ttl \in Ask, MintEmbed(c, o, ttl)
        PROVE  UNCHANGED key
      BY <1>3, MintStep
  <1> QED
      BY <1>1, <1>2, <1>3
         DEF Next, ReadKey, SlackHandoff, ChangeUser, Logout, Tick, Restart

\* A revoked key stays revoked, whatever the requests do that read it while it was live.
THEOREM KeysAlwaysStayRevoked == Spec => KeysStayRevoked
  <1>1. Typed /\ [Next]_vars => [\A k \in Key : key[k] = "revoked" => key'[k] = "revoked"]_vars
      BY NextRevoked
  <1> QED
      BY <1>1, AlwaysTyped, PTL DEF Spec, KeysStayRevoked

-----------------------------------------------------------------------------
(***************************************************************************)
(* Credentials fade because each one expires within its lifetime of every  *)
(* moment it was there, and the record of when its user was last an        *)
(* operator, or its key revoked, is made while it is there.                *)
(***************************************************************************)
SessionFades(s) ==
    /\ now <= s.expires /\ s.expires <= now + SessionTtl
    /\ s.operator => \/ Leads(s.user) \/ s.user \in slow
                     \/ s.expires <= ledAt[s.user] + SessionTtl

EmbedFades(e) ==
    /\ now < e.expires + Leeway /\ e.expires <= now + MaxTtl
    /\ \/ key[e.key] = "live" \/ e.key \in slow
       \/ e.expires <= revokedAt[e.key] + MaxTtl

Fading ==
    /\ \A u \in User : ledAt[u] <= now
    /\ \A k \in Key : revokedAt[k] <= now
    /\ \A s \in sessions : SessionFades(s)
    /\ \A e \in embeds : EmbedFades(e)

LEMMA SessionTyped ==
  ASSUME Typed, NEW s \in sessions
  PROVE  /\ s.user \in User /\ s.expires \in Nat
         /\ now \in Nat /\ ledAt[s.user] \in Nat /\ SessionTtl \in Nat
  BY TtlTyped DEF Typed, Credentials, Session

LEMMA TokenTyped ==
  ASSUME Typed, NEW e \in embeds
  PROVE  /\ e.key \in Key /\ e.expires \in Nat /\ key[e.key] \in {"unused", "live", "revoked"}
         /\ now \in Nat /\ revokedAt[e.key] \in Nat /\ MaxTtl \in Nat /\ Leeway \in Nat
  BY TtlTyped DEF Typed, Credentials, Embed

LEMMA FadingFades == ASSUME Typed, Fading PROVE CredentialsFade
  <1>1. ASSUME NEW s \in sessions, s.operator
        PROVE  Leads(s.user) \/ s.user \in slow \/ now <= ledAt[s.user] + SessionTtl
      BY <1>1, SessionTyped DEF Fading, SessionFades
  <1>2. ASSUME NEW e \in embeds
        PROVE  key[e.key] = "live" \/ e.key \in slow
               \/ now < revokedAt[e.key] + MaxTtl + Leeway
      BY TokenTyped DEF Fading, EmbedFades
  <1> QED
      BY <1>1, <1>2 DEF CredentialsFade, LeadsYet, LivesYet

LEMMA InitFading == Init => Fading
  BY DEF Init, Fading

\* A new cookie, and all that stays as it was.
LEMMA SignFading ==
  ASSUME Typed, Fading, NEW u \in User, NEW operator \in BOOLEAN,
         SignSession(u, operator), operator => Leads(u) \/ u \in slow', slow \subseteq slow',
         UNCHANGED <<now, user, key, ledAt, revokedAt, embeds>>
  PROVE  Fading'
  <1> PICK new : new = [user |-> u, operator |-> operator, expires |-> now + SessionTtl]
      OBVIOUS
  <1>1. SessionFades(new)'
      BY TtlTyped DEF SessionFades, Leads, Typed, Credentials
  <1>2. ASSUME NEW s \in sessions PROVE SessionFades(s)'
      BY DEF Fading, SessionFades, Leads
  <1>3. sessions' = sessions \union {new}
      BY DEF SignSession
  <1>4. \A s \in sessions' : SessionFades(s)'
      BY <1>1, <1>2, <1>3
  <1>5. \A e \in embeds' : EmbedFades(e)'
      BY DEF Fading, EmbedFades
  <1> QED
      BY <1>4, <1>5 DEF Fading

\* Nothing new, and what there is less or later explained.
LEMMA SameFading ==
  ASSUME Fading, sessions' \subseteq sessions,
         UNCHANGED <<now, user, key, ledAt, revokedAt, embeds, slow>>
  PROVE  Fading'
  BY DEF Fading, SessionFades, EmbedFades, Leads

LEMMA SignInFading == ASSUME Typed, Fading, NEW c \in Request, SignIn(c) PROVE Fading'
  <1> USE DEF records, limiter
  <1>1. CASE Enter(c)
    <2>1. request[c].user \in User
        BY <1>1, RequestTyped DEF Enter, Grounded
    <2>2. user[request[c].user].operator \in BOOLEAN
        BY <2>1 DEF Typed, Credentials, Row
    <2> QED
        BY <1>1, <2>1, <2>2, SignFading DEF Enter, Leads
  <1>2. CASE FinishHandoff(c)
    <2>1. request[c].user \in User /\ request[c].operator \in BOOLEAN
        BY <1>2, RequestTyped DEF FinishHandoff, Grounded, Pending
    <2> QED
        BY <1>2, <2>1, SignFading DEF FinishHandoff
  <1>3. CASE Reject(c) \/ (\E u \in User : EmailHandoff(c, u))
             \/ (\E u \in User, a \in Address : Knock(c, u, a))
      BY <1>3, SameFading DEF Reject, EmailHandoff, Knock
  <1> QED
      BY <1>1, <1>2, <1>3 DEF SignIn

LEMMA MintFading ==
  ASSUME Typed, Fading, NEW c \in Request, NEW o \in Origin, NEW ttl \in Ask,
         MintEmbed(c, o, ttl)
  PROVE  Fading'
  <1> PICK k : k = request[c].key
      OBVIOUS
  <1> PICK new : new = Minted(k, ttl)
      OBVIOUS
  <1>1. k \in Key /\ key[k] # "unused"
      BY MintStep, RequestTyped DEF Grounded
  <1>2. /\ slow \subseteq slow'
        /\ UNCHANGED <<now, user, key, ledAt, revokedAt, sessions>>
      BY MintStep
  <1>3. ASSUME NEW e \in embeds PROVE EmbedFades(e)'
      BY <1>2 DEF Fading, EmbedFades
  <1>4. CASE embeds' # embeds
    <2>1. key[k] = "live" \/ k \in slow'
        BY <1>1, <1>4, MintStep DEF Typed, Credentials
    <2>2. new.key = k /\ new \in Embed /\ now <= new.expires /\ new.expires <= now + MaxTtl
        BY <1>1, MintedTyped
    <2>3. now < new.expires + Leeway
        BY <2>2, AccessAssumption DEF Typed, Credentials, Embed
    <2>4. EmbedFades(new)'
        BY <1>2, <2>1, <2>2, <2>3 DEF EmbedFades
    <2>5. embeds' = embeds \union {new}
        BY <1>4, MintStep
    <2>6. \A e \in embeds' : EmbedFades(e)'
        BY <1>3, <2>4, <2>5
    <2> QED
        BY <1>2, <2>6 DEF Fading, SessionFades, Leads
  <1>5. CASE embeds' = embeds
      BY <1>2, <1>3, <1>5 DEF Fading, SessionFades, Leads
  <1> QED
      BY <1>4, <1>5

LEMMA RevokeFading ==
  ASSUME Typed, Fading, NEW k \in Key, CreateKey(k) \/ RevokeKey(k)
  PROVE  Fading'
  <1>1. UNCHANGED <<now, user, ledAt, sessions, embeds, slow>>
      BY DEF CreateKey, RevokeKey
  <1>2. \A s \in sessions' : SessionFades(s)'
      BY <1>1 DEF Fading, SessionFades, Leads
  <1>3. CASE CreateKey(k)
    <2>1. UNCHANGED revokedAt /\ \A l \in Key : key[l] = "live" => key'[l] = "live"
        BY <1>3 DEF CreateKey, Typed, Credentials
    <2>2. \A e \in embeds' : EmbedFades(e)'
        BY <1>1, <2>1, TokenTyped DEF Fading, EmbedFades
    <2> QED
        BY <1>1, <1>2, <2>1, <2>2 DEF Fading
  <1>4. CASE RevokeKey(k)
    <2>1. /\ revokedAt'[k] = now
          /\ \A l \in Key : l # k => revokedAt'[l] = revokedAt[l] /\ key'[l] = key[l]
      <3>1. key \in [Key -> {"unused", "live", "revoked"}] /\ revokedAt \in [Key -> Nat]
          BY DEF Typed, Credentials
      <3> QED
          BY <1>4, <3>1 DEF RevokeKey
    <2>2. now \in Nat
        BY DEF Typed, Credentials
    <2>3. \A l \in Key : revokedAt'[l] <= now'
        BY <1>1, <2>1, <2>2 DEF Fading
    <2>4. ASSUME NEW e \in embeds PROVE EmbedFades(e)'
      <3>1. EmbedFades(e) /\ e.key \in Key
          BY TokenTyped DEF Fading
      <3>2. CASE e.key = k
          BY <1>1, <2>1, <3>1, <3>2 DEF EmbedFades
      <3>3. CASE e.key # k
          BY <1>1, <2>1, <3>1, <3>3 DEF EmbedFades
      <3> QED
          BY <3>2, <3>3
    <2> QED
        BY <1>1, <1>2, <2>3, <2>4 DEF Fading
  <1> QED
      BY <1>3, <1>4

LEMMA ChangeFading ==
  ASSUME Typed, Fading, NEW u \in User, ChangeUser(u)
  PROVE  Fading'
  <1>1. UNCHANGED <<now, key, revokedAt, sessions, embeds, slow>>
      BY DEF ChangeUser
  <1>2. now \in Nat /\ ledAt \in [User -> Nat]
      BY DEF Typed, Credentials
  <1>3. \A v \in User : v # u => ledAt'[v] = ledAt[v] /\ user'[v] = user[v]
      BY DEF ChangeUser, Typed, Credentials
  <1>4. ledAt'[u] = IF Leads(u) THEN now ELSE ledAt[u]
      BY <1>2 DEF ChangeUser
  <1>5. \A v \in User : ledAt'[v] <= now'
      BY <1>1, <1>2, <1>3, <1>4 DEF Fading
  <1>6. ASSUME NEW s \in sessions PROVE SessionFades(s)'
    <2>1. SessionFades(s) /\ s.user \in User /\ s.expires \in Nat
        BY SessionTyped DEF Fading
    <2>2. CASE s.user # u
        BY <1>1, <1>3, <2>1, <2>2 DEF SessionFades, Leads
    <2>3. CASE s.user = u /\ Leads(u)
        BY <1>1, <1>4, <2>1, <2>3 DEF SessionFades
    <2>4. CASE s.user = u /\ ~Leads(u)
        BY <1>1, <1>4, <2>1, <2>4 DEF SessionFades
    <2> QED
        BY <2>2, <2>3, <2>4
  <1>7. \A e \in embeds' : EmbedFades(e)'
      BY <1>1 DEF Fading, EmbedFades
  <1> QED
      BY <1>1, <1>5, <1>6, <1>7 DEF Fading

LEMMA TickFading == ASSUME Typed, Fading, Tick PROVE Fading'
  <1> USE DEF records
  <1>1. now \in Nat /\ now' = now + 1 /\ UNCHANGED <<user, key, ledAt, revokedAt, slow>>
      BY DEF Tick, Typed, Credentials
  <1>2. ASSUME NEW s \in sessions' PROVE SessionFades(s)'
    <2>1. s \in sessions /\ now' <= s.expires
        BY DEF Tick, Believed
    <2>2. SessionFades(s) /\ s.expires \in Nat /\ SessionTtl \in Nat
        BY <2>1, SessionTyped DEF Fading
    <2> QED
        BY <1>1, <2>1, <2>2 DEF SessionFades, Leads
  <1>3. ASSUME NEW e \in embeds' PROVE EmbedFades(e)'
    <2>1. e \in embeds /\ now' < e.expires + Leeway
        BY DEF Tick, Accepted
    <2>2. EmbedFades(e) /\ e.expires \in Nat /\ MaxTtl \in Nat
        BY <2>1, TokenTyped DEF Fading
    <2> QED
        BY <1>1, <2>1, <2>2 DEF EmbedFades
  <1>4. (\A u \in User : ledAt'[u] <= now') /\ (\A k \in Key : revokedAt'[k] <= now')
      BY <1>1 DEF Fading, Typed, Credentials
  <1> QED
      BY <1>2, <1>3, <1>4 DEF Fading

LEMMA NextFading == ASSUME Typed, Fading, [Next]_vars PROVE Fading'
  <1> USE DEF records, limiter
  <1>1. ASSUME NEW u \in User, SlackHandoff(u) PROVE Fading'
    <2>1. user[u].operator \in BOOLEAN
        BY DEF Typed, Credentials, Row
    <2> QED
        BY <1>1, <2>1, SignFading DEF SlackHandoff, Leads
  <1>2. CASE \/ \E c \in Request, k \in Key : ReadKey(c, k)
             \/ \E s \in sessions : Logout(s)
             \/ Restart
             \/ UNCHANGED vars
      BY <1>2, SameFading DEF ReadKey, Logout, Restart, vars
  <1> QED
      BY <1>1, <1>2, SignInFading, MintFading, RevokeFading, ChangeFading, TickFading DEF Next

\* An operator's cookie outlives the demotion by one session lifetime at most, and an
\* embed token the revocation of its key by the longest token lifetime and the leeway,
\* but for credentials signed from a row read before the change.
THEOREM CredentialsAlwaysFade == Spec => []CredentialsFade
  <1>1. Typed /\ Fading => CredentialsFade
      BY FadingFades
  <1> QED
      BY <1>1, InitFading, NextFading, AlwaysTyped, PTL DEF Spec
-----------------------------------------------------------------------------
(***************************************************************************)
(* The window holds because an address's list is never longer than the     *)
(* limit and still has every attempt let through that is within a window   *)
(* of now.  No attempt is lost in the count: the attempts of one instant   *)
(* have different numbers.                                                 *)
(***************************************************************************)
Numbered(s) == \A h \in s : h.nth <= Cardinality({g \in s : g.at = h.at})

ListKept(s) ==
    /\ s \subseteq Attempt /\ IsFiniteSet(s)
    /\ Cardinality(s) <= Limit
    /\ Numbered(s)
    /\ \A h \in s : h.at <= now

InWindow(a, t) == {h \in admitted[a] : h.at <= t /\ h.at + Window > t}

Tallied ==
    /\ hits \in [Address \union User -> SUBSET Attempt]
    /\ admitted \in [Address -> SUBSET Attempt]
    /\ \A w \in Address \union User : ListKept(hits[w])
    /\ \A a \in Address : \A h \in admitted[a] :
          h.at <= now /\ (h.at + Window > now => h \in hits[a])
    /\ WindowHolds

LEMMA LimitsTyped == Limit \in Nat \ {0} /\ Window \in Nat \ {0} /\ Address \intersect User = {}
  BY AccessAssumption

\* An attempt that is let through is one more on the list, told apart from those there.
LEMMA HitCounts ==
  ASSUME now \in Nat, NEW s, s \subseteq Attempt, IsFiniteSet(s), Numbered(s)
  PROVE  /\ Another(s) \in Attempt /\ Another(s) \notin s /\ Another(s).at = now
         /\ IsFiniteSet(Hit(s)) /\ Cardinality(Trimmed(s)) \in Nat
         /\ Cardinality(Hit(s)) = Cardinality(Trimmed(s)) + 1
         /\ Numbered(Hit(s))
  <1> PICK mine : mine = {h \in s : h.at = now}
      OBVIOUS
  <1> PICK k : k = Cardinality(mine)
      OBVIOUS
  <1> PICK new : new = Another(s)
      OBVIOUS
  <1>1. IsFiniteSet(mine) /\ k \in Nat
      BY FS_Subset, FS_CardinalityType
  <1>2. new = [at |-> now, nth |-> 1 + k]
      BY DEF Another
  <1>3. new \in Attempt /\ new.at = now /\ new.nth = 1 + k
      BY <1>1, <1>2 DEF Attempt
  <1>4. new \notin s
    <2> SUFFICES ASSUME new \in s PROVE FALSE
        OBVIOUS
    <2>1. new.nth <= Cardinality({g \in s : g.at = new.at})
        BY DEF Numbered
    <2>2. {g \in s : g.at = new.at} = mine
        BY <1>3
    <2> QED
        BY <1>1, <1>3, <2>1, <2>2
  <1>5. /\ IsFiniteSet(Trimmed(s)) /\ Cardinality(Trimmed(s)) \in Nat
        /\ Trimmed(s) \subseteq s
    <2>1. Trimmed(s) \subseteq s
        BY DEF Trimmed
    <2> QED
        BY <2>1, FS_Subset, FS_CardinalityType
  <1>6. Hit(s) = Trimmed(s) \union {new}
      BY DEF Hit
  <1>7. IsFiniteSet(Hit(s)) /\ Cardinality(Hit(s)) = Cardinality(Trimmed(s)) + 1
      BY <1>4, <1>5, <1>6, FS_AddElement
  <1>8. ASSUME NEW h \in Hit(s) PROVE h.nth <= Cardinality({g \in Hit(s) : g.at = h.at})
    <2>1. CASE h.at = now
      <3>1. {g \in Hit(s) : g.at = h.at} = mine \union {new}
        <4>1. \A g \in mine : g \in Trimmed(s)
            BY LimitsTyped DEF Trimmed
        <4> QED
            BY <1>3, <1>5, <1>6, <2>1, <4>1
      <3>2. Cardinality(mine \union {new}) = k + 1
          BY <1>1, <1>4, FS_AddElement
      <3>3. h = new \/ h.nth <= k
          BY <1>5, <1>6, <2>1 DEF Numbered
      <3>4. h.nth \in Nat
          BY <1>3, <1>5, <1>6 DEF Attempt
      <3> QED
          BY <1>1, <1>3, <3>1, <3>2, <3>3, <3>4
    <2>2. CASE h.at # now
      <3>1. h \in Trimmed(s) /\ h \in s
          BY <1>3, <1>5, <1>6, <2>2
      <3>2. \A g \in s : g.at = h.at => g \in Trimmed(s)
          BY <3>1 DEF Trimmed
      <3>3. {g \in Hit(s) : g.at = h.at} = {g \in s : g.at = h.at}
          BY <1>3, <1>5, <1>6, <2>2, <3>2
      <3> QED
          BY <3>1, <3>3 DEF Numbered
    <2> QED
        BY <2>1, <2>2
  <1> QED
      BY <1>3, <1>4, <1>5, <1>7, <1>8 DEF Numbered

LEMMA EmptyKept == ListKept({})
  BY FS_EmptySet, LimitsTyped DEF ListKept, Numbered

LEMMA InitTallied == Init => Tallied
  <1> SUFFICES ASSUME Init PROVE Tallied
      OBVIOUS
  <1>1. /\ hits \in [Address \union User -> SUBSET Attempt]
        /\ admitted \in [Address -> SUBSET Attempt]
        /\ \A w \in Address \union User : hits[w] = {}
        /\ \A a \in Address : admitted[a] = {}
      BY DEF Init
  <1>2. \A a \in Address, t \in 0..now : InWindow(a, t) = {}
      BY <1>1 DEF InWindow
  <1>3. WindowHolds
      BY <1>2, FS_EmptySet, LimitsTyped DEF WindowHolds, InWindow
  <1> QED
      BY <1>1, <1>3, EmptyKept DEF Tallied

\* The lists are short enough and remember enough: the window that ends now holds.
LEMMA WindowOfNow ==
  ASSUME NEW n \in Nat, NEW s, NEW list, IsFiniteSet(list), Cardinality(list) <= Limit,
         \A h \in s : h.at + Window > n => h \in list
  PROVE  Cardinality({h \in s : h.at <= n /\ h.at + Window > n}) <= Limit
  <1> PICK seen : seen = {h \in s : h.at <= n /\ h.at + Window > n}
      OBVIOUS
  <1>1. seen \subseteq list
      OBVIOUS
  <1>2. IsFiniteSet(seen) /\ Cardinality(seen) <= Cardinality(list)
      BY <1>1, FS_Subset
  <1>3. Cardinality(seen) \in Nat /\ Cardinality(list) \in Nat
      BY <1>2, FS_CardinalityType
  <1> QED
      BY <1>2, <1>3, LimitsTyped

LEMMA SameTallied == ASSUME Tallied, UNCHANGED <<now, hits, admitted>> PROVE Tallied'
  BY DEF Tallied, ListKept, Numbered, WindowHolds

LEMMA KnockTallied ==
  ASSUME Typed, Tallied, NEW c \in Request, NEW u \in User, NEW a \in Address, Knock(c, u, a)
  PROVE  Tallied'
  <1>1. now \in Nat /\ UNCHANGED now
      BY DEF Knock, Typed, Credentials
  <1>2. ASSUME NEW w \in Address \union User, Allowed(w)
        PROVE  /\ Hit(hits[w]) \subseteq Attempt /\ Another(hits[w]) \in Attempt
               /\ Another(hits[w]).at = now
               /\ ListKept(Hit(hits[w]))
    <2>1. ListKept(hits[w])
        BY DEF Tallied
    <2>2. /\ Another(hits[w]) \in Attempt /\ Another(hits[w]).at = now
          /\ IsFiniteSet(Hit(hits[w])) /\ Cardinality(Trimmed(hits[w])) \in Nat
          /\ Cardinality(Hit(hits[w])) = Cardinality(Trimmed(hits[w])) + 1
          /\ Numbered(Hit(hits[w]))
        BY <1>1, <2>1, HitCounts DEF ListKept
    <2>3. Hit(hits[w]) = Trimmed(hits[w]) \union {Another(hits[w])}
          /\ Trimmed(hits[w]) \subseteq hits[w]
        BY DEF Hit, Trimmed
    <2>4. Cardinality(Hit(hits[w])) <= Limit
        BY <1>2, <2>2, LimitsTyped DEF Allowed
    <2>5. \A h \in Hit(hits[w]) : h.at <= now
        BY <1>1, <2>1, <2>2, <2>3 DEF ListKept
    <2> QED
        BY <2>1, <2>2, <2>3, <2>4, <2>5 DEF ListKept
  <1>3. /\ hits' \in [Address \union User -> SUBSET Attempt]
        /\ \A w \in Address \union User : ListKept(hits'[w])
        /\ hits'[a] = Hit(hits[a])
        /\ \A b \in Address \ {a} : hits'[b] = hits[b]
    <2> USE DEF Tallied
    <2>1. a # u /\ u \notin Address
        BY LimitsTyped
    <2>2. Allowed(a)
        BY DEF Knock
    <2>3. CASE Allowed(u)
      <3>1. hits' = [hits EXCEPT ![a] = Hit(hits[a]), ![u] = Hit(hits[u])]
          BY <2>1, <2>3 DEF Knock
      <3> QED
          BY <1>2, <2>1, <2>2, <2>3, <3>1
    <2>4. CASE ~ Allowed(u)
      <3>1. hits' = [hits EXCEPT ![a] = Hit(hits[a])]
          BY <2>4 DEF Knock
      <3> QED
          BY <1>2, <2>1, <2>2, <3>1
    <2> QED
        BY <2>3, <2>4
  <1>4. \A w \in Address \union User : ListKept(hits[w])'
      BY <1>1, <1>3 DEF ListKept
  <1>5. PICK new \in Attempt :
            /\ new = Another(hits[a]) /\ new.at = now /\ new \in hits'[a]
            /\ admitted' = [admitted EXCEPT ![a] = @ \union {new}] \/ UNCHANGED admitted
    <2>1. Allowed(a)
        BY DEF Knock
    <2>2. Another(hits[a]) \in Hit(hits[a])
        BY DEF Hit
    <2>3. \/ admitted' = [admitted EXCEPT ![a] = @ \union {Another(hits[a])}]
          \/ UNCHANGED admitted
        BY DEF Knock
    <2> QED
        BY <1>2, <1>3, <2>1, <2>2, <2>3
  <1>6. /\ admitted' \in [Address -> SUBSET Attempt]
        /\ \A b \in Address \ {a} : admitted'[b] = admitted[b]
        /\ admitted'[a] = admitted[a] \/ admitted'[a] = admitted[a] \union {new}
      BY <1>5 DEF Tallied
  <1>7. ASSUME NEW b \in Address, NEW h \in admitted'[b]
        PROVE  h.at <= now /\ (h.at + Window > now => h \in hits'[b])
    <2>1. CASE b # a
        BY <1>3, <1>6, <1>7, <2>1 DEF Tallied
    <2>2. CASE b = a /\ h = new
        BY <1>1, <1>5, <2>2
    <2>3. CASE b = a /\ h \in admitted[a]
      <3>1. h.at <= now /\ (h.at + Window > now => h \in hits[a])
          BY <2>3 DEF Tallied
      <3>2. h.at + Window > now => h \in Hit(hits[a])
          BY <3>1 DEF Hit, Trimmed
      <3> QED
          BY <1>3, <2>3, <3>1, <3>2
    <2> QED
        BY <1>6, <1>7, <2>1, <2>2, <2>3
  <1>8. ASSUME NEW b \in Address, NEW t \in 0..now
        PROVE  Cardinality({h \in admitted'[b] : h.at <= t /\ h.at + Window > t}) <= Limit
    <2>1. CASE t = now
      <3>1. IsFiniteSet(hits'[b]) /\ Cardinality(hits'[b]) <= Limit
          BY <1>3 DEF ListKept
      <3> QED
          BY <1>1, <1>7, <2>1, <3>1, WindowOfNow
    <2>2. CASE t # now
      <3>1. ~ (new.at <= t)
          BY <1>1, <1>5, <2>2
      <3>2. {h \in admitted'[b] : h.at <= t /\ h.at + Window > t}
               = {h \in admitted[b] : h.at <= t /\ h.at + Window > t}
          BY <1>6, <3>1
      <3> QED
          BY <3>2 DEF Tallied, WindowHolds
    <2> QED
        BY <2>1, <2>2
  <1>9. WindowHolds'
      BY <1>1, <1>8 DEF WindowHolds
  <1> QED
      BY <1>1, <1>3, <1>4, <1>6, <1>7, <1>9 DEF Tallied

\* An account's list is not an address's.
LEMMA EnterTallied ==
  ASSUME Typed, Tallied, NEW c \in Request, Enter(c) PROVE Tallied'
  <1> PICK u : u = request[c].user
      OBVIOUS
  <1>1. u \in User /\ u \notin Address
      BY RequestTyped, LimitsTyped DEF Enter, Grounded
  <1>2. hits' = [hits EXCEPT ![u] = {}] /\ UNCHANGED <<now, admitted>>
      BY DEF Enter
  <1>3. /\ hits' \in [Address \union User -> SUBSET Attempt]
        /\ \A a \in Address : hits'[a] = hits[a]
        /\ \A w \in Address \union User : hits'[w] = hits[w] \/ hits'[w] = {}
      BY <1>1, <1>2 DEF Tallied
  <1>4. \A w \in Address \union User : ListKept(hits'[w])
      BY <1>3, EmptyKept DEF Tallied
  <1>5. \A w \in Address \union User : ListKept(hits[w])'
      BY <1>2, <1>4 DEF ListKept
  <1>6. WindowHolds'
      BY <1>2 DEF Tallied, WindowHolds
  <1> QED
      BY <1>2, <1>3, <1>5, <1>6 DEF Tallied

LEMMA TickTallied == ASSUME Typed, Tallied, Tick PROVE Tallied'
  <1>1. now \in Nat /\ now' = now + 1 /\ UNCHANGED <<hits, admitted>>
      BY DEF Tick, limiter, Typed, Credentials
  <1>2. \A w \in Address \union User : hits[w] \subseteq Attempt
      BY DEF Tallied
  <1>3. \A w \in Address \union User : ListKept(hits[w])'
      BY <1>1, <1>2 DEF Tallied, ListKept, Numbered, Attempt
  <1>4. ASSUME NEW a \in Address, NEW h \in admitted[a]
        PROVE  h.at <= now' /\ (h.at + Window > now' => h \in hits[a])
    <2>1. h.at <= now /\ (h.at + Window > now => h \in hits[a])
        BY DEF Tallied
    <2>2. h.at \in Nat
        BY DEF Tallied, Attempt
    <2> QED
        BY <1>1, <2>1, <2>2, LimitsTyped
  <1>5. ASSUME NEW a \in Address, NEW t \in 0..now'
        PROVE  Cardinality({h \in admitted[a] : h.at <= t /\ h.at + Window > t}) <= Limit
    <2>1. CASE t = now'
      <3>1. IsFiniteSet(hits[a]) /\ Cardinality(hits[a]) <= Limit
          BY DEF Tallied, ListKept
      <3>2. t \in Nat
          BY <1>1
      <3> QED
          BY <1>4, <2>1, <3>1, <3>2, WindowOfNow
    <2>2. CASE t # now'
      <3>1. t \in 0..now
          BY <1>1, <2>2
      <3> QED
          BY <3>1 DEF Tallied, WindowHolds
    <2> QED
        BY <2>1, <2>2
  <1>6. WindowHolds'
      BY <1>1, <1>5 DEF WindowHolds
  <1> QED
      BY <1>1, <1>3, <1>4, <1>6 DEF Tallied

LEMMA RestartTallied == ASSUME Typed, Tallied, Restart PROVE Tallied'
  <1>1. UNCHANGED now /\ admitted' = [a \in Address |-> {}]
        /\ hits' = [w \in Address \union User |-> {}]
      BY DEF Restart, Tallied
  <1>2. \A w \in Address \union User : ListKept(hits[w])'
      BY <1>1, EmptyKept DEF ListKept
  <1>3. \A a \in Address, t \in 0..now : {h \in admitted'[a] : h.at <= t /\ h.at + Window > t} = {}
      BY <1>1
  <1>4. WindowHolds'
      BY <1>1, <1>3, FS_EmptySet, LimitsTyped DEF WindowHolds
  <1> QED
      BY <1>1, <1>2, <1>4 DEF Tallied

LEMMA NextTallied == ASSUME Typed, Tallied, [Next]_vars PROVE Tallied'
  <1> USE DEF limiter
  <1>1. ASSUME NEW c \in Request, SignIn(c) PROVE Tallied'
    <2>1. CASE Reject(c) \/ FinishHandoff(c) \/ \E u \in User : EmailHandoff(c, u)
        BY <2>1, SameTallied DEF Reject, FinishHandoff, EmailHandoff
    <2> QED
        BY <1>1, <2>1, KnockTallied, EnterTallied DEF SignIn
  <1>2. CASE \/ \E c \in Request, k \in Key : ReadKey(c, k)
             \/ \E c \in Request, o \in Origin, ttl \in Ask : MintEmbed(c, o, ttl)
             \/ \E u \in User : SlackHandoff(u) \/ ChangeUser(u)
             \/ \E s \in sessions : Logout(s)
             \/ \E k \in Key : CreateKey(k) \/ RevokeKey(k)
             \/ UNCHANGED vars
    <2>1. UNCHANGED <<now, hits, admitted>>
        BY <1>2
           DEF ReadKey, MintEmbed, SlackHandoff, ChangeUser, Logout, CreateKey, RevokeKey, vars
    <2> QED
        BY <2>1, SameTallied
  <1> QED
      BY <1>1, <1>2, TickTallied, RestartTallied DEF Next

\* However the attempts are spread, no more than the limit gets through from one address
\* in any window of time, for every limit, width and length of the clock.
THEOREM WindowAlwaysHolds == Spec => []WindowHolds
  <1>1. Tallied => WindowHolds
      BY DEF Tallied
  <1> QED
      BY <1>1, InitTallied, NextTallied, AlwaysTyped, PTL DEF Spec
-----------------------------------------------------------------------------
(***************************************************************************)
(* The three views.                                                        *)
(***************************************************************************)
LEMMA MemberIsCaller ==
  ASSUME NEW u \in Person, NEW operator \in BOOLEAN
  PROVE  /\ Member(u, operator).as = "session" /\ Member(u, operator).user = u
         /\ Member(u, operator).operator = operator
         /\ u # NONE
  BY TaskViewsAssumption DEF Member, Nobody

\* Who has a list has a user, or sees all.
LEMMA ListerHasUser ==
  ASSUME NEW c \in Caller, MayList(c), ~SeesAll(c)
  PROVE  c.as = "session" /\ c.user # NONE
  <1>0. /\ Nobody.as = "nobody" /\ Automation.as = "automation"
        /\ \A t \in Task : Guest(t).as = "embed"
      BY DEF Nobody, Automation, Guest
  <1>1. PICK u \in Person, operator \in BOOLEAN : c = Member(u, operator)
      BY <1>0 DEF Caller, MayList, SeesAll
  <1> QED
      BY <1>1, MemberIsCaller

LEMMA OtherPayload ==
  ASSUME NEW r, NEW t, NEW status, NEW assignee, NEW completer, NEW p, NEW q,
         r = [id |-> t, status |-> status, payload |-> p, assignee |-> assignee,
              completer |-> completer]
  PROVE  [r EXCEPT !.payload = q]
         = [id |-> t, status |-> status, payload |-> q, assignee |-> assignee,
            completer |-> completer]
  OBVIOUS

\* A row of a list is the row of the task by its id, but for the payload.
LEMMA SameRow ==
  ASSUME NEW tasks \in SUBSET Task, NEW t \in tasks
  PROVE  /\ TaskToResponse(t, TRUE, UserIndex(tasks)).id = t
         /\ TaskToResponse(t, TRUE, UserIndex(tasks))
               = [GetTask(t) EXCEPT !.payload = IF TaskTable[t].redact THEN "redacted" ELSE @]
  <1> PICK row : row = TaskTable[t]
      OBVIOUS
  <1> PICK many : many = UserIndex(tasks)
      OBVIOUS
  <1> PICK one : one = UserIndex({t})
      OBVIOUS
  <1>1. /\ row.assignee \in many <=> row.assignee \in one
        /\ row.completer \in many <=> row.completer \in one
    <2>1. /\ row.assignee \in User => row.assignee \in many /\ row.assignee \in one
          /\ row.completer \in User => row.completer \in many /\ row.completer \in one
        BY DEF UserIndex
    <2>2. many \subseteq User /\ one \subseteq User
        BY DEF UserIndex
    <2> QED
        BY <2>1, <2>2
  <1> PICK a, b : /\ a = IF row.assignee \in one THEN row.assignee ELSE NONE
                  /\ b = IF row.completer \in one THEN row.completer ELSE NONE
      OBVIOUS
  <1>2. TaskToResponse(t, TRUE, many)
          = [id |-> t, status |-> row.status,
             payload |-> IF row.redact THEN "redacted" ELSE "shown",
             assignee |-> a, completer |-> b]
      BY <1>1 DEF TaskToResponse
  <1>3. GetTask(t) = [id |-> t, status |-> row.status, payload |-> "shown",
                      assignee |-> a, completer |-> b]
      BY DEF TaskToResponse, GetTask
  <1> PICK mine : mine = GetTask(t)
      OBVIOUS
  <1>4. TaskToResponse(t, TRUE, many).id = t
      BY DEF TaskToResponse
  <1>5. CASE row.redact
    <2>1. [mine EXCEPT !.payload = "redacted"]
            = [id |-> t, status |-> row.status, payload |-> "redacted",
               assignee |-> a, completer |-> b]
        BY <1>3, OtherPayload
    <2> QED
        BY <1>2, <1>4, <1>5, <2>1
  <1>6. CASE ~row.redact
    <2>1. [mine EXCEPT !.payload = "shown"]
            = [id |-> t, status |-> row.status, payload |-> "shown",
               assignee |-> a, completer |-> b]
        BY <1>3, OtherPayload
    <2>2. GetTask(t).payload = "shown"
        BY <1>3
    <2> QED
        BY <1>2, <1>4, <1>6, <2>1, <2>2
  <1> QED
      BY <1>5, <1>6

LEMMA ListedOpens ==
  ASSUME NEW c \in Caller, NEW q \in Query, MayList(c), NEW t \in ListTasks(Scoped(c, q))
  PROVE  t \in Task /\ CanOpen(c, t)
  <1>1. t \in Task /\ Assigned(Scoped(c, q), TaskTable[t])
      BY DEF ListTasks, Page
  <1>2. c.as # "embed"
      BY DEF MayList
  <1>3. CASE SeesAll(c)
      BY <1>1, <1>2, <1>3 DEF CanOpen, MayRead
  <1>4. CASE ~SeesAll(c)
    <2>1. c.user # NONE
        BY <1>4, ListerHasUser
    <2>2. Scoped(c, q).scope = c.user /\ Scoped(c, q).unassigned = FALSE
        BY <1>4 DEF Scoped, Query
    <2>3. TaskTable[t].assignee = c.user
        BY <1>1, <2>1, <2>2 DEF Assigned
    <2> QED
        BY <1>1, <1>2, <2>1, <2>3 DEF CanOpen, MayRead
  <1> QED
      BY <1>3, <1>4

\* A page that is long enough has every task that is selected.
LEMMA OnePage ==
  ASSUME NEW q, q.offset = 0, q.limit \in Nat, q.limit >= Cardinality(Task),
         NEW tasks \in SUBSET Task
  PROVE  Page(tasks, q) = tasks
  <1> SUFFICES ASSUME NEW t \in tasks PROVE t \in Page(tasks, q)
      BY DEF Page
  <1> PICK newer : newer = {s \in tasks : TaskTable[s].created > TaskTable[t].created}
      OBVIOUS
  <1>1. IsFiniteSet(Task) /\ TaskTable[t].created \in Nat
      BY TaskViewsAssumption DEF TaskRow
  <1>2. newer \subseteq Task /\ newer # Task
      BY <1>1
  <1>3. /\ Cardinality(newer) <= Cardinality(Task) /\ Cardinality(newer) # Cardinality(Task)
        /\ IsFiniteSet(newer)
      BY <1>1, <1>2, FS_Subset
  <1>4. Cardinality(newer) \in Nat /\ Cardinality(Task) \in Nat
      BY <1>1, <1>3, FS_CardinalityType
  <1>5. 0 <= Cardinality(newer) /\ Cardinality(newer) < 0 + q.limit
      BY <1>3, <1>4
  <1> QED
      BY <1>5 DEF Page

LEMMA OpensListed ==
  ASSUME NEW c \in Caller, NEW q \in Query, MayList(c), Unfiltered(q),
         NEW t \in Task, CanOpen(c, t)
  PROVE  CanAudit(c, t) /\ t \in ListTasks(Scoped(c, q))
  <1> PICK p : p = Scoped(c, q)
      OBVIOUS
  <1>1. MayRead(c, t)
      BY DEF CanOpen, MayList
  <1>2. /\ p.status = NONE /\ p.terminal = FALSE /\ p.search = NONE /\ p.unassigned = FALSE
        /\ p.offset = 0 /\ p.limit = q.limit
        /\ SeesAll(c) => p.scope = NONE
        /\ ~SeesAll(c) => p.scope = c.user
      BY DEF Scoped, Unfiltered, Query
  <1>3. InStatus(p, TaskTable[t])
      BY <1>2 DEF InStatus
  <1>4. Assigned(p, TaskTable[t])
      BY <1>1, <1>2 DEF Assigned, MayRead
  <1>5. q.limit \in Nat /\ q.limit >= Cardinality(Task)
      BY TaskViewsAssumption DEF Query, Unfiltered
  <1> PICK tasks : tasks = {s \in Task : InStatus(p, TaskTable[s]) /\ Assigned(p, TaskTable[s])}
      OBVIOUS
  <1>6. Page(tasks, p) = tasks
      BY <1>2, <1>5, OnePage
  <1> QED
      BY <1>1, <1>3, <1>4, <1>6 DEF CanAudit, ListTasks

LEMMA OpenersList ==
  ASSUME NEW c \in Caller, c.as # "embed", NEW t \in Task, CanOpen(c, t)
  PROVE  MayList(c)
  <1>1. MayRead(c, t)
      BY DEF CanOpen
  <1>2. c # Nobody
      BY <1>1 DEF MayRead, SeesAll, CallerIsOperator, Nobody
  <1>3. c \notin {Guest(d) : d \in Task}
    <2>1. \A d \in Task : Guest(d).as = "embed"
        BY DEF Guest, Nobody
    <2> QED
        BY <2>1
  <1>4. c = Automation \/ c \in {Member(u, operator) : u \in Person, operator \in BOOLEAN}
      BY <1>2, <1>3 DEF Caller
  <1>5. Automation.as = "automation"
      BY DEF Automation, Nobody
  <1>6. \A u \in Person, operator \in BOOLEAN : Member(u, operator).as = "session"
      BY DEF Member, Nobody
  <1> QED
      BY <1>4, <1>5, <1>6 DEF MayList

LEMMA AllAgree == ASSUME NEW c \in Caller, NEW q \in Query PROVE Agrees(c, q)
  <1> PICK tasks : tasks = ListTasks(Scoped(c, q))
      OBVIOUS
  <1>1. tasks \subseteq Task
      BY DEF ListTasks, Page
  <1>2. ~MayList(c) => Listed(c, q) = {}
      BY DEF Listed
  <1>3. MayList(c) => Listed(c, q) = {TaskToResponse(t, TRUE, UserIndex(tasks)) : t \in tasks}
      BY DEF Listed
  <1>4. ASSUME NEW v \in Listed(c, q)
        PROVE  /\ v.id \in Task /\ CanOpen(c, v.id)
               /\ v = [GetTask(v.id) EXCEPT !.payload = IF TaskTable[v.id].redact THEN "redacted"
                                                        ELSE @]
    <2>1. MayList(c)
        BY <1>2
    <2>2. PICK t \in tasks : v = TaskToResponse(t, TRUE, UserIndex(tasks))
        BY <1>3, <2>1
    <2>3. v.id = t
        BY <1>1, <2>2, SameRow
    <2>4. v = [GetTask(t) EXCEPT !.payload = IF TaskTable[t].redact THEN "redacted" ELSE @]
        BY <1>1, <2>2, SameRow
    <2>5. t \in Task /\ CanOpen(c, t)
        BY <2>1, ListedOpens
    <2> QED
        BY <2>3, <2>4, <2>5
  <1>5. ASSUME c.as # "embed", NEW t \in Task
        PROVE  CanOpen(c, t) <=> CanAudit(c, t)
      BY <1>5 DEF CanOpen, CanAudit
  <1>6. ASSUME c.as # "embed", Unfiltered(q), NEW t \in Task
        PROVE  CanOpen(c, t) <=> \E v \in Listed(c, q) : v.id = t
    <2>1. ASSUME CanOpen(c, t) PROVE \E v \in Listed(c, q) : v.id = t
      <3>1. MayList(c)
          BY <1>6, <2>1, OpenersList
      <3>2. t \in tasks
          BY <1>6, <2>1, <3>1, OpensListed
      <3> DEFINE v == TaskToResponse(t, TRUE, UserIndex(tasks))
      <3>3. v \in Listed(c, q)
          BY <1>3, <3>1, <3>2
      <3>4. v.id = t
          BY <1>1, <3>2, SameRow
      <3> HIDE DEF v
      <3> QED
          BY <3>3, <3>4
    <2> QED
        BY <1>4, <2>1
  <1>7. ASSUME c.as = "embed"
        PROVE  /\ \A t \in Task : (CanOpen(c, t) <=> t = c.task) /\ ~CanAudit(c, t)
               /\ Listed(c, q) = {}
    <2>1. ~SeesAll(c) /\ c.user = NONE
      <3>1. c # Nobody /\ c # Automation
          BY <1>7 DEF Nobody, Automation
      <3>2. \A u \in Person, operator \in BOOLEAN : Member(u, operator).as = "session"
          BY DEF Member, Nobody
      <3>3. PICK d \in Task : c = Guest(d)
          BY <1>7, <3>1, <3>2 DEF Caller
      <3>4. c.user = NONE
          BY <3>3 DEF Guest, Nobody
      <3> QED
          BY <1>7, <3>4 DEF SeesAll, CallerIsOperator
    <2>2. ~MayList(c)
        BY <1>7 DEF MayList
    <2> QED
        BY <1>2, <1>7, <2>1, <2>2 DEF CanOpen, CanAudit, MayRead
  <1> QED
      BY <1>4, <1>5, <1>6, <1>7 DEF Agrees

LEMMA IdentityIsCaller ==
  ASSUME Typed, NEW r \in Presented
  PROVE  Identify(r) \in Caller
  <1>1. r.bearer \in {"none", "admin", "void", "embed"} /\ (r.bearer = "embed" => r.task \in Task)
      BY DEF Presented
  <1>2. r.cookie # NONE => r.cookie \in sessions
      BY DEF Presented, Cookie
  <1>3. r.cookie # NONE => r.cookie.user \in Person /\ r.cookie.operator \in BOOLEAN
      BY <1>2, TaskViewsAssumption DEF Typed, Credentials, Session
  <1> QED
      BY <1>1, <1>3 DEF Identify, TurnedAway, Caller

\* The list, the task by its id and the audit trail show a caller with a session or the
\* admin token the same tasks, and the holder of an embed token one task and nothing
\* else, for every table of tasks and every request.
THEOREM ViewsAlwaysAgree == Spec => []ViewsAgree
  <1>1. Typed => ViewsAgree
      BY IdentityIsCaller, AllAgree DEF ViewsAgree, Agreeing
  <1> QED
      BY <1>1, AlwaysTyped, PTL

LEMMA NobodySeesNothing ==
  ASSUME NEW t \in Task
  PROVE  ~CanOpen(Nobody, t) /\ ~CanAudit(Nobody, t)
  BY DEF CanOpen, CanAudit, MayRead, SeesAll, CallerIsOperator, Nobody

LEMMA ReadersEntitled == ASSUME Typed, CredentialsFade PROVE ReadersAreEntitled
  <1> SUFFICES ASSUME NEW r \in Presented, NEW t \in Sees[Identify(r)]
               PROVE  \/ r.bearer = "admin" /\ AdminToken
                      \/ r.bearer = "embed" /\ r.task = t /\ LivesYet(r.token)
                      \/ /\ r.cookie # NONE
                         /\ \/ TaskTable[t].assignee = r.cookie.user
                            \/ r.cookie.operator /\ LeadsYet(r.cookie)
      BY DEF ReadersAreEntitled
  <1>0. t \in Task /\ (CanOpen(Identify(r), t) \/ CanAudit(Identify(r), t))
      BY IdentityIsCaller DEF Sees
  <1>1. r.bearer \in {"none", "admin", "void", "embed"} /\ Identify(r) # Nobody
      BY <1>0, NobodySeesNothing DEF Presented
  <1>2. CASE r.bearer = "embed"
    <2>1. r.token \in embeds
        BY <1>2 DEF Presented
    <2>2. Identify(r) = Guest(r.task)
        BY <1>1, <1>2 DEF Identify, TurnedAway
    <2>3. Guest(r.task).as = "embed" /\ Guest(r.task).user = NONE /\ Guest(r.task).task = r.task
        BY DEF Guest, Nobody
    <2>4. r.task = t
        BY <1>0, <2>2, <2>3 DEF CanOpen, CanAudit, MayRead, SeesAll, CallerIsOperator
    <2> QED
        BY <1>2, <2>1, <2>4 DEF CredentialsFade
  <1>3. CASE r.bearer = "none" \/ (r.bearer = "admin" /\ ~AdminToken)
    <2>1. r.cookie # NONE /\ Identify(r) = Member(r.cookie.user, r.cookie.operator)
        BY <1>1, <1>3 DEF Identify, TurnedAway
    <2>2. r.cookie \in sessions
        BY <2>1 DEF Presented, Cookie
    <2>3. r.cookie.user \in Person /\ r.cookie.operator \in BOOLEAN
        BY <2>2, TaskViewsAssumption DEF Typed, Credentials, Session
    <2>4. TaskTable[t].assignee = r.cookie.user \/ r.cookie.operator
        BY <1>0, <2>1, <2>3, MemberIsCaller DEF CanOpen, CanAudit, MayRead, SeesAll, CallerIsOperator
    <2> QED
        BY <2>1, <2>2, <2>4 DEF CredentialsFade
  <1>4. r.bearer # "void"
      BY <1>1 DEF Identify, TurnedAway
  <1> QED
      BY <1>1, <1>2, <1>3, <1>4

\* Whoever can look at a task is entitled to it, or was within one lifetime, for every
\* table of tasks and every lifetime.
THEOREM ReadersAlwaysEntitled == Spec => []ReadersAreEntitled
  <1>1. Typed /\ CredentialsFade => ReadersAreEntitled
      BY ReadersEntitled
  <1> QED
      BY <1>1, AlwaysTyped, CredentialsAlwaysFade, PTL

-----------------------------------------------------------------------------
(***************************************************************************)
(* The development server, from here on.  Types first.                     *)
(***************************************************************************)
LEMMA OffIsRun == Off \in Run /\ Off.pc = "off"
  BY DEF Off, Run

LEMMA AtRestIsAgent == AtRest \in Agent /\ AtRest.pc = "idle"
  BY DEF AtRest, Agent

LEMMA FolderIsPlace == ASSUME NEW s \in Server PROVE Folder[s] \in Place
  BY DEF Place

LEMMA DevInitTyped == DevInit => DevTypeOK
  BY OffIsRun, AtRestIsAgent, DevAssumption DEF DevInit, DevTypeOK

LEMMA ServerStep ==
  ASSUME DevTypeOK, NEW s \in Server, NEW w \in Run, server' = [server EXCEPT ![s] = w]
  PROVE  server' \in [Server -> Run]
  BY DEF DevTypeOK

LEMMA GoTyped ==
  ASSUME DevTypeOK, NEW s \in Server,
         NEW pc \in {"off", "started", "minting", "saving", "ready", "writing", "binding",
                     "serving", "leaving", "exiting", "gone"},
         Go(s, pc)
  PROVE  server' \in [Server -> Run]
  BY DEF Go, DevTypeOK, Run

LEMMA MissedTyped ==
  ASSUME DevTypeOK, NEW s \in Server,
         client' = [c \in Client |-> IF client[c].pc = "idle" THEN client[c]
                                     ELSE [client[c] EXCEPT !.missed = @ \union {s}]]
  PROVE  client' \in [Client -> Agent]
  <1>1. \A c \in Client : client[c] \in Agent
      BY DEF DevTypeOK
  <1>2. \A c \in Client : [client[c] EXCEPT !.missed = @ \union {s}] \in Agent
      BY <1>1 DEF Agent
  <1> QED
      BY <1>1, <1>2

LEMMA DiscoveredTyped == Discovered \subseteq Server
  BY DEF Discovered

LEMMA RunTyped == ASSUME DevTypeOK, NEW s \in Server, Dev(s) PROVE DevTypeOK'
  <1>0. Folder[s] \in Place /\ server[s] \in Run
      BY FolderIsPlace DEF DevTypeOK
  <1>1. CASE ReadSecret(s)
    <2> PICK minting : minting = [server[s] EXCEPT !.pc = "minting"]
        OBVIOUS
    <2> PICK ready : ready = [server[s] EXCEPT !.pc = "ready", !.token = secret[Folder[s]]]
        OBVIOUS
    <2>1. minting \in Run /\ (secret[Folder[s]] # "none" => ready \in Run)
        BY <1>0 DEF DevTypeOK, Run
    <2>2. \/ server' = [server EXCEPT ![s] = minting]
          \/ secret[Folder[s]] # "none" /\ server' = [server EXCEPT ![s] = ready]
        BY <1>1 DEF ReadSecret
    <2>3. server' \in [Server -> Run]
        BY <2>1, <2>2, ServerStep
    <2>4. muddled' \subseteq Place
        BY <1>0, <1>1 DEF ReadSecret, DevTypeOK
    <2> QED
        BY <1>1, <2>3, <2>4 DEF ReadSecret, DevTypeOK
  <1>2. CASE OpenSecret(s)
      BY <1>0, <1>2, GoTyped DEF OpenSecret, DevTypeOK
  <1>3. CASE SaveSecret(s)
    <2> PICK w : w = [server[s] EXCEPT !.pc = "ready", !.token = s]
        OBVIOUS
    <2>1. w \in Run
        BY <1>0 DEF Run
    <2>2. server' = [server EXCEPT ![s] = w]
        BY <1>3 DEF SaveSecret
    <2>3. server' \in [Server -> Run]
        BY <2>1, <2>2, ServerStep
    <2> QED
        BY <1>0, <1>3, <2>3 DEF SaveSecret, DevTypeOK
  <1>4. CASE OpenDiscovery(s)
      BY <1>4, GoTyped, DiscoveredTyped DEF OpenDiscovery, DevTypeOK
  <1>5. CASE WriteDiscovery(s)
    <2>1. server' \in [Server -> Run]
        BY <1>5, GoTyped DEF WriteDiscovery
    <2>2. client' \in [Client -> Agent]
        BY <1>5, MissedTyped DEF WriteDiscovery
    <2>3. effaced' \subseteq Server
        BY <1>5, DiscoveredTyped DEF WriteDiscovery, DevTypeOK
    <2> QED
        BY <1>5, <2>1, <2>2, <2>3 DEF WriteDiscovery, DevTypeOK
  <1>6. CASE Bind(s)
      BY <1>6, GoTyped DEF Bind, DevTypeOK
  <1>7. CASE Stop(s)
      BY <1>7, GoTyped DEF Stop, DevTypeOK
  <1>8. CASE Leave(s)
      BY <1>8, GoTyped, DiscoveredTyped DEF Leave, Unlink, DevTypeOK
  <1>9. CASE Kill(s)
    <2>1. muddled' \subseteq Place
        BY <1>0, <1>9 DEF Kill, DevTypeOK
    <2> QED
        BY <1>9, <2>1, GoTyped DEF Kill, DevTypeOK
  <1>10. ASSUME NEW p \in Port, NEW pid \in Pid, Start(s, p, pid) PROVE DevTypeOK'
    <2> PICK w : w = [Off EXCEPT !.pc = "started", !.port = p, !.pid = pid]
        OBVIOUS
    <2>1. w \in Run
        BY OffIsRun DEF Run
    <2>2. server' \in [Server -> Run]
        BY <1>10, <2>1, ServerStep DEF Start
    <2> QED
        BY <1>10, <2>2 DEF Start, DevTypeOK
  <1> QED
      BY <1>1, <1>2, <1>3, <1>4, <1>5, <1>6, <1>7, <1>8, <1>9, <1>10 DEF Dev

LEMMA EntryTyped == Entry \in Server \union {NIL}
  BY DEF Entry

LEMMA ClientStep ==
  ASSUME DevTypeOK, NEW c \in Client, NEW w \in Agent, client' = [client EXCEPT ![c] = w]
  PROVE  client' \in [Client -> Agent]
  BY DEF DevTypeOK

LEMMA SdkTyped == ASSUME DevTypeOK, NEW c \in Client, Sdk(c) PROVE DevTypeOK'
  <1>0. client[c] \in Agent
      BY DEF DevTypeOK
  <1>1. ASSUME Begin(c), calls' = calls + 1 PROVE calls' \in 0..MaxCalls
      BY <1>1, DevAssumption DEF Begin, DevTypeOK
  <1>2. CASE ResolveUrl(c)
    <2> PICK w : w = [AtRest EXCEPT !.pc = IF Stale THEN "cleaning" ELSE "found", !.url = Entry]
        OBVIOUS
    <2>1. w \in Agent
        BY AtRestIsAgent, EntryTyped DEF Agent
    <2>2. client' = [client EXCEPT ![c] = w]
        BY <1>2 DEF ResolveUrl
    <2> QED
        BY <1>1, <1>2, <2>1, <2>2, ClientStep DEF ResolveUrl, DevTypeOK
  <1>3. CASE CleanUp(c)
    <2> PICK w : w = [client[c] EXCEPT !.pc = "found"]
        OBVIOUS
    <2>1. w \in Agent
        BY <1>0 DEF Agent
    <2>2. client' = [client EXCEPT ![c] = w]
        BY <1>3 DEF CleanUp
    <2> QED
        BY <1>3, <2>1, <2>2, ClientStep, DiscoveredTyped DEF CleanUp, Unlink, DevTypeOK
  <1>4. CASE ResolveToken(c)
    <2> PICK cleaning : cleaning = [client[c] EXCEPT !.pc = "cleaning"]
        OBVIOUS
    <2> PICK set : set = [client[c] EXCEPT !.pc = "set", !.from = Entry]
        OBVIOUS
    <2>1. cleaning \in Agent /\ set \in Agent
        BY <1>0, EntryTyped DEF Agent
    <2>2. client' = [client EXCEPT ![c] = cleaning] \/ client' = [client EXCEPT ![c] = set]
        BY <1>4 DEF ResolveToken
    <2>3. client' \in [Client -> Agent]
        BY <2>1, <2>2, ClientStep
    <2> QED
        BY <1>4, <2>3 DEF ResolveToken, DevTypeOK
  <1>5. CASE ResolveConfig(c)
    <2> PICK w : w = [AtRest EXCEPT !.pc = "set", !.url = Entry, !.from = Entry]
        OBVIOUS
    <2>1. w \in Agent
        BY AtRestIsAgent, EntryTyped DEF Agent
    <2>2. client' = [client EXCEPT ![c] = w]
        BY <1>5 DEF ResolveConfig
    <2> QED
        BY <1>1, <1>5, <2>1, <2>2, ClientStep DEF ResolveConfig, DevTypeOK
  <1>6. CASE Call(c)
      BY <1>6, AtRestIsAgent, ClientStep DEF Call, DevTypeOK
  <1> QED
      BY <1>2, <1>3, <1>4, <1>5, <1>6 DEF Sdk

LEMMA DevNextTyped == ASSUME DevTypeOK, [DevNext]_devVars PROVE DevTypeOK'
  <1>1. CASE UNCHANGED devVars
      BY <1>1 DEF devVars, DevTypeOK
  <1> QED
      BY <1>1, RunTyped, SdkTyped DEF DevNext

\* The types of the runs, of the files they share and of what agents found.
THEOREM DevAlwaysTyped == DevSpec => []DevTypeOK
  BY DevInitTyped, DevNextTyped, PTL DEF DevSpec

-----------------------------------------------------------------------------
Makes(s) == server[s].pc \in {"minting", "saving"}

Has(s) == server[s].pc \in {"ready", "writing", "binding", "serving", "leaving", "exiting"}

\* The secret of a directory in which nothing went wrong: who has one has what the file
\* holds; whoever is making it is alone at it, and an empty file is being written.
Shared(s) ==
    /\ Has(s) => server[s].token = secret[Folder[s]] /\ secret[Folder[s]] \in Server
    /\ server[s].pc = "minting" => secret[Folder[s]] = "none"
    /\ server[s].pc = "saving" => secret[Folder[s]] = "empty"
    /\ secret[Folder[s]] = "empty"
       => \E t \in Server : Folder[t] = Folder[s] /\ server[t].pc = "saving"
    /\ \A t \in Server : Folder[t] = Folder[s] /\ Makes(s) /\ Makes(t) => s = t

SecretKept == \A s \in Server : Folder[s] \notin muddled => Shared(s)

LEMMA KeptShares == ASSUME DevTypeOK, SecretKept PROVE SecretsAreShared
  <1> SUFFICES ASSUME NEW s \in Serving, Folder[s] \notin muddled
               PROVE  server[s].token = secret[Folder[s]] /\ server[s].token # "empty"
      BY DEF SecretsAreShared
  <1>1. s \in Server /\ Has(s) /\ Shared(s)
      BY DEF Serving, Has, SecretKept
  <1>2. "empty" \notin Server
      BY DevAssumption
  <1> QED
      BY <1>1, <1>2 DEF Shared

LEMMA InitKept == DevInit => SecretKept
  BY OffIsRun DEF DevInit, SecretKept, Shared, Has, Makes, Place

\* Nobody's secret is at stake.
LEMMA SameSecrets ==
  ASSUME SecretKept, UNCHANGED secret, muddled \subseteq muddled',
         \A s \in Server :
            /\ Has(s)' => Has(s) /\ server'[s].token = server[s].token
            /\ Makes(s)' => server'[s].pc = server[s].pc
            /\ Folder[s] \notin muddled' /\ server[s].pc = "saving" => server'[s].pc = "saving"
  PROVE  SecretKept'
  <1> SUFFICES ASSUME NEW s \in Server, Folder[s] \notin muddled' PROVE Shared(s)'
      BY DEF SecretKept
  <1>1. Shared(s)
      BY DEF SecretKept
  <1>2. Has(s)' => server'[s].token = secret'[Folder[s]] /\ secret'[Folder[s]] \in Server
      BY <1>1 DEF Shared
  <1>3. \A t \in Server : Makes(t)' => server'[t].pc = server[t].pc /\ Makes(t)
      BY DEF Makes
  <1>4. /\ server'[s].pc = "minting" => secret'[Folder[s]] = "none"
        /\ server'[s].pc = "saving" => secret'[Folder[s]] = "empty"
      BY <1>1, <1>3 DEF Shared, Makes
  <1>5. ASSUME secret'[Folder[s]] = "empty"
        PROVE  \E t \in Server : Folder[t] = Folder[s] /\ server'[t].pc = "saving"
      BY <1>1, <1>5 DEF Shared
  <1>6. \A t \in Server : Folder[t] = Folder[s] /\ Makes(s)' /\ Makes(t)' => s = t
      BY <1>1, <1>3 DEF Shared
  <1> QED
      BY <1>2, <1>4, <1>5, <1>6 DEF Shared

LEMMA GoKept ==
  ASSUME DevTypeOK, SecretKept, NEW s \in Server, NEW pc, Go(s, pc), UNCHANGED secret,
         muddled \subseteq muddled',
         pc \in {"writing", "binding", "serving", "leaving", "exiting"} => Has(s),
         pc \notin {"minting", "saving", "ready"},
         Folder[s] \notin muddled' => server[s].pc # "saving"
  PROVE  SecretKept'
  <1>1. /\ \A t \in Server \ {s} : server'[t] = server[t]
        /\ server'[s].pc = pc /\ server'[s].token = server[s].token
      BY DEF Go, DevTypeOK, Run
  <1> QED
      BY <1>1, SameSecrets DEF Has, Makes

LEMMA RunKept == ASSUME DevTypeOK, SecretKept, NEW s \in Server, Dev(s) PROVE SecretKept'
  <1>0. server \in [Server -> Run] /\ secret \in [Place -> Server \union {"none", "empty"}]
      BY DEF DevTypeOK
  <1>1. CASE ReadSecret(s)
    <2>1. /\ server[s].pc = "started" /\ UNCHANGED secret /\ muddled \subseteq muddled'
          /\ Making(s) => Folder[s] \in muddled'
          /\ \A t \in Server \ {s} : server'[t] = server[t]
          /\ \/ secret[Folder[s]] = "none" /\ server'[s].pc = "minting"
             \/ /\ secret[Folder[s]] # "none" /\ server'[s].pc = "ready"
                /\ server'[s].token = secret[Folder[s]]
        BY <1>0, <1>1 DEF ReadSecret, Run
    <2> SUFFICES ASSUME NEW t \in Server, Folder[t] \notin muddled' PROVE Shared(t)'
        BY DEF SecretKept
    <2>2. Shared(t)
        BY <2>1 DEF SecretKept
    <2>3. CASE Folder[t] # Folder[s]
      <3>1. \A q \in Server : Folder[q] = Folder[t] => server'[q] = server[q]
          BY <2>1, <2>3
      <3> QED
          BY <2>1, <2>2, <3>1 DEF Shared, Has, Makes
    <2>4. CASE Folder[t] = Folder[s]
      <3>1. \A q \in Server : Folder[q] = Folder[s] => ~ Makes(q)
          BY <2>1, <2>4 DEF Making, Makes
      <3>2. secret[Folder[s]] # "empty"
          BY <2>2, <2>4, <3>1 DEF Shared, Makes
      <3>3. secret[Folder[s]] \in Server \union {"none"}
          BY <1>0, <3>2, FolderIsPlace
      <3>4. CASE t = s
          BY <2>1, <3>1, <3>2, <3>3, <3>4 DEF Shared, Has, Makes
      <3>5. CASE t # s
          BY <2>1, <2>2, <2>4, <3>1, <3>2, <3>5 DEF Shared, Has, Makes
      <3> QED
          BY <3>4, <3>5
    <2> QED
        BY <2>3, <2>4
  <1>2. CASE OpenSecret(s)
    <2>1. /\ server[s].pc = "minting" /\ UNCHANGED muddled /\ server'[s].pc = "saving"
          /\ \A t \in Server \ {s} : server'[t] = server[t]
          /\ secret' = [secret EXCEPT ![Folder[s]] = "empty"]
        BY <1>0, <1>2 DEF OpenSecret, Go, Run
    <2> SUFFICES ASSUME NEW t \in Server, Folder[t] \notin muddled' PROVE Shared(t)'
        BY DEF SecretKept
    <2>2. Shared(t)
        BY <2>1 DEF SecretKept
    <2>3. CASE Folder[t] # Folder[s]
      <3>1. secret'[Folder[t]] = secret[Folder[t]]
          BY <1>0, <2>1, <2>3, FolderIsPlace
      <3>2. \A q \in Server : Folder[q] = Folder[t] => server'[q] = server[q]
          BY <2>1, <2>3
      <3> QED
          BY <2>1, <2>2, <3>1, <3>2 DEF Shared, Has, Makes
    <2>4. CASE Folder[t] = Folder[s]
      <3>1. secret'[Folder[t]] = "empty" /\ secret[Folder[s]] = "none"
          BY <1>0, <2>1, <2>4, FolderIsPlace DEF SecretKept, Shared
      <3>2. \A q \in Server \ {s} : Folder[q] = Folder[s] => ~ Makes(q) /\ ~ Has(q)
          BY <2>1, <2>4, <3>1, DevAssumption DEF SecretKept, Shared, Makes
      <3>3. \A q \in Server \ {s} : Folder[q] = Folder[s] => ~ Makes(q)' /\ ~ Has(q)'
          BY <2>1, <3>2 DEF Makes, Has
      <3> QED
          BY <2>1, <2>4, <3>1, <3>3 DEF Shared, Has, Makes
    <2> QED
        BY <2>3, <2>4
  <1>3. CASE SaveSecret(s)
    <2>1. /\ server[s].pc = "saving" /\ UNCHANGED muddled
          /\ server'[s].pc = "ready" /\ server'[s].token = s
          /\ \A t \in Server \ {s} : server'[t] = server[t]
          /\ secret' = [secret EXCEPT ![Folder[s]] = s]
        BY <1>0, <1>3 DEF SaveSecret, Run
    <2> SUFFICES ASSUME NEW t \in Server, Folder[t] \notin muddled' PROVE Shared(t)'
        BY DEF SecretKept
    <2>2. Shared(t)
        BY <2>1 DEF SecretKept
    <2>3. CASE Folder[t] # Folder[s]
      <3>1. secret'[Folder[t]] = secret[Folder[t]]
          BY <1>0, <2>1, <2>3, FolderIsPlace
      <3>2. \A q \in Server : Folder[q] = Folder[t] => server'[q] = server[q]
          BY <2>1, <2>3
      <3> QED
          BY <2>1, <2>2, <3>1, <3>2 DEF Shared, Has, Makes
    <2>4. CASE Folder[t] = Folder[s]
      <3>1. secret'[Folder[t]] = s /\ secret[Folder[s]] = "empty" /\ s # "empty" /\ "empty" \notin Server
          BY <1>0, <2>1, <2>4, FolderIsPlace, DevAssumption DEF SecretKept, Shared
      <3>2. \A q \in Server \ {s} : Folder[q] = Folder[s] => ~ Makes(q) /\ ~ Has(q)
          BY <2>1, <2>4, <3>1 DEF SecretKept, Shared, Makes
      <3>3. \A q \in Server \ {s} : Folder[q] = Folder[s] => ~ Makes(q)' /\ ~ Has(q)'
          BY <2>1, <3>2 DEF Makes, Has
      <3> QED
          BY <2>1, <2>4, <3>1, <3>3 DEF Shared, Has, Makes
    <2> QED
        BY <2>3, <2>4
  <1>4. CASE OpenDiscovery(s) \/ WriteDiscovery(s) \/ Stop(s)
      BY <1>4, GoKept DEF OpenDiscovery, WriteDiscovery, Stop, Has
  <1>5. CASE Bind(s)
      BY <1>5, GoKept DEF Bind, Has
  <1>6. CASE Leave(s)
      BY <1>6, GoKept DEF Leave, Has
  <1>7. CASE Kill(s)
    <2>1. /\ Go(s, "gone") /\ UNCHANGED secret /\ muddled \subseteq muddled'
          /\ server[s].pc = "saving" => Folder[s] \in muddled'
        BY <1>7 DEF Kill
    <2> QED
        BY <2>1, GoKept
  <1>8. ASSUME NEW p \in Port, NEW pid \in Pid, Start(s, p, pid) PROVE SecretKept'
    <2>1. /\ server[s].pc = "off" /\ server'[s].pc = "started" /\ UNCHANGED <<secret, muddled>>
          /\ \A t \in Server \ {s} : server'[t] = server[t]
        BY <1>0, <1>8, OffIsRun DEF Start, Run
    <2> QED
        BY <2>1, SameSecrets DEF Has, Makes
  <1> QED
      BY <1>1, <1>2, <1>3, <1>4, <1>5, <1>6, <1>7, <1>8 DEF Dev

LEMMA SdkLeavesServers == ASSUME NEW c \in Client, Sdk(c) PROVE UNCHANGED <<server, secret, muddled>>
  BY DEF Sdk, ResolveUrl, CleanUp, ResolveToken, ResolveConfig, Call

LEMMA DevNextKept == ASSUME DevTypeOK, SecretKept, [DevNext]_devVars PROVE SecretKept'
  <1>1. ASSUME UNCHANGED <<server, secret, muddled>> PROVE SecretKept'
      BY <1>1 DEF SecretKept, Shared, Has, Makes
  <1> QED
      BY <1>1, RunKept, SdkLeavesServers DEF DevNext, devVars

LEMMA AlwaysKept == DevSpec => [](DevTypeOK /\ SecretKept)
  <1>1. DevTypeOK /\ SecretKept /\ [DevNext]_devVars => DevTypeOK' /\ SecretKept'
      BY DevNextTyped, DevNextKept
  <1>2. DevInit => DevTypeOK /\ SecretKept
      BY DevInitTyped, InitKept
  <1> QED
      BY <1>1, <1>2, PTL DEF DevSpec

\* The runs of one directory share its secrets, unless two made them at one time or the
\* one that made them was killed at it.
THEOREM SecretsAlwaysShared == DevSpec => []SecretsAreShared
  <1>1. DevTypeOK /\ SecretKept => SecretsAreShared
      BY KeptShares
  <1> QED
      BY <1>1, AlwaysKept, PTL
-----------------------------------------------------------------------------
\* The discovery file holds the entry of a run that has written one, if nobody effaced it.
OwnEntry(s) ==
    /\ server[s].pc = "writing" => s \in linked
    /\ server[s].pc \in {"binding", "serving"} => discovery = s

OwnEntries == \A s \in Server \ effaced : OwnEntry(s)

Placed == {s \in Server \ effaced : server[s].pc \in {"binding", "serving"}}

\* An agent that began to look when this entry was there finds it, and deletes nothing.
FoundIt(c, s) ==
    /\ client[c].pc # "cleaning"
    /\ client[c].pc = "found" => client[c].url = s
    /\ client[c].pc = "set" => client[c].url = s /\ client[c].from = s

Looked == \A c \in Client : \A s \in Placed \ client[c].missed : FoundIt(c, s)

LEMMA FoundGetsThrough ==
  ASSUME DevTypeOK, SecretsAreShared, Looked PROVE ServersAreFound
  <1> SUFFICES ASSUME NEW c \in Client, NEW s \in Serving, client[c].pc = "set",
                      s \notin effaced, s \notin client[c].missed, Folder[s] \notin muddled
               PROVE  GetsThrough(c, s)
      BY DEF ServersAreFound
  <1>1. s \in Placed
      BY DEF Serving, Placed
  <1>2. client[c].url = s /\ client[c].from = s
      BY <1>1 DEF Looked, FoundIt
  <1>3. s # NIL
      BY DevAssumption DEF Serving
  <1>4. server[s].token # "empty"
      BY DEF SecretsAreShared
  <1> QED
      BY <1>2, <1>3, <1>4 DEF GetsThrough, UrlPort, Token

LEMMA InitFound == DevInit => OwnEntries /\ Looked
  <1>1. DevInit => OwnEntries
      BY OffIsRun DEF DevInit, OwnEntries, OwnEntry
  <1>2. DevInit => Looked
      BY AtRestIsAgent DEF DevInit, Looked, FoundIt
  <1> QED
      BY <1>1, <1>2

\* A run's step keeps what others wrote, or counts it as effaced.
LEMMA RunEntries ==
  ASSUME OwnEntries, NEW s \in Server, effaced \subseteq effaced',
         \A t \in Server \ {s} : server'[t] = server[t],
         \A t \in Server \ {s} : t \notin effaced' => /\ t \in linked => t \in linked'
                                                      /\ discovery = t => discovery' = t,
         s \notin effaced' => /\ server'[s].pc = "writing" => s \in linked'
                              /\ server'[s].pc \in {"binding", "serving"} => discovery' = s
  PROVE  OwnEntries'
  <1> SUFFICES ASSUME NEW t \in Server, t \notin effaced' PROVE OwnEntry(t)'
      BY DEF OwnEntries
  <1>1. CASE t = s
      BY <1>1 DEF OwnEntry
  <1>2. CASE t # s
      BY <1>2 DEF OwnEntries, OwnEntry
  <1> QED
      BY <1>1, <1>2

\* A run's step leaves the agents alone, and if it writes its entry they are told apart by it.
LEMMA RunLooked ==
  ASSUME Looked, NEW s \in Server, effaced \subseteq effaced',
         \A t \in Server \ {s} : server'[t] = server[t],
         \A c \in Client : /\ client'[c].pc = client[c].pc /\ client'[c].url = client[c].url
                           /\ client'[c].from = client[c].from
                           /\ client[c].missed \subseteq client'[c].missed,
         \/ server'[s].pc \in {"binding", "serving"} => server[s].pc \in {"binding", "serving"}
         \/ \A c \in Client : client'[c].pc = "idle" \/ s \in client'[c].missed
  PROVE  Looked'
  <1> SUFFICES ASSUME NEW c \in Client, NEW t \in Placed', t \notin client'[c].missed
               PROVE  FoundIt(c, t)'
      BY DEF Looked
  <1>1. t \in Server /\ t \notin effaced /\ server'[t].pc \in {"binding", "serving"}
      BY DEF Placed
  <1>2. CASE client'[c].pc = "idle"
      BY <1>2 DEF FoundIt
  <1>3. CASE server[t].pc \in {"binding", "serving"}
    <2>1. t \in Placed /\ t \notin client[c].missed
        BY <1>1, <1>3 DEF Placed
    <2> QED
        BY <2>1 DEF Looked, FoundIt
  <1> QED
      BY <1>1, <1>2, <1>3

LEMMA RunStays ==
  ASSUME DevTypeOK, OwnEntries, Looked, NEW s \in Server, Dev(s) PROVE OwnEntries' /\ Looked'
  <1>0. /\ server \in [Server -> Run] /\ server[s] \in Run
        /\ client \in [Client -> Agent] /\ discovery \in Server \union {"none", "empty", "garbled"}
      BY DEF DevTypeOK
  <1>1. CASE ReadSecret(s) \/ OpenSecret(s) \/ SaveSecret(s)
    <2>1. /\ UNCHANGED <<client, effaced, linked, discovery>>
          /\ server'[s].pc \in {"minting", "saving", "ready"}
          /\ \A t \in Server \ {s} : server'[t] = server[t]
      <3>1. CASE ReadSecret(s)
          BY <1>0, <3>1 DEF ReadSecret, Run
      <3>2. CASE OpenSecret(s)
          BY <1>0, <3>2 DEF OpenSecret, Go, Run
      <3>3. CASE SaveSecret(s)
          BY <1>0, <3>3 DEF SaveSecret, Run
      <3> QED
          BY <1>1, <3>1, <3>2, <3>3
    <2> QED
        BY <2>1, RunEntries, RunLooked
  <1>2. CASE OpenDiscovery(s)
    <2>1. /\ UNCHANGED client /\ effaced' = effaced \union Discovered
          /\ linked' = linked \union {s} /\ server'[s].pc = "writing"
          /\ \A t \in Server \ {s} : server'[t] = server[t]
        BY <1>0, <1>2 DEF OpenDiscovery, Go, Run
    <2>2. \A t \in Server : t \notin effaced' => discovery # t
        BY <2>1 DEF Discovered
    <2> QED
        BY <2>1, <2>2, RunEntries, RunLooked
  <1>3. CASE WriteDiscovery(s)
    <2>1. /\ server[s].pc = "writing" /\ server'[s].pc = "binding"
          /\ linked' = linked \ {s} /\ effaced \subseteq effaced'
          /\ \A t \in Server \ {s} : server'[t] = server[t]
        BY <1>0, <1>3 DEF WriteDiscovery, Go, Run
    <2>2. \A t \in Server : t \notin effaced' => (discovery = t => discovery' = t)
        BY <1>3 DEF WriteDiscovery, Discovered
    <2>3. s \notin effaced' => discovery' = s
      <3>1. s \notin effaced' => s \in linked
          BY <2>1 DEF OwnEntries, OwnEntry
      <3>2. s \in linked => discovery' \in {s, "garbled"}
          BY <1>3 DEF WriteDiscovery
      <3> QED
          BY <1>3, <3>1, <3>2 DEF WriteDiscovery
    <2>4. OwnEntries'
        BY <2>1, <2>2, <2>3, RunEntries
    <2>5. \A c \in Client : /\ client'[c].pc = client[c].pc /\ client'[c].url = client[c].url
                            /\ client'[c].from = client[c].from
                            /\ client[c].missed \subseteq client'[c].missed
                            /\ client'[c].pc = "idle" \/ s \in client'[c].missed
        BY <1>0, <1>3 DEF WriteDiscovery, Agent
    <2> QED
        BY <2>1, <2>4, <2>5, RunLooked
  <1>4. CASE Bind(s)
    <2>1. /\ UNCHANGED <<client, effaced, linked, discovery>>
          /\ server[s].pc = "binding" /\ server'[s].pc \in {"leaving", "serving"}
          /\ \A t \in Server \ {s} : server'[t] = server[t]
        BY <1>0, <1>4 DEF Bind, Go, Run
    <2>2. s \notin effaced => discovery = s
        BY <2>1 DEF OwnEntries, OwnEntry
    <2> QED
        BY <2>1, <2>2, RunEntries, RunLooked
  <1>5. CASE Stop(s)
    <2>1. /\ UNCHANGED <<client, effaced, linked, discovery>> /\ server'[s].pc = "leaving"
          /\ \A t \in Server \ {s} : server'[t] = server[t]
        BY <1>0, <1>5 DEF Stop, Go, Run
    <2> QED
        BY <2>1, RunEntries, RunLooked
  <1>6. CASE Leave(s)
    <2>1. /\ UNCHANGED client /\ effaced' = effaced \union Discovered \union linked
          /\ server'[s].pc \in {"exiting", "gone"}
          /\ \A t \in Server \ {s} : server'[t] = server[t]
        BY <1>0, <1>6 DEF Leave, Unlink, Go, Run
    <2>2. \A t \in Server : t \notin effaced' => discovery # t /\ t \notin linked
        BY <2>1 DEF Discovered
    <2> QED
        BY <2>1, <2>2, RunEntries, RunLooked
  <1>7. CASE Kill(s)
    <2>1. /\ UNCHANGED <<client, effaced, discovery>> /\ linked' = linked \ {s}
          /\ server'[s].pc = "gone"
          /\ \A t \in Server \ {s} : server'[t] = server[t]
        BY <1>0, <1>7 DEF Kill, Go, Run
    <2> QED
        BY <2>1, RunEntries, RunLooked
  <1>8. ASSUME NEW p \in Port, NEW pid \in Pid, Start(s, p, pid) PROVE OwnEntries' /\ Looked'
    <2>1. /\ UNCHANGED <<client, effaced, linked, discovery>> /\ server'[s].pc = "started"
          /\ \A t \in Server \ {s} : server'[t] = server[t]
        BY <1>0, <1>8, OffIsRun DEF Start, Run
    <2> QED
        BY <2>1, RunEntries, RunLooked
  <1> QED
      BY <1>1, <1>2, <1>3, <1>4, <1>5, <1>6, <1>7, <1>8 DEF Dev

\* Whoever reads the file then goes by this entry.
LEMMA PlacedIsEntry ==
  ASSUME OwnEntries, NEW s \in Placed PROVE Entry = s /\ ~ Stale
  <1>1. s \in Server /\ s \in Running /\ discovery = s
      BY DEF Placed, OwnEntries, OwnEntry, Running
  <1>2. Alive(s)
      BY <1>1 DEF Alive
  <1> QED
      BY <1>1, <1>2 DEF Entry, Stale

LEMMA SdkLooked ==
  ASSUME Looked, NEW c \in Client, UNCHANGED <<server, effaced>>,
         \A d \in Client \ {c} : client'[d] = client[d],
         \A s \in Placed \ client'[c].missed : FoundIt(c, s)'
  PROVE  Looked'
  <1>1. Placed' = Placed
      BY DEF Placed
  <1> SUFFICES ASSUME NEW d \in Client, NEW s \in Placed, s \notin client'[d].missed
               PROVE  FoundIt(d, s)'
      BY <1>1 DEF Looked
  <1> QED
      BY DEF Looked, FoundIt

LEMMA SdkStays ==
  ASSUME DevTypeOK, OwnEntries, Looked, NEW c \in Client, Sdk(c) PROVE OwnEntries' /\ Looked'
  <1>0. client \in [Client -> Agent] /\ client[c] \in Agent
      BY DEF DevTypeOK
  <1>1. ASSUME UNCHANGED <<server, discovery, linked, effaced>> PROVE OwnEntries'
      BY <1>1 DEF OwnEntries, OwnEntry
  <1>2. CASE ResolveUrl(c)
    <2>1. /\ UNCHANGED <<server, discovery, linked, effaced>>
          /\ \A d \in Client \ {c} : client'[d] = client[d]
          /\ client'[c].url = Entry
          /\ \/ client'[c].pc = "cleaning" /\ Stale
             \/ client'[c].pc = "found"
        BY <1>0, <1>2, AtRestIsAgent DEF ResolveUrl, Agent
    <2>2. \A s \in Placed : FoundIt(c, s)'
        BY <2>1, PlacedIsEntry DEF FoundIt
    <2> QED
        BY <1>1, <2>1, <2>2, SdkLooked
  <1>3. CASE CleanUp(c)
    <2>1. /\ UNCHANGED server /\ effaced' = effaced \union Discovered \union linked
        BY <1>3 DEF CleanUp, Unlink
    <2>2. \A s \in Server \ effaced' : server[s].pc \notin {"writing", "binding", "serving"}
        BY <2>1 DEF OwnEntries, OwnEntry, Discovered
    <2> QED
        BY <2>1, <2>2 DEF OwnEntries, OwnEntry, Looked, Placed
  <1>4. CASE ResolveToken(c)
    <2>1. /\ UNCHANGED <<server, discovery, linked, effaced>>
          /\ \A d \in Client \ {c} : client'[d] = client[d]
          /\ client'[c].url = client[c].url /\ client'[c].missed = client[c].missed
          /\ client[c].pc = "found"
          /\ \/ client'[c].pc = "cleaning" /\ Stale
             \/ client'[c].pc = "set" /\ client'[c].from = Entry
        BY <1>0, <1>4 DEF ResolveToken, Agent
    <2>2. \A s \in Placed \ client'[c].missed : FoundIt(c, s)'
        BY <2>1, PlacedIsEntry DEF FoundIt, Looked
    <2> QED
        BY <1>1, <2>1, <2>2, SdkLooked
  <1>5. CASE ResolveConfig(c)
    <2>1. /\ UNCHANGED <<server, discovery, linked, effaced>>
          /\ \A d \in Client \ {c} : client'[d] = client[d]
          /\ client'[c].pc = "set" /\ client'[c].url = Entry /\ client'[c].from = Entry
        BY <1>0, <1>5, AtRestIsAgent DEF ResolveConfig, Agent
    <2>2. \A s \in Placed : FoundIt(c, s)'
        BY <2>1, PlacedIsEntry DEF FoundIt
    <2> QED
        BY <1>1, <2>1, <2>2, SdkLooked
  <1>6. CASE Call(c)
    <2>1. /\ UNCHANGED <<server, discovery, linked, effaced>>
          /\ \A d \in Client \ {c} : client'[d] = client[d]
          /\ client'[c].pc = "idle"
        BY <1>0, <1>6, AtRestIsAgent DEF Call
    <2>2. \A s \in Placed : FoundIt(c, s)'
        BY <2>1 DEF FoundIt
    <2> QED
        BY <1>1, <2>1, <2>2, SdkLooked
  <1> QED
      BY <1>2, <1>3, <1>4, <1>5, <1>6 DEF Sdk

LEMMA DevNextStays ==
  ASSUME DevTypeOK, OwnEntries, Looked, [DevNext]_devVars PROVE OwnEntries' /\ Looked'
  <1>1. CASE UNCHANGED devVars
      BY <1>1 DEF devVars, OwnEntries, OwnEntry, Looked, FoundIt, Placed
  <1> QED
      BY <1>1, RunStays, SdkStays DEF DevNext

\* An agent gets through to every run that serves, whatever entries earlier runs left
\* behind, except where the run's entry was effaced, or written after the agent began to
\* look, or its secret half made: for any number of runs, ports, process ids and agents.
THEOREM ServersAlwaysFound == DevSpec => []ServersAreFound
  <1>1. DevInit => DevTypeOK /\ OwnEntries /\ Looked
      BY DevInitTyped, InitFound
  <1>2. DevTypeOK /\ OwnEntries /\ Looked /\ [DevNext]_devVars
        => (DevTypeOK /\ OwnEntries /\ Looked)'
      BY DevNextTyped, DevNextStays
  <1>3. DevTypeOK /\ SecretsAreShared /\ Looked => ServersAreFound
      BY FoundGetsThrough
  <1> QED
      BY <1>1, <1>2, <1>3, SecretsAlwaysShared, PTL DEF DevSpec
=============================================================================
