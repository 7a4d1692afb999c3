---------------------------- MODULE TokenRegistry ----------------------------
(***************************************************************************)
(* JSON web tokens and what Redis keeps about them: the blacklist of       *)
(* revoked tokens (one set per user), the index of sessions (one sorted    *)
(* set per user) and one hash per session.  All three expire.              *)
(*                                                                         *)
(* A handler issues its Redis commands one by one and requests of several  *)
(* API processes interleave between them.  A handler is therefore a        *)
(* program: the sequence of the commands it has still to send.  Execute    *)
(* sends the first one; a command whose reply decides what comes next is   *)
(* replaced by those commands.  A request may be cut off between two.      *)
(***************************************************************************)
EXTENDS Integers, Sequences, FiniteSets, SequencesExt

CONSTANTS
    Users,
    Processes,
    Null,           \* no marker, no session
    AccessLife,     \* ACCESS_TOKEN_EXPIRE_MINUTES
    RefreshLife,    \* REFRESH_TOKEN_EXPIRE_DAYS
    BlacklistTtl,   \* JWT_BLACKLIST_TTL
    Rs256,          \* ALGORITHM is RS256
    MaxTokens,      \* bound: tokens minted
    MaxClock,       \* bound: clock ticks
    MaxCalls,       \* bound: requests served
    MaxCuts         \* bound: requests cut off

ASSUME TokenAssumption ==
    /\ {AccessLife, RefreshLife, BlacklistTtl} \subseteq Nat \ {0}
    /\ Rs256 \in BOOLEAN
    /\ MaxTokens >= 2
    /\ {MaxTokens, MaxClock, MaxCalls, MaxCuts} \subseteq Nat

Tokens == 1..MaxTokens
Forever == -1       \* a key without a TTL

VARIABLES
    account,    \* the user row as the dependencies see it
    token,      \* the minted tokens: [user, purpose, iat, exp]
    held,       \* tokens a client has received
    black,      \* jwt:blacklist:<user>, a key of members [jti, exp]
    index,      \* user:sessions:<user>, a key of jtis
    meta,       \* user:session:meta:<user>:<jti>
    marker,     \* jwt:revoked-all:<user>, when it was set
    clock,
    prog,       \* each worker: commands to send, tokens to return
    calls, cuts,
    last,       \* history: the revocation that set a blacklist's TTL last
    revoked     \* history: tokens revoked by a request that completed

registryVars == <<account, token, held, black, index, meta, marker, clock, prog, calls, cuts, last, revoked>>

NoKey == [mem |-> {}, until |-> Forever]
NoMeta == [exp |-> 0, until |-> Forever, there |-> FALSE]
NoProg == [todo |-> <<>>, give |-> {}, gone |-> {}]
NoToken == [user |-> Null, iat |-> 0, exp |-> 0]

-----------------------------------------------------------------------------
(***************************************************************************)
(* Redis keys.  Expiry drops a key whose TTL is over, so a key that is not *)
(* there has no members.                                                   *)
(***************************************************************************)
KeyAdd(key, m) == [key EXCEPT !.mem = @ \cup {m}]
KeyRemove(key, m) == IF key.mem \subseteq {m} THEN NoKey ELSE [key EXCEPT !.mem = @ \ {m}]
Expire(key, ttl) == IF key.mem = {} THEN key ELSE [key EXCEPT !.until = clock + ttl]
Dead(until, t) == until # Forever /\ until <= t

Larger(a, b) == IF a >= b THEN a ELSE b
Smaller(a, b) == IF a <= b THEN a ELSE b

\* Mutant: the TTL is not derived from the token.
TtlConstant(exp) == 1

\* min(JWT_BLACKLIST_TTL, max(1, exp - now))
Ttl(exp) == Smaller(BlacklistTtl, Larger(1, exp - clock))

-----------------------------------------------------------------------------
(***************************************************************************)
(* Commands and the programs made of them.                                 *)
(***************************************************************************)
Cmd(op, j, n) == [op |-> op, jti |-> j, n |-> n]

\* store_session: the commands after its ZADD carry the TTL computed there.
StoreSession(j) == <<Cmd("zadd", j, 0)>>
AfterZadd(j, ttl) ==
    <<Cmd("expire_index", j, ttl), Cmd("hset", j, 0), Cmd("expire_meta", j, ttl)>>

\* blacklist_token
BlacklistToken(j, exp) == <<Cmd("sadd", j, exp)>>
\* Mutant: the blacklist key gets no TTL of its own.
AfterSaddNothing(j, exp) == <<>>
AfterSadd(j, exp) ==
    <<[op |-> "expire_black", jti |-> j, n |-> Ttl(exp), exp |-> exp]>>

\* Mutant: revoking only blacklists, the session stays in the registry.
RevokeSessionKept(j, exp) == BlacklistToken(j, exp)

\* revoke_session
RevokeSession(j, exp) ==
    <<Cmd("zrem", j, 0), Cmd("del_meta", j, 0)>> \o BlacklistToken(j, exp)

\* revoke_all_user_sessions: HGETALL, blacklist, DEL for each member read.
RevokeAllSessions(j) == <<Cmd("zrevrange", j, 0)>>
RevokeEach(s) ==
    [k \in 1..(2 * Len(s)) |->
        Cmd(IF k % 2 = 1 THEN "hgetall" ELSE "del_meta", s[(k + 1) \div 2], 0)]
AfterRange(j, s) == RevokeEach(s) \o <<Cmd("del_index", j, 0), Cmd("setex", j, 0)>>

\* list_active_sessions: one HGETALL per member read; an expired one is dropped.
ListSessions(j) == <<Cmd("list", j, 0)>>
AfterList(s) == [k \in DOMAIN s |-> Cmd("check", s[k], 0)]

\* ZREVRANGE: newest first, ties in some order.
Newest(S) ==
    {s \in SetToSeqs(S) : \A a, b \in DOMAIN s : a < b => token[s[a]].iat >= token[s[b]].iat}

\* What command c makes of the rest of the program.
Replies(c) ==
    LET u == token[c.jti].user IN
    CASE c.op = "zadd"      -> {AfterZadd(c.jti, Ttl(token[c.jti].exp))}
      [] c.op = "sadd"      -> {AfterSadd(c.jti, c.n)}
      [] c.op = "zrevrange" -> {AfterRange(c.jti, s) : s \in Newest(index[u].mem)}
      [] c.op = "hgetall"   -> {BlacklistToken(c.jti, meta[c.jti].exp)}
      [] c.op = "list"      -> {AfterList(s) : s \in Newest(index[u].mem)}
      [] c.op = "check"     -> {IF meta[c.jti].there /\ meta[c.jti].exp < clock
                                THEN <<Cmd("zrem", c.jti, 0), Cmd("del_meta", c.jti, 0)>>
                                ELSE <<>>}
      [] OTHER              -> {<<>>}

\* What it does to Redis.
Effect(c) ==
    LET u == token[c.jti].user
        j == c.jti
    IN
    /\ black' = CASE c.op = "sadd" -> [black EXCEPT ![u] = KeyAdd(@, [jti |-> j, exp |-> c.n])]
                  [] c.op = "expire_black" -> [black EXCEPT ![u] = Expire(@, c.n)]
                  [] OTHER -> black
    /\ index' = CASE c.op = "zadd" -> [index EXCEPT ![u] = KeyAdd(@, j)]
                  [] c.op = "expire_index" -> [index EXCEPT ![u] = Expire(@, c.n)]
                  [] c.op = "zrem" -> [index EXCEPT ![u] = KeyRemove(@, j)]
                  [] c.op = "del_index" -> [index EXCEPT ![u] = NoKey]
                  [] OTHER -> index
    /\ meta' = CASE c.op = "hset" ->
                       [meta EXCEPT ![j].exp = token[j].exp, ![j].there = TRUE]
                 [] c.op = "expire_meta" /\ meta[j].there ->
                       [meta EXCEPT ![j].until = clock + c.n]
                 [] c.op = "del_meta" -> [meta EXCEPT ![j] = NoMeta]
                 [] OTHER -> meta
    /\ marker' = IF c.op = "setex" THEN [marker EXCEPT ![u] = clock] ELSE marker

\* A blacklist_token call is over with its EXPIRE.  If the key expired just
\* before it, the call has left nothing behind.
Revocation(c) ==
    LET u == token[c.jti].user IN
    last' = IF c.op # "expire_black" THEN last
            ELSE [last EXCEPT ![u] =
                    IF [jti |-> c.jti, exp |-> c.exp] \in black[u].mem
                    THEN [user |-> c.jti, iat |-> clock, exp |-> c.exp]
                    ELSE NoToken]

\* Worker w sends its next command; after the last one the request is over.
Execute(w) ==
    /\ prog[w].todo # <<>>
    /\ LET c == Head(prog[w].todo)
           gone == prog[w].gone \cup (IF c.op = "expire_black" THEN {c.jti} ELSE {})
       IN
       /\ Effect(c)
       /\ Revocation(c)
       /\ \E r \in Replies(c) :
             LET rest == r \o Tail(prog[w].todo) IN
             \/ /\ rest = <<>>
                /\ prog' = [prog EXCEPT ![w] = NoProg]
                /\ held' = held \cup prog[w].give
                /\ revoked' = revoked \cup gone
             \/ /\ rest # <<>>
                /\ prog' = [prog EXCEPT ![w].todo = rest, ![w].gone = gone]
                /\ UNCHANGED <<held, revoked>>
    /\ UNCHANGED <<account, token, clock, calls, cuts>>

-----------------------------------------------------------------------------
(***************************************************************************)
(* Handlers.                                                               *)
(***************************************************************************)
Resting(w) == prog[w] = NoProg

\* create_access_token and create_refresh_token
Mint(u, life, purpose) == [user |-> u, purpose |-> purpose, iat |-> clock, exp |-> clock + life]
CreateAccess(u) == Mint(u, AccessLife, "access")
CreateRefresh(u) == Mint(u, RefreshLife, "refresh")

\* decode_access_token asks for no purpose, so a refresh token passes too.
Valid(j) == token[j].exp >= clock
\* decode_refresh_token asks for its purpose, unless tokens are signed with RS256.
ValidRefresh(j) == Valid(j) /\ (Rs256 \/ token[j].purpose = "refresh")

\* One user has logged in: what _issue_tokens leaves behind at time 0.
RegistryInit ==
    /\ account = [u \in Users |-> "active"]
    /\ clock = 0
    /\ held = {1, 2}
    /\ black = [u \in Users |-> NoKey]
    /\ \E u \in Users :
          /\ token = <<CreateAccess(u), CreateRefresh(u)>>
          /\ index = [x \in Users |->
                IF x = u THEN [mem |-> {1, 2}, until |-> Ttl(RefreshLife)] ELSE NoKey]
    /\ meta = [j \in Tokens |->
          IF j \in {1, 2}
          THEN [exp |-> token[j].exp, until |-> Ttl(token[j].exp), there |-> TRUE]
          ELSE NoMeta]
    /\ marker = [u \in Users |-> Null]
    /\ prog = [w \in Processes |-> NoProg]
    /\ calls = 0 /\ cuts = 0
    /\ last = [u \in Users |-> NoToken]
    /\ revoked = {}

\* is_token_blacklisted
Blacklisted(j) == \E m \in black[token[j].user].mem : m.jti = j /\ m.exp >= clock

\* get_current_user: a soft-deleted row is still found, an inactive one refused.
Accepted(j) ==
    /\ j \in held
    /\ Valid(j)
    /\ ~Blacklisted(j)
    /\ account[token[j].user] # "inactive"

Start(w, todo, give) ==
    /\ Resting(w)
    /\ calls < MaxCalls
    /\ calls' = calls + 1
    /\ prog' = [prog EXCEPT ![w] = [todo |-> todo, give |-> give, gone |-> {}]]

RedisUnchanged == UNCHANGED <<black, index, meta, marker, last, revoked>>

\* _issue_tokens, as login calls it: the row's is_active is not looked at.
IssueTokens(w, u) ==
    LET a == Len(token) + 1
        r == Len(token) + 2
    IN
    /\ r <= MaxTokens
    /\ token' = token \o <<CreateAccess(u), CreateRefresh(u)>>
    /\ Start(w, StoreSession(a) \o StoreSession(r), {a, r})
    /\ RedisUnchanged
    /\ UNCHANGED <<account, held, clock, cuts>>

\* login_with_totp asks for an active, undeleted user.
LoginWithTotp(w, u) == account[u] = "active" /\ IssueTokens(w, u)

\* verify_magic_link has a copy of _issue_tokens and asks for no active user.
VerifyMagicLink(w, u) == IssueTokens(w, u)

\* webauthn_login_complete returns an access token and stores no session.
WebAuthnLogin(w, u) ==
    /\ Resting(w)
    /\ Len(token) < MaxTokens
    /\ calls < MaxCalls
    /\ calls' = calls + 1
    /\ token' = Append(token, CreateAccess(u))
    /\ held' = held \cup {Len(token) + 1}
    /\ RedisUnchanged
    /\ UNCHANGED <<account, clock, prog, cuts>>

\* refresh_access_token: the old refresh token's session is revoked first.
RefreshTokens(w, j) ==
    LET u == token[j].user
        a == Len(token) + 1
        r == Len(token) + 2
    IN
    /\ j \in held
    /\ ValidRefresh(j)
    /\ account[u] = "active"
    /\ r <= MaxTokens
    /\ token' = token \o <<CreateAccess(u), CreateRefresh(u)>>
    /\ Start(w, RevokeSession(j, token[j].exp) \o StoreSession(a) \o StoreSession(r), {a, r})
    /\ RedisUnchanged
    /\ UNCHANGED <<account, held, clock, cuts>>

Request(w, todo) ==
    /\ Start(w, todo, {})
    /\ RedisUnchanged
    /\ UNCHANGED <<account, token, held, clock, cuts>>

\* revoke_token
RevokeToken(w, j) == Accepted(j) /\ Request(w, RevokeSession(j, token[j].exp))

\* revoke_all_tokens
RevokeAllTokens(w, j) == Accepted(j) /\ Request(w, RevokeAllSessions(j))

\* list_sessions_endpoint
ListSessionsEndpoint(w, j) == Accepted(j) /\ Request(w, ListSessions(j))

\* get_session; None when the hash is gone.
GetSession(j) == IF meta[j].there THEN [expires_at |-> meta[j].exp] ELSE Null

\* revoke_session_endpoint, by token a of the same user: the session must have
\* a hash, and the expiry is taken from there.
RevokeSessionEndpoint(w, a, j) ==
    /\ Accepted(a)
    /\ token[a].user = token[j].user
    /\ GetSession(j) # Null
    /\ Request(w, RevokeSession(j, GetSession(j).expires_at))

\* admin_revoke_session: the same for any user's session.
AdminRevokeSession(w, j) ==
    /\ GetSession(j) # Null
    /\ Request(w, RevokeSession(j, GetSession(j).expires_at))

\* A request is cut off: the process dies or Redis does not answer.
Cut(w) ==
    /\ ~Resting(w)
    /\ cuts < MaxCuts
    /\ cuts' = cuts + 1
    /\ prog' = [prog EXCEPT ![w] = NoProg]
    /\ RedisUnchanged
    /\ UNCHANGED <<account, token, held, clock, calls>>

\* The users endpoints change the row meanwhile.
SetAccount(u, st) ==
    /\ account[u] # st
    /\ calls < MaxCalls
    /\ calls' = calls + 1
    /\ account' = [account EXCEPT ![u] = st]
    /\ RedisUnchanged
    /\ UNCHANGED <<token, held, clock, prog, cuts>>

\* Time passes and Redis drops what has expired.
Expiry ==
    /\ clock < MaxClock
    /\ clock' = clock + 1
    /\ black' = [u \in Users |-> IF Dead(black[u].until, clock + 1) THEN NoKey ELSE black[u]]
    /\ index' = [u \in Users |-> IF Dead(index[u].until, clock + 1) THEN NoKey ELSE index[u]]
    /\ meta' = [j \in Tokens |-> IF Dead(meta[j].until, clock + 1) THEN NoMeta ELSE meta[j]]
    /\ marker' = [u \in Users |->
          IF marker[u] # Null /\ marker[u] + BlacklistTtl <= clock + 1 THEN Null ELSE marker[u]]
    /\ UNCHANGED <<account, token, held, prog, calls, cuts, last, revoked>>

Free(w) == Resting(w) /\ calls < MaxCalls

RegistryNext ==
    \/ \E w \in Processes :
          \/ Execute(w) \/ Cut(w)
          \/ Free(w) /\ \E u \in Users :
                \/ IssueTokens(w, u) \/ LoginWithTotp(w, u) \/ VerifyMagicLink(w, u)
                \/ WebAuthnLogin(w, u)
          \/ Free(w) /\ \E j \in 1..Len(token) :
                \/ RefreshTokens(w, j)
                \/ RevokeToken(w, j) \/ RevokeAllTokens(w, j)
                \/ ListSessionsEndpoint(w, j) \/ AdminRevokeSession(w, j)
                \/ \E a \in 1..Len(token) : RevokeSessionEndpoint(w, a, j)
    \/ \E u \in Users, st \in {"active", "inactive", "deleted"} : SetAccount(u, st)
    \/ Expiry

RegistrySpec == RegistryInit /\ [][RegistryNext]_registryVars

-----------------------------------------------------------------------------
(***************************************************************************)
(* Properties.                                                             *)
(***************************************************************************)
Token == [user : Users, purpose : {"access", "refresh"}, iat : Nat, exp : Nat]
Command ==
    [op : {"zadd", "expire_index", "hset", "expire_meta", "sadd", "zrem", "del_meta",
           "zrevrange", "hgetall", "del_index", "setex", "list", "check"},
     jti : Nat, n : Nat]
    \cup [op : {"expire_black"}, jti : Nat, n : Nat, exp : Nat]

RegistryTypeOK ==
    /\ account \in [Users -> {"active", "inactive", "deleted"}]
    /\ token \in Seq(Token) /\ Len(token) <= MaxTokens
    /\ held \subseteq 1..Len(token)
    /\ black \in [Users -> [mem : SUBSET [jti : Nat, exp : Nat], until : Int]]
    /\ index \in [Users -> [mem : SUBSET Nat, until : Int]]
    /\ meta \in [Tokens -> [exp : Nat, until : Int, there : BOOLEAN]]
    /\ marker \in [Users -> Nat \cup {Null}]
    /\ clock \in Nat
    /\ prog \in [Processes -> [todo : Seq(Command), give : SUBSET Nat, gone : SUBSET Nat]]
    /\ calls \in Nat /\ cuts \in Nat
    /\ last \in [Users -> [user : Nat \cup {Null}, iat : Nat, exp : Nat]]
    /\ revoked \subseteq Nat

\* The tokens of a user share one blacklist key and one TTL.  Whatever is
\* revoked around it, the token whose revocation set that TTL last is refused
\* until it expires or the blacklist's maximal age is over.
LastRevocationHolds ==
    \A u \in Users :
        (/\ last[u].user # Null
         /\ clock < last[u].exp
         /\ clock < last[u].iat + BlacklistTtl) => Blacklisted(last[u].user)

\* list_active_sessions: members of the index whose hash is there, unexpired.
Listed(u) == {j \in index[u].mem : meta[j].there /\ meta[j].exp >= clock}

\* A token a completed request has revoked is never listed as a session again,
\* however the steps of storing, revoking and revoking-all interleave.
RevokedNotListed == \A u \in Users : Listed(u) \cap revoked = {}

\* Every key gets its TTL: when no request is under way, a key without one
\* can only be what a cut-off request left behind.
NoImmortalKeys ==
    (cuts = 0 /\ \A w \in Processes : Resting(w)) =>
        /\ \A u \in Users : /\ black[u].mem # {} => black[u].until # Forever
                            /\ index[u].mem # {} => index[u].until # Forever
        /\ \A j \in Tokens : meta[j].there => meta[j].until # Forever

=============================================================================
