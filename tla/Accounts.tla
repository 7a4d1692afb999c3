------------------------------ MODULE Accounts ------------------------------
(***************************************************************************)
(* The users table and everybody who writes it: registration (REST,        *)
(* GraphQL, bulk, CSV, magic link), password login with its lockout, the   *)
(* second factor, e-mail verification, profile and administrator edits,    *)
(* soft delete, restore and purge; and the WebAuthn ceremonies, whose      *)
(* challenges live in the memory of one API process.                       *)
(*                                                                         *)
(* As in Subscriptions, a handler loads and computes in one step and       *)
(* commits in another; a commit writes only the columns the handler        *)
(* changed, onto whatever the row has become meanwhile.                    *)
(***************************************************************************)
EXTENDS Integers, FiniteSets, AdminRegistry

CONSTANTS
    Emails, Usernames,
    Codes,              \* the backup codes one TOTP enrolment generates
    Workers,            \* API processes, one request at a time each
    None,
    MaxAttempts,        \* MAX_LOGIN_ATTEMPTS
    LockTicks,          \* LOGIN_LOCKOUT_MINUTES
    LinkTicks,          \* life of mailed links and TOTP challenges
    RetentionTicks,     \* older_than_days of the purge
    AllowMagicRegistration,
    MaxUsers,           \* bound: rows ever inserted
    MaxTime,            \* bound: clock ticks
    MaxRequests         \* bound: write requests served

\* The codes are random strings, none of them a word of the model (see Idle
\* and Recorded); an address has at most so many characters.
ASSUME AccountsAssumption ==
    /\ None \notin Emails \cup Usernames \cup Nat
    /\ Codes \cap {"wrong", "right", "enroll", "edit"} = {}
    /\ IsFiniteSet(Emails) /\ IsFiniteSet(Workers)
    /\ MaxAttempts \in Nat \ {0}
    /\ LockTicks \in Nat \ {0}
    /\ {RetentionTicks, LinkTicks} \subseteq Nat
    /\ AllowMagicRegistration \in BOOLEAN
    /\ MaxUsers \in Nat \ {0} /\ MaxTime \in Nat /\ MaxRequests \in Nat

UserIds == 1..MaxUsers
Clock == 0..MaxTime

\* username None: a random one, which collides with no other.
User == [email : Emails, username : Usernames \cup {None}, is_active : BOOLEAN,
         is_verified : BOOLEAN, failed : Nat, locked_until : Nat \cup {None},
         secret : BOOLEAN, totp_enabled : BOOLEAN, backup_codes : SUBSET Codes,
         deleted_at : Nat \cup {None}]
NoUser == [absent |-> TRUE]

VARIABLES
    users,          \* the table
    nextId,         \* the primary key sequence
    now,
    sess,           \* each worker's request
    pendingReg,     \* _pending_registrations: the users with one, per process
    credentials,    \* webauthn_credentials: rows per user
    pendingAuth,    \* _pending_authentications, likewise
    signed,         \* signed tokens handed out, the longest-lived of each kind
    begun, asked,   \* history: ceremonies begun per user, registration and login
    passkeyLogins,  \* history: access tokens webauthn_login_complete gave out
    served,         \* write requests served (bounded)
    hist            \* history of each row, see NoHistory

vars == <<users, nextId, now, sess, pendingReg, pendingAuth, credentials,
          signed, begun, asked, passkeyLogins, served, hist>>

passkeys == <<pendingReg, pendingAuth, credentials, begun, asked, passkeyLogins>>

\* What happened to a row: wrong passwords committed in all and since the
\* last right one, backup codes accepted since the last enrolment, and
\* whether a commit ever landed on a row that had changed since it was read.
NoHistory == [wrong |-> 0, streak |-> 0, spent |-> {}, raced |-> FALSE]

Idle == [id |-> None, snap |-> NoUser, new |-> NoUser, ins |-> {}, did |-> "edit"]

TypeOK ==
    /\ users \in [UserIds -> User \cup {NoUser}]
    /\ nextId \in 1..(MaxUsers + 1)
    /\ now \in Clock
    /\ \A w \in Workers :
          /\ sess[w].id \in UserIds \cup {None}
          /\ {sess[w].snap, sess[w].new} \subseteq User \cup {NoUser}
          /\ sess[w].ins \subseteq User
    /\ pendingReg \in [Workers -> SUBSET UserIds]
    /\ credentials \in [UserIds -> Nat]
    /\ pendingAuth \in [Workers -> SUBSET UserIds]
    /\ {begun, asked, passkeyLogins} \subseteq [UserIds -> Nat]
    /\ served \in 0..MaxRequests
    /\ \A i \in UserIds : hist[i].streak <= hist[i].wrong /\ hist[i].spent \subseteq Codes

NewUser(e, n) ==
    [email |-> e, username |-> n, is_active |-> TRUE, is_verified |-> FALSE,
     failed |-> 0, locked_until |-> None, secret |-> FALSE, totp_enabled |-> FALSE,
     backup_codes |-> {}, deleted_at |-> None]

\* One registered user; the sequence stands behind it.
Init ==
    /\ \E e \in Emails, n \in Usernames :
          users = [i \in UserIds |-> IF i = 1 THEN NewUser(e, n) ELSE NoUser]
    /\ nextId = 2
    /\ now = 0
    /\ sess = [w \in Workers |-> Idle]
    /\ pendingReg = [w \in Workers |-> {}]
    /\ credentials = [i \in UserIds |-> 0]
    /\ pendingAuth = pendingReg
    /\ signed = {}
    /\ begun = credentials /\ asked = credentials /\ passkeyLogins = credentials
    /\ served = 0
    /\ hist = [i \in UserIds |-> NoHistory]

-----------------------------------------------------------------------------
(***************************************************************************)
(* Queries.  get_by_email, get_by_username and get_with_roles see          *)
(* soft-deleted rows; CRUDBase.get does not.                               *)
(***************************************************************************)
Rows(t) == {i \in UserIds : t[i] # NoUser}
ByEmail(e) == {i \in Rows(users) : users[i].email = e}
ByUsername(n) == {i \in Rows(users) : users[i].username = n}
Get(i) == i \in Rows(users) /\ users[i].deleted_at = None

\* The unique email and username columns.
Unique(t) ==
    \A i, j \in Rows(t) :
        i # j => /\ t[i].email # t[j].email
                 /\ t[i].username = None \/ t[i].username # t[j].username

-----------------------------------------------------------------------------
(***************************************************************************)
(* Requests.                                                               *)
(***************************************************************************)
IsIdle(w) == sess[w] = Idle

Begin(w, s) ==
    /\ IsIdle(w)
    /\ served < MaxRequests
    /\ served' = served + 1
    /\ sess' = [sess EXCEPT ![w] = s]
    /\ UNCHANGED <<users, nextId, now, signed, passkeys, hist>>

\* The handler has loaded row i and turned it into row.
Stage(w, i, row, did) ==
    Begin(w, [Idle EXCEPT !.id = i, !.snap = users[i], !.new = row, !.did = did])

StageInsert(w, S) == S # {} /\ Begin(w, [Idle EXCEPT !.ins = S])

\* register: both lookups precede the INSERT.
Register(w, e, n) ==
    /\ ByEmail(e) = {}
    /\ ByUsername(n) = {}
    /\ StageInsert(w, {NewUser(e, n)})

\* The GraphQL mutation create_user looks nothing up.
GqlCreateUser(w, e, n) == StageInsert(w, {NewUser(e, n)})

\* bulk_create_users: one transaction for all rows, nothing looked up.
BulkCreate(w, f) == StageInsert(w, {NewUser(e, f[e]) : e \in DOMAIN f})

\* import_users_csv: rows whose e-mail exists are skipped before the INSERT.
ImportCsv(w, f) ==
    StageInsert(w, {NewUser(e, f[e]) : e \in {x \in DOMAIN f : ByEmail(x) = {}}})

\* Tokens that prove something by their signature alone.  They can be shown
\* any number of times until they expire, so of two for the same purpose and
\* subject the later one says all.
Sign(purpose, sub) == [purpose |-> purpose, sub |-> sub, exp |-> now + LinkTicks]
Handed(t) == {x \in signed : x.purpose # t.purpose \/ x.sub # t.sub} \cup {t}
Decodes(purpose, sub) ==
    \E t \in signed : t.purpose = purpose /\ t.sub = sub /\ t.exp >= now

CreateMagicLink(e) == Sign("magic_link", e)
DecodeMagicLink(e) == Decodes("magic_link", e)
CreateVerification(i) == Sign("email_verify", i)
DecodeVerification(i) == Decodes("email_verify", i)
CreateTotpChallenge(i) == Sign("totp_challenge", i)
DecodeTotpChallenge(i) == Decodes("totp_challenge", i)

\* A request that only mails a link.
Mail(w, t) ==
    /\ IsIdle(w)
    /\ served < MaxRequests
    /\ served' = served + 1
    /\ signed' = Handed(t)
    /\ UNCHANGED <<users, nextId, now, sess, passkeys, hist>>

\* request_magic_link is for anybody, known or not.
RequestMagicLink(w, e) == Mail(w, CreateMagicLink(e))

\* verify_magic_link: an unknown e-mail is registered, a known one verified.
MagicLinkNew(w, e) ==
    /\ DecodeMagicLink(e)
    /\ AllowMagicRegistration
    /\ ByEmail(e) = {}
    /\ StageInsert(w, {[NewUser(e, None) EXCEPT !.is_verified = TRUE]})

MagicLinkKnown(w, e) ==
    /\ DecodeMagicLink(e)
    /\ \E i \in ByEmail(e) :
          /\ ~users[i].is_verified
          /\ Stage(w, i, [users[i] EXCEPT !.is_verified = TRUE], "edit")

Locked(row) == row.locked_until # None /\ row.locked_until > now

\* Mutant: a wrong password counts twice.
WrongPasswordTwice(row) ==
    LET n == row.failed + 2 IN
    [row EXCEPT !.failed = n,
                !.locked_until = IF n >= MaxAttempts THEN now + LockTicks ELSE @]

WrongPassword(row) ==
    LET n == row.failed + 1 IN
    [row EXCEPT !.failed = n,
                !.locked_until = IF n >= MaxAttempts THEN now + LockTicks ELSE @]

RightPassword(row) == [row EXCEPT !.failed = 0, !.locked_until = None]

\* authenticate_user; a locked account is refused before the password is read.
Authenticate(w, e, right) ==
    \E i \in ByEmail(e) :
        /\ ~Locked(users[i])
        /\ IF right THEN Stage(w, i, RightPassword(users[i]), "right")
                    ELSE Stage(w, i, WrongPassword(users[i]), "wrong")

\* login_for_access_token: the tokens it then mints are in TokenRegistry; with
\* 2FA on, Commit hands out a challenge instead.
Login(w, e, right) == Authenticate(w, e, right)

\* verify_email: the link names the user, not the address it was sent to.
VerifyEmail(w, i) ==
    /\ DecodeVerification(i)
    /\ Get(i)
    /\ ~users[i].is_verified
    /\ Stage(w, i, [users[i] EXCEPT !.is_verified = TRUE], "edit")

-----------------------------------------------------------------------------
(***************************************************************************)
(* The second factor.  Its endpoints act on the row get_current_user       *)
(* loaded (get_with_roles), which must be active.                          *)
(***************************************************************************)
CurrentUser(i) == i \in Rows(users) /\ users[i].is_active

\* request_email_verification
RequestEmailVerification(w, i) ==
    CurrentUser(i) /\ ~users[i].is_verified /\ Mail(w, CreateVerification(i))

GenerateBackupCodes == Codes

\* enable_totp: a new secret and new codes; the switch stays off.
EnableTotp(w, i) ==
    /\ CurrentUser(i)
    /\ ~users[i].totp_enabled
    /\ Stage(w, i, [users[i] EXCEPT !.secret = TRUE, !.backup_codes = GenerateBackupCodes,
                                    !.totp_enabled = FALSE], "enroll")

VerifyEnableTotp(w, i) ==
    /\ CurrentUser(i)
    /\ ~users[i].totp_enabled
    /\ users[i].secret
    /\ Stage(w, i, [users[i] EXCEPT !.totp_enabled = TRUE], "edit")

\* Mutant: the switch is left on when the secret goes.
DisabledRowKept(row) == [row EXCEPT !.secret = FALSE, !.backup_codes = {}]

DisabledRow(row) ==
    [row EXCEPT !.secret = FALSE, !.totp_enabled = FALSE, !.backup_codes = {}]

DisableTotp(w, i) ==
    /\ CurrentUser(i)
    /\ users[i].totp_enabled
    /\ Stage(w, i, DisabledRow(users[i]), "edit")

VerifyBackupCode(row, c) == c \in row.backup_codes
RemoveUsedCode(row, c) == [row EXCEPT !.backup_codes = @ \ {c}]

\* login_with_totp with a backup code; a right TOTP code writes nothing.
LoginBackupCode(w, i, c) ==
    /\ DecodeTotpChallenge(i)
    /\ Get(i)
    /\ users[i].is_active /\ users[i].totp_enabled /\ users[i].secret
    /\ VerifyBackupCode(users[i], c)
    /\ Stage(w, i, RemoveUsedCode(users[i], c), c)

-----------------------------------------------------------------------------
(***************************************************************************)
(* Edits, deletion, restore.                                               *)
(***************************************************************************)
\* update_user; the new e-mail is not looked up.
UpdateUser(w, i, e, b) ==
    /\ Get(i)
    /\ Stage(w, i, [users[i] EXCEPT !.email = e, !.is_active = b], "edit")

\* profile_edit: the user's own row, soft-deleted or not.
ProfileEdit(w, i, e) ==
    /\ CurrentUser(i)
    /\ Stage(w, i, [users[i] EXCEPT !.email = e], "edit")

\* The GraphQL mutation update_user reaches deleted rows.
SetActive(w, i, b) ==
    /\ i \in Rows(users)
    /\ Stage(w, i, [users[i] EXCEPT !.is_active = b], "edit")

\* admin_edit looks a submitted e-mail up before it assigns the form.
AdminEdit(w, i, form) ==
    /\ i \in Rows(users)
    /\ "email" \in DOMAIN form => ByEmail(form.email) = {}
    /\ Stage(w, i, SetFormFields("users", users[i], form), "edit")

DeleteUser(w, i) == Get(i) /\ Stage(w, i, [users[i] EXCEPT !.deleted_at = now], "edit")

\* admin_delete stamps a row that is deleted already once more.
AdminDelete(w, i) ==
    Deletable("users") /\ i \in Rows(users) /\ Stage(w, i, [users[i] EXCEPT !.deleted_at = now], "edit")

\* CRUDBase.restore and admin_restore.
Restore(w, i) ==
    /\ i \in Rows(users)
    /\ users[i].deleted_at # None
    /\ Stage(w, i, [users[i] EXCEPT !.deleted_at = None], "edit")

RestoreUser(w, i) == Restore(w, i)
AdminRestore(w, i) == Restore(w, i)

\* Ticks are days: the cutoff is midnight, RetentionTicks days ago.
Expired(row) == row.deleted_at # None /\ row.deleted_at < now - RetentionTicks

\* purge: one DELETE; api keys, credentials and inbox go by ON DELETE CASCADE.
Purge ==
    LET gone == {i \in Rows(users) : Expired(users[i])} IN
    /\ gone # {}
    /\ users' = [i \in UserIds |-> IF i \in gone THEN NoUser ELSE users[i]]
    /\ credentials' = [i \in UserIds |-> IF i \in gone THEN 0 ELSE credentials[i]]
    /\ hist' = [i \in UserIds |-> IF i \in gone THEN NoHistory ELSE hist[i]]
    /\ UNCHANGED <<nextId, now, sess, signed, pendingReg, pendingAuth, begun, asked, passkeyLogins, served>>

-----------------------------------------------------------------------------
(***************************************************************************)
(* The end of a request.                                                   *)
(***************************************************************************)
Flush(cur, s) ==
    [c \in DOMAIN cur |-> IF s.new[c] # s.snap[c] THEN s.new[c] ELSE cur[c]]

\* The rows of an INSERT take the next ids, in some order.
Inserted(t, S, f) == [i \in UserIds |-> IF i \in DOMAIN f THEN f[i] ELSE t[i]]

Numberings(S) ==
    {f \in [nextId..(nextId + Cardinality(S) - 1) -> S] :
        \A i, j \in DOMAIN f : i # j => f[i] # f[j]}

Updated(s) ==
    IF s.id = None THEN users ELSE [users EXCEPT ![s.id] = Flush(users[s.id], s)]

Recorded(h, s) ==
    LET raced == h.raced \/ users[s.id] # s.snap IN
    CASE s.did = "wrong"  -> [h EXCEPT !.wrong = @ + 1, !.streak = @ + 1, !.raced = raced]
      [] s.did = "right"  -> [h EXCEPT !.streak = 0, !.raced = raced]
      [] s.did = "enroll" -> [h EXCEPT !.spent = {}, !.raced = raced]
      [] s.did \in Codes  -> [h EXCEPT !.spent = @ \cup {s.did}, !.raced = raced]
      [] OTHER            -> [h EXCEPT !.raced = raced]

\* An UPDATE of a purged row finds nothing (StaleDataError).
Lost(s) == s.id # None /\ users[s.id] = NoUser

\* commit(): an INSERT or an UPDATE, if the unique columns allow it.
Commit(w) ==
    LET s == sess[w] IN
    /\ ~IsIdle(w)
    /\ ~Lost(s)
    /\ nextId + Cardinality(s.ins) <= MaxUsers + 1
    /\ \E f \in Numberings(s.ins) :
          /\ Unique(Inserted(Updated(s), s.ins, f))
          /\ users' = Inserted(Updated(s), s.ins, f)
    /\ nextId' = nextId + Cardinality(s.ins)
    /\ hist' = IF s.id = None THEN hist ELSE [hist EXCEPT ![s.id] = Recorded(@, s)]
    /\ signed' = IF s.did = "right" /\ s.new.totp_enabled
                 THEN Handed(CreateTotpChallenge(s.id)) ELSE signed
    /\ sess' = [sess EXCEPT ![w] = Idle]
    /\ UNCHANGED <<now, passkeys, served>>

\* IntegrityError, StaleDataError, timeout or lost connection: rolled back.
Abort(w) ==
    /\ ~IsIdle(w)
    /\ sess' = [sess EXCEPT ![w] = Idle]
    /\ UNCHANGED <<users, nextId, now, signed, passkeys, served, hist>>

-----------------------------------------------------------------------------
(***************************************************************************)
(* WebAuthn.  The challenge is kept in the memory of the process that      *)
(* began the ceremony; another process answers "session not found".        *)
(***************************************************************************)
Ceremony(w) ==
    /\ served < MaxRequests
    /\ served' = served + 1
    /\ UNCHANGED <<users, nextId, now, sess, signed, hist>>

BeginRegistration(w, i) ==
    /\ begun' = [begun EXCEPT ![i] = @ + 1]
    /\ pendingReg' = [pendingReg EXCEPT ![w] = @ \cup {i}]
    /\ UNCHANGED <<pendingAuth, credentials, asked, passkeyLogins>>

\* Mutant: the pending challenge is read and left in place.
PoppedNot(w, i) == pendingReg

Popped(w, i) == [pendingReg EXCEPT ![w] = @ \ {i}]

\* The entry is popped before the browser's answer is verified; an answer to
\* an older challenge (valid = FALSE) uses it up too.
CompleteRegistration(w, i, valid) ==
    /\ i \in pendingReg[w]
    /\ pendingReg' = Popped(w, i)
    /\ credentials' = IF valid THEN [credentials EXCEPT ![i] = @ + 1] ELSE credentials
    /\ UNCHANGED <<pendingAuth, begun, asked, passkeyLogins>>

BeginAuthentication(w, i) ==
    /\ credentials[i] > 0
    /\ asked' = [asked EXCEPT ![i] = @ + 1]
    /\ pendingAuth' = [pendingAuth EXCEPT ![w] = @ \cup {i}]
    /\ UNCHANGED <<pendingReg, credentials, begun, passkeyLogins>>

\* Popped first as well; sign_count is compared and never written.
CompleteAuthentication(w, i, valid) ==
    /\ i \in pendingAuth[w]
    /\ pendingAuth' = [pendingAuth EXCEPT ![w] = @ \ {i}]
    /\ passkeyLogins' = IF valid /\ credentials[i] > 0
                        THEN [passkeyLogins EXCEPT ![i] = @ + 1] ELSE passkeyLogins
    /\ UNCHANGED <<pendingReg, credentials, begun, asked>>

\* The endpoints.  Registration is for the current user; the login finds the
\* user by e-mail, deleted and inactive ones too.
WebAuthnRegisterBegin(w, i) == CurrentUser(i) /\ Ceremony(w) /\ BeginRegistration(w, i)
WebAuthnRegisterComplete(w, i, valid) ==
    CurrentUser(i) /\ Ceremony(w) /\ CompleteRegistration(w, i, valid)
WebAuthnLoginBegin(w, e) ==
    \E i \in ByEmail(e) : Ceremony(w) /\ BeginAuthentication(w, i)
WebAuthnLoginComplete(w, e, valid) ==
    \E i \in ByEmail(e) : Ceremony(w) /\ CompleteAuthentication(w, i, valid)

\* A process restarts: its pending ceremonies and its request are gone.
Restart(w) ==
    /\ sess' = [sess EXCEPT ![w] = Idle]
    /\ pendingReg' = [pendingReg EXCEPT ![w] = {}]
    /\ pendingAuth' = [pendingAuth EXCEPT ![w] = {}]
    /\ UNCHANGED <<users, nextId, now, signed, credentials, begun, asked, passkeyLogins, served, hist>>

Tick ==
    /\ now < MaxTime
    /\ now' = now + 1
    /\ UNCHANGED <<users, nextId, sess, signed, passkeys, served, hist>>

-----------------------------------------------------------------------------
\* What an administrator submits; a counter is no field of the form.
Forms == [email : Emails, is_verified : {"on", "off"}] \cup [is_active : {"on", "off"}, failed : {0}]

Requests(w) ==
    \/ \E e \in Emails :
          \/ \E n \in Usernames : Register(w, e, n) \/ GqlCreateUser(w, e, n)
          \/ RequestMagicLink(w, e) \/ MagicLinkNew(w, e) \/ MagicLinkKnown(w, e)
          \/ \E right \in BOOLEAN : Login(w, e, right)
          \/ WebAuthnLoginBegin(w, e)
          \/ \E valid \in BOOLEAN : WebAuthnLoginComplete(w, e, valid)
    \/ \E S \in SUBSET Emails : \E f \in [S -> Usernames] :
          BulkCreate(w, f) \/ ImportCsv(w, f)
    \/ \E i \in UserIds :
          \/ RequestEmailVerification(w, i) \/ VerifyEmail(w, i)
          \/ EnableTotp(w, i) \/ VerifyEnableTotp(w, i) \/ DisableTotp(w, i)
          \/ \E c \in Codes : LoginBackupCode(w, i, c)
          \/ \E e \in Emails : ProfileEdit(w, i, e)
          \/ \E e \in Emails, b \in BOOLEAN : UpdateUser(w, i, e, b)
          \/ \E form \in Forms : AdminEdit(w, i, form)
          \/ \E b \in BOOLEAN : SetActive(w, i, b)
          \/ DeleteUser(w, i) \/ AdminDelete(w, i)
          \/ RestoreUser(w, i) \/ AdminRestore(w, i)
          \/ WebAuthnRegisterBegin(w, i)
          \/ \E valid \in BOOLEAN : WebAuthnRegisterComplete(w, i, valid)

Next ==
    \/ \E w \in Workers :
          (served < MaxRequests /\ Requests(w)) \/ Commit(w) \/ Abort(w) \/ Restart(w)
    \/ Purge
    \/ Tick

Spec == Init /\ [][Next]_vars

-----------------------------------------------------------------------------
(***************************************************************************)
(* Properties.                                                             *)
(***************************************************************************)
\* The lockout of authenticate_user never strikes early: however logins
\* interleave, an account is locked only after MaxAttempts wrong passwords.
NoEarlyLockout ==
    \A i \in Rows(users) :
        /\ users[i].failed <= hist[i].wrong
        /\ users[i].locked_until # None => hist[i].wrong >= MaxAttempts

\* The counter of an account none of whose commits overlapped another is
\* exact: it is the number of wrong passwords since the last right one, and
\* the account carries a lock exactly when the counter has reached the limit.
LockoutExactUnlessRaced ==
    \A i \in Rows(users) :
        ~hist[i].raced =>
            /\ users[i].failed = hist[i].streak
            /\ (users[i].locked_until # None) <=> (hist[i].streak >= MaxAttempts)

\* Second factor: while no commit overlapped another, 2FA is switched on only
\* with a secret to check against, and no accepted backup code is still valid.
SecondFactorUnlessRaced ==
    \A i \in Rows(users) :
        ~hist[i].raced =>
            /\ users[i].totp_enabled => users[i].secret
            /\ users[i].backup_codes \cap hist[i].spent = {}

\* A passkey ceremony yields at most one credential or one login, whichever
\* process or request answers it (the challenge is popped before it is
\* verified), and nobody logs in by a passkey that was never registered.
OneUsePerCeremony ==
    \A i \in UserIds :
        /\ credentials[i] <= begun[i]
        /\ passkeyLogins[i] <= asked[i]
        /\ asked[i] > 0 => begun[i] > 0

=============================================================================
