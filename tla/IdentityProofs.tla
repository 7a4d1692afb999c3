--------------------------- MODULE IdentityProofs ---------------------------
(***************************************************************************)
(* Theorems about Accounts and TokenRegistry, for any number of users,     *)
(* processes, backup codes, wrong passwords allowed, tokens and requests,  *)
(* and any lifetimes of tokens and keys.  The two specifications share no  *)
(* variable and are reasoned about one after the other.                    *)
(***************************************************************************)
EXTENDS Accounts, TokenRegistry, FiniteSetTheorems, FunctionTheorems, TLAPS

-----------------------------------------------------------------------------
(***************************************************************************)
(* Types of the history and of the requests in flight.                     *)
(***************************************************************************)
History == [wrong : Nat, streak : Nat, spent : SUBSET Codes, raced : BOOLEAN]

Kinds == {"wrong", "right", "enroll", "edit"} \cup Codes

Changing == [id : UserIds, snap : User, new : User, ins : {{}}, did : Kinds]
Adding == [id : {None}, snap : {NoUser}, new : {NoUser}, ins : SUBSET User, did : {"edit"}]

-----------------------------------------------------------------------------
(***************************************************************************)
(* What a handler may have made of the row it loaded.                      *)
(***************************************************************************)

\* The counter and the lock change together, at a login only.
LockoutKept(old, new, did) ==
    /\ did = "wrong" =>
          /\ new.failed = old.failed + 1
          /\ new.locked_until # None <=>
                old.failed + 1 >= MaxAttempts \/ old.locked_until # None
    /\ did = "right" => new.failed = 0 /\ new.locked_until = None
    /\ did \notin {"wrong", "right"} =>
          new.failed = old.failed /\ new.locked_until = old.locked_until

\* Codes come with an enrolment, which leaves the switch off; nothing else
\* adds one, and nothing switches 2FA on without a secret.
FactorKept(old, new, did) ==
    /\ did = "enroll" => ~new.totp_enabled
    /\ did # "enroll" =>
          /\ new.backup_codes \subseteq old.backup_codes
          /\ (old.totp_enabled => old.secret) => (new.totp_enabled => new.secret)
    /\ did \in Codes => did \notin new.backup_codes

\* A row as it is inserted.
Fresh(row) ==
    /\ row.failed = 0 /\ row.locked_until = None
    /\ ~row.totp_enabled /\ row.backup_codes = {}

\* The wrong passwords account for the counter and for the lock.
Earned(row, h) ==
    /\ row.failed <= h.wrong
    /\ row.locked_until # None => h.wrong >= MaxAttempts

-----------------------------------------------------------------------------
(***************************************************************************)
(* The inductive invariants.                                               *)
(***************************************************************************)

\* The table holds rows, the sequence is ahead of every id in use, and an
\* unused id has no history.
TableInv ==
    /\ users \in [UserIds -> User \cup {NoUser}]
    /\ nextId \in 1..(MaxUsers + 1)
    /\ now \in Nat
    /\ hist \in [UserIds -> History]
    /\ \A i \in UserIds : i >= nextId => users[i] = NoUser /\ hist[i] = NoHistory

\* A worker updates a row that was there once, or inserts fresh rows (with
\* the table u, the sequence at n and the histories h).
Sound(s, u, n, h) ==
    \/ /\ s \in Changing
       /\ s.id < n
       /\ LockoutKept(s.snap, s.new, s.did)
       /\ FactorKept(s.snap, s.new, s.did)
       /\ u[s.id] # NoUser => Earned(s.snap, h[s.id])
    \/ /\ s \in Adding
       /\ IsFiniteSet(s.ins)
       /\ \A row \in s.ins : Fresh(row)

SessionInv ==
    /\ sess \in [Workers -> Changing \cup Adding]
    /\ \A w \in Workers : Sound(sess[w], users, nextId, hist)

EarnedInv == \A i \in UserIds : users[i] # NoUser => Earned(users[i], hist[i])

AccountsInv == TableInv /\ SessionInv /\ EarnedInv

-----------------------------------------------------------------------------
(***************************************************************************)
(* Rows.                                                                   *)
(***************************************************************************)
LEMMA NoUserIsNoRow == NoUser \notin User
BY DEF NoUser, User

\* A new row is a fresh one.
LEMMA NewUserFresh ==
    ASSUME NEW e \in Emails, NEW n \in Usernames \cup {None}
    PROVE  NewUser(e, n) \in User /\ Fresh(NewUser(e, n))
BY DEF NewUser, User, Fresh

\* The columns of a row.
Columns == {"email", "username", "is_active", "is_verified", "failed", "locked_until",
            "secret", "totp_enabled", "backup_codes", "deleted_at"}

LEMMA RowColumns ==
    \A row \in User : DOMAIN row = Columns /\ row = [c \in Columns |-> row[c]]
BY DEF User, Columns

\* A row, column by column.
LEMMA RowByColumn ==
    ASSUME NEW f, f = [c \in Columns |-> f[c]],
           f["email"] \in Emails, f["username"] \in Usernames \cup {None},
           f["is_active"] \in BOOLEAN, f["is_verified"] \in BOOLEAN,
           f["failed"] \in Nat, f["locked_until"] \in Nat \cup {None},
           f["secret"] \in BOOLEAN, f["totp_enabled"] \in BOOLEAN,
           f["backup_codes"] \in SUBSET Codes, f["deleted_at"] \in Nat \cup {None}
    PROVE  f \in User
<1>1. f = [email |-> f["email"], username |-> f["username"],
           is_active |-> f["is_active"], is_verified |-> f["is_verified"],
           failed |-> f["failed"], locked_until |-> f["locked_until"],
           secret |-> f["secret"], totp_enabled |-> f["totp_enabled"],
           backup_codes |-> f["backup_codes"], deleted_at |-> f["deleted_at"]]
  BY DEF Columns
<1>. QED
  BY <1>1 DEF User

\* A flush writes a column from the handler's row or leaves it.
LEMMA FlushedColumns ==
    ASSUME NEW cur \in User, NEW s \in Changing
    PROVE  /\ Flush(cur, s) = [c \in Columns |-> Flush(cur, s)[c]]
           /\ \A c \in Columns : Flush(cur, s)[c] \in {cur[c], s.new[c]}
BY RowColumns DEF Flush, Changing

LEMMA FlushedRow ==
    ASSUME NEW cur \in User, NEW s \in Changing
    PROVE  Flush(cur, s) \in User
<1>. DEFINE f == Flush(cur, s)
<1>1. f = [c \in Columns |-> f[c]] /\ \A c \in Columns : f[c] \in {cur[c], s.new[c]}
  BY FlushedColumns
<1>2. s.new \in User
  BY DEF Changing
<1>. HIDE DEF f
<1>3. /\ f["email"] \in Emails /\ f["username"] \in Usernames \cup {None}
      /\ f["is_active"] \in BOOLEAN /\ f["is_verified"] \in BOOLEAN
      /\ f["failed"] \in Nat /\ f["locked_until"] \in Nat \cup {None}
  BY <1>1, <1>2 DEF User, Columns
<1>4. /\ f["secret"] \in BOOLEAN /\ f["totp_enabled"] \in BOOLEAN
      /\ f["backup_codes"] \in SUBSET Codes /\ f["deleted_at"] \in Nat \cup {None}
  BY <1>1, <1>2 DEF User, Columns
<1>5. f \in User
  BY <1>1, <1>3, <1>4, RowByColumn
<1>. QED
  BY <1>5 DEF f

\* Onto the row it loaded, a flush writes the row the handler made.
LEMMA FlushUnraced ==
    ASSUME NEW s \in Changing
    PROVE  Flush(s.snap, s) = s.new
<1>1. s.snap \in User /\ s.new \in User
  BY DEF Changing
<1>2. Flush(s.snap, s) = [c \in Columns |-> s.new[c]]
  BY <1>1, RowColumns DEF Flush
<1>. QED
  BY <1>1, <1>2, RowColumns

\* What the history becomes at a commit.
LEMMA RecordedHistory ==
    ASSUME NEW h \in History, NEW s \in Changing
    PROVE  /\ Recorded(h, s) \in History
           /\ Recorded(h, s).raced = (h.raced \/ users[s.id] # s.snap)
           /\ Recorded(h, s).wrong = IF s.did = "wrong" THEN h.wrong + 1 ELSE h.wrong
           /\ Recorded(h, s).streak = IF s.did = "wrong" THEN h.streak + 1
                                      ELSE IF s.did = "right" THEN 0 ELSE h.streak
           /\ Recorded(h, s).spent = IF s.did = "enroll" THEN {}
                                     ELSE IF s.did \in Codes THEN h.spent \cup {s.did}
                                     ELSE h.spent
<1>. DEFINE raced == h.raced \/ users[s.id] # s.snap
            wrong == IF s.did = "wrong" THEN h.wrong + 1 ELSE h.wrong
            streak == IF s.did = "wrong" THEN h.streak + 1
                      ELSE IF s.did = "right" THEN 0 ELSE h.streak
            spent == IF s.did = "enroll" THEN {}
                     ELSE IF s.did \in Codes THEN h.spent \cup {s.did} ELSE h.spent
            next == [wrong |-> wrong, streak |-> streak, spent |-> spent, raced |-> raced]
<1>1. /\ s.did \in Kinds /\ raced \in BOOLEAN
      /\ h.wrong \in Nat /\ h.streak \in Nat /\ h.spent \subseteq Codes
      /\ h = [wrong |-> h.wrong, streak |-> h.streak, spent |-> h.spent, raced |-> h.raced]
  BY DEF Changing, History
<1>. HIDE DEF raced
<1>2. ASSUME s.did = "wrong" PROVE Recorded(h, s) = next
  <2>1. Recorded(h, s) = [h EXCEPT !.wrong = @ + 1, !.streak = @ + 1, !.raced = raced]
    BY <1>2, AccountsAssumption DEF Recorded, raced
  <2>2. s.did \notin Codes
    BY <1>2, AccountsAssumption
  <2>. QED
    BY <1>1, <1>2, <2>1, <2>2
<1>3. ASSUME s.did = "right" PROVE Recorded(h, s) = next
  <2>1. Recorded(h, s) = [h EXCEPT !.streak = 0, !.raced = raced]
    BY <1>3, AccountsAssumption DEF Recorded, raced
  <2>2. s.did \notin Codes
    BY <1>3, AccountsAssumption
  <2>. QED
    BY <1>1, <1>3, <2>1, <2>2
<1>4. ASSUME s.did = "enroll" PROVE Recorded(h, s) = next
  <2>1. Recorded(h, s) = [h EXCEPT !.spent = {}, !.raced = raced]
    BY <1>4, AccountsAssumption DEF Recorded, raced
  <2>. QED
    BY <1>1, <1>4, <2>1
<1>5. ASSUME s.did \in Codes PROVE Recorded(h, s) = next
  <2>1. s.did \notin {"wrong", "right", "enroll", "edit"}
    BY <1>5, AccountsAssumption
  <2>2. Recorded(h, s) = [h EXCEPT !.spent = @ \cup {s.did}, !.raced = raced]
    BY <1>5, <2>1 DEF Recorded, raced
  <2>. QED
    BY <1>1, <1>5, <2>1, <2>2
<1>6. ASSUME s.did = "edit" PROVE Recorded(h, s) = next
  <2>1. s.did \notin Codes
    BY <1>6, AccountsAssumption
  <2>2. Recorded(h, s) = [h EXCEPT !.raced = raced]
    BY <1>6, <2>1 DEF Recorded, raced
  <2>. QED
    BY <1>1, <1>6, <2>1, <2>2
<1>7. wrong \in Nat /\ streak \in Nat /\ spent \in SUBSET Codes
  BY <1>1
<1>8. next.raced = (h.raced \/ users[s.id] # s.snap)
  BY DEF raced
<1>9. next \in History
  BY <1>1, <1>7 DEF History
<1>10. Recorded(h, s) = next
  BY <1>1, <1>2, <1>3, <1>4, <1>5, <1>6 DEF Kinds
<1>. QED
  BY <1>8, <1>9, <1>10

-----------------------------------------------------------------------------
(***************************************************************************)
(* What a request may stage.                                               *)
(***************************************************************************)
KeptBy(old, new, did) ==
    new \in User /\ did \in Kinds /\ LockoutKept(old, new, did) /\ FactorKept(old, new, did)

UpdateStep(w) ==
    \E i \in UserIds, row \in User, did \in Kinds :
        users[i] \in User /\ KeptBy(users[i], row, did) /\ Stage(w, i, row, did)

InsertStep(w) ==
    \E S \in SUBSET User :
        IsFiniteSet(S) /\ (\A row \in S : Fresh(row)) /\ StageInsert(w, S)

QuietStep == UNCHANGED <<users, nextId, now, sess, hist>>

\* An edit that leaves the security columns alone.
LEMMA PlainEdit ==
    ASSUME NEW old \in User, NEW new \in User,
           new.failed = old.failed, new.locked_until = old.locked_until,
           new.secret = old.secret, new.totp_enabled = old.totp_enabled,
           new.backup_codes = old.backup_codes
    PROVE  KeptBy(old, new, "edit")
BY AccountsAssumption DEF KeptBy, LockoutKept, FactorKept, Kinds

\* The two columns a login writes.
LEMMA LoginKept ==
    ASSUME NEW old \in User, now \in Nat
    PROVE  KeptBy(old, RightPassword(old), "right") /\ KeptBy(old, WrongPassword(old), "wrong")
<1>1. now + LockTicks \in Nat /\ now + LockTicks # None
  BY AccountsAssumption
<1>2. {"right", "wrong"} \cap Codes = {} /\ {"right", "wrong"} \subseteq Kinds
  BY AccountsAssumption DEF Kinds
<1>3. RightPassword(old) \in User /\ WrongPassword(old) \in User
  <2>1. old.failed + 1 \in Nat
    BY DEF User
  <2>2. RightPassword(old) \in User
    BY DEF RightPassword, User
  <2>. DEFINE until == IF old.failed + 1 >= MaxAttempts THEN now + LockTicks ELSE old.locked_until
  <2>3. until \in Nat \cup {None}
    BY <1>1 DEF User
  <2>4. WrongPassword(old) = [old EXCEPT !.failed = old.failed + 1, !.locked_until = until]
    BY DEF WrongPassword, User
  <2>. HIDE DEF until
  <2>5. WrongPassword(old) \in User
    BY <2>1, <2>3, <2>4 DEF User
  <2>. QED
    BY <2>2, <2>5
<1>4. LockoutKept(old, RightPassword(old), "right") /\ FactorKept(old, RightPassword(old), "right")
  BY <1>2 DEF LockoutKept, FactorKept, RightPassword, User
<1>5. /\ WrongPassword(old).failed = old.failed + 1
      /\ WrongPassword(old).locked_until =
            IF old.failed + 1 >= MaxAttempts THEN now + LockTicks ELSE old.locked_until
      /\ WrongPassword(old).secret = old.secret
      /\ WrongPassword(old).totp_enabled = old.totp_enabled
      /\ WrongPassword(old).backup_codes = old.backup_codes
  BY DEF WrongPassword, User
<1>6. LockoutKept(old, WrongPassword(old), "wrong") /\ FactorKept(old, WrongPassword(old), "wrong")
  BY <1>1, <1>2, <1>5 DEF LockoutKept, FactorKept
<1>. QED
  BY <1>2, <1>3, <1>4, <1>6 DEF KeptBy

\* What the second factor's endpoints write.
LEMMA FactorEdits ==
    ASSUME NEW old \in User
    PROVE  /\ KeptBy(old, [old EXCEPT !.secret = TRUE, !.backup_codes = GenerateBackupCodes,
                                      !.totp_enabled = FALSE], "enroll")
           /\ old.secret => KeptBy(old, [old EXCEPT !.totp_enabled = TRUE], "edit")
           /\ KeptBy(old, DisabledRow(old), "edit")
           /\ \A c \in Codes : KeptBy(old, RemoveUsedCode(old, c), c)
<1>1. /\ {"enroll", "edit"} \cap Codes = {} /\ {"enroll", "edit"} \subseteq Kinds
      /\ Codes \cap {"wrong", "right", "enroll"} = {} /\ Codes \subseteq Kinds
  BY AccountsAssumption DEF Kinds
<1>2. KeptBy(old, [old EXCEPT !.secret = TRUE, !.backup_codes = GenerateBackupCodes,
                              !.totp_enabled = FALSE], "enroll")
  BY <1>1 DEF KeptBy, LockoutKept, FactorKept, GenerateBackupCodes, User
<1>3. ASSUME old.secret
      PROVE  KeptBy(old, [old EXCEPT !.totp_enabled = TRUE], "edit")
  BY <1>1, <1>3 DEF KeptBy, LockoutKept, FactorKept, User
<1>4. KeptBy(old, DisabledRow(old), "edit")
  BY <1>1 DEF KeptBy, LockoutKept, FactorKept, DisabledRow, User
<1>5. ASSUME NEW c \in Codes
      PROVE  KeptBy(old, RemoveUsedCode(old, c), c)
  BY <1>1 DEF KeptBy, LockoutKept, FactorKept, RemoveUsedCode, User
<1>. QED
  BY <1>2, <1>3, <1>4, <1>5

\* The administrator's form reaches none of the security columns.
LEMMA FormEdit ==
    ASSUME NEW old \in User, NEW form \in Forms
    PROVE  KeptBy(old, SetFormFields("users", old, form), "edit")
<1>. DEFINE f == SetFormFields("users", old, form)
            fields == {"email", "username", "password", "full_name", "is_active", "is_verified"}
<1>1. Registry["users"].form_fields = fields
  BY DEF Registry, RegisterAdmin
<1>2. f = [c \in Columns |-> IF c \in DOMAIN form /\ c \in fields
                             THEN CoerceValue(c, form[c]) ELSE old[c]]
  BY <1>1, RowColumns DEF SetFormFields
<1>3. f = [c \in Columns |-> f[c]]
  BY <1>2
<1>4. /\ DOMAIN form \subseteq {"email", "is_verified", "is_active", "failed"}
      /\ "email" \in DOMAIN form => form["email"] \in Emails
  BY DEF Forms
<1>5. /\ CoerceValue("email", form["email"]) = form["email"]
      /\ CoerceValue("is_active", form["is_active"]) \in BOOLEAN
      /\ CoerceValue("is_verified", form["is_verified"]) \in BOOLEAN
  BY DEF CoerceValue, BooleanColumns
<1>. HIDE DEF f
<1>6. /\ f["username"] = old["username"] /\ f["failed"] = old["failed"]
      /\ f["locked_until"] = old["locked_until"] /\ f["secret"] = old["secret"]
      /\ f["totp_enabled"] = old["totp_enabled"]
      /\ f["backup_codes"] = old["backup_codes"] /\ f["deleted_at"] = old["deleted_at"]
  BY <1>2, <1>4 DEF Columns
<1>7. f["email"] \in Emails /\ f["is_active"] \in BOOLEAN /\ f["is_verified"] \in BOOLEAN
  BY <1>2, <1>4, <1>5 DEF Columns, User
<1>8. f \in User
  BY <1>3, <1>6, <1>7, RowByColumn DEF User
<1>9. KeptBy(old, f, "edit")
  BY <1>6, <1>8, PlainEdit
<1>. QED
  BY <1>9 DEF f

\* A row that a query found is a row.
LEMMA FoundRow ==
    ASSUME TableInv
    PROVE  /\ \A i \in Rows(users) : i \in UserIds /\ users[i] \in User
           /\ \A e \in Emails : ByEmail(e) \subseteq Rows(users)
BY DEF TableInv, Rows, ByEmail

\* Every request stages an update, stages an insert, or leaves table and
\* sessions alone.
LEMMA RequestShape ==
    ASSUME TableInv, NEW w \in Workers, Requests(w)
    PROVE  UpdateStep(w) \/ InsertStep(w) \/ QuietStep
<1>0. ASSUME NEW i \in UserIds, users[i] \in User, NEW row, NEW did,
             KeptBy(users[i], row, did), Stage(w, i, row, did)
      PROVE  UpdateStep(w)
  BY <1>0 DEF UpdateStep, KeptBy
<1>1. ASSUME NEW e \in Emails, NEW n \in Usernames, Register(w, e, n) \/ GqlCreateUser(w, e, n)
      PROVE  InsertStep(w)
  <2>1. StageInsert(w, {NewUser(e, n)}) /\ NewUser(e, n) \in User /\ Fresh(NewUser(e, n))
    BY <1>1, NewUserFresh DEF Register, GqlCreateUser
  <2>2. IsFiniteSet({NewUser(e, n)})
    BY FS_Singleton
  <2>. QED
    BY <2>1, <2>2 DEF InsertStep
<1>2. ASSUME NEW S \in SUBSET Emails, NEW f \in [S -> Usernames],
             BulkCreate(w, f) \/ ImportCsv(w, f)
      PROVE  InsertStep(w)
  <2>1. PICK T \in SUBSET Emails :
            T \subseteq S /\ StageInsert(w, {NewUser(e, f[e]) : e \in T})
    BY <1>2 DEF BulkCreate, ImportCsv
  <2>2. \A e \in T : f[e] \in Usernames
    BY <2>1
  <2>3. \A row \in {NewUser(e, f[e]) : e \in T} : row \in User /\ Fresh(row)
    BY <2>2, NewUserFresh
  <2>4. IsFiniteSet(T)
    BY AccountsAssumption, FS_Subset
  <2>5. IsFiniteSet({NewUser(e, f[e]) : e \in T})
    <3>. DEFINE g == [e \in T |-> NewUser(e, f[e])]
    <3>1. g \in Surjection(T, {NewUser(e, f[e]) : e \in T})
      BY Fun_IsSurj
    <3>. QED
      BY <2>4, <3>1, FS_Surjection
  <2>. QED
    BY <2>1, <2>3, <2>5 DEF InsertStep
<1>3. ASSUME NEW e \in Emails, MagicLinkNew(w, e)
      PROVE  InsertStep(w)
  <2>. DEFINE row == [NewUser(e, None) EXCEPT !.is_verified = TRUE]
  <2>1. StageInsert(w, {row})
    BY <1>3 DEF MagicLinkNew
  <2>2. row \in User /\ Fresh(row)
    BY DEF NewUser, User, Fresh
  <2>3. IsFiniteSet({row})
    BY FS_Singleton
  <2>. QED
    BY <2>1, <2>2, <2>3 DEF InsertStep
<1>4. ASSUME NEW e \in Emails, MagicLinkKnown(w, e)
      PROVE  UpdateStep(w)
  <2>1. PICK i \in ByEmail(e) : Stage(w, i, [users[i] EXCEPT !.is_verified = TRUE], "edit")
    BY <1>4 DEF MagicLinkKnown
  <2>2. i \in UserIds /\ users[i] \in User
    BY <2>1, FoundRow
  <2>3. KeptBy(users[i], [users[i] EXCEPT !.is_verified = TRUE], "edit")
    BY <2>2, PlainEdit DEF User
  <2>. QED
    BY <1>0, <2>1, <2>2, <2>3
<1>5. ASSUME NEW e \in Emails, NEW right \in BOOLEAN, Login(w, e, right)
      PROVE  UpdateStep(w)
  <2>1. PICK i \in ByEmail(e) :
            \/ Stage(w, i, RightPassword(users[i]), "right")
            \/ Stage(w, i, WrongPassword(users[i]), "wrong")
    BY <1>5 DEF Login, Authenticate
  <2>2. i \in UserIds /\ users[i] \in User
    BY <2>1, FoundRow
  <2>3. /\ KeptBy(users[i], RightPassword(users[i]), "right")
        /\ KeptBy(users[i], WrongPassword(users[i]), "wrong")
    BY <2>2, LoginKept DEF TableInv
  <2>. QED
    BY <1>0, <2>1, <2>2, <2>3
<1>6. ASSUME NEW e \in Emails,
             \/ RequestMagicLink(w, e)
             \/ WebAuthnLoginBegin(w, e)
             \/ \E valid \in BOOLEAN : WebAuthnLoginComplete(w, e, valid)
      PROVE  QuietStep
  BY <1>6 DEF RequestMagicLink, Mail, WebAuthnLoginBegin, WebAuthnLoginComplete, Ceremony, QuietStep
<1>7. ASSUME NEW i \in UserIds,
             \/ RequestEmailVerification(w, i)
             \/ WebAuthnRegisterBegin(w, i)
             \/ \E valid \in BOOLEAN : WebAuthnRegisterComplete(w, i, valid)
      PROVE  QuietStep
  BY <1>7 DEF RequestEmailVerification, Mail, WebAuthnRegisterBegin, WebAuthnRegisterComplete,
              Ceremony, QuietStep
<1>8. ASSUME NEW i \in UserIds,
             EnableTotp(w, i) \/ VerifyEnableTotp(w, i) \/ DisableTotp(w, i)
               \/ \E c \in Codes : LoginBackupCode(w, i, c)
      PROVE  UpdateStep(w)
  <2>1. users[i] \in User
    BY <1>8, FoundRow DEF EnableTotp, VerifyEnableTotp, DisableTotp, LoginBackupCode, CurrentUser, Get
  <2>2. CASE EnableTotp(w, i)
    BY <1>0, <2>1, <2>2, FactorEdits DEF EnableTotp
  <2>3. CASE VerifyEnableTotp(w, i)
    BY <1>0, <2>1, <2>3, FactorEdits DEF VerifyEnableTotp
  <2>4. CASE DisableTotp(w, i)
    BY <1>0, <2>1, <2>4, FactorEdits DEF DisableTotp
  <2>5. ASSUME NEW c \in Codes, LoginBackupCode(w, i, c)
        PROVE  UpdateStep(w)
    BY <1>0, <2>1, <2>5, FactorEdits DEF LoginBackupCode
  <2>. QED
    BY <1>8, <2>2, <2>3, <2>4, <2>5
<1>9. ASSUME NEW i \in UserIds, NEW form \in Forms, AdminEdit(w, i, form)
      PROVE  UpdateStep(w)
  BY <1>0, <1>9, FoundRow, FormEdit DEF AdminEdit
<1>10. ASSUME NEW i \in UserIds, users[i] \in User,
              NEW e \in Emails, NEW b \in BOOLEAN, NEW d \in Nat \cup {None}
       PROVE  /\ KeptBy(users[i], [users[i] EXCEPT !.email = e], "edit")
              /\ KeptBy(users[i], [users[i] EXCEPT !.email = e, !.is_active = b], "edit")
  BY <1>10, PlainEdit DEF User
<1>11. ASSUME NEW i \in UserIds, users[i] \in User,
              NEW b \in BOOLEAN, NEW d \in Nat \cup {None}
       PROVE  /\ KeptBy(users[i], [users[i] EXCEPT !.is_active = b], "edit")
              /\ KeptBy(users[i], [users[i] EXCEPT !.is_verified = b], "edit")
              /\ KeptBy(users[i], [users[i] EXCEPT !.deleted_at = d], "edit")
  BY <1>11, PlainEdit DEF User
<1>12. ASSUME NEW i \in UserIds, NEW e \in Emails,
              ProfileEdit(w, i, e) \/ \E b \in BOOLEAN : UpdateUser(w, i, e, b)
       PROVE  UpdateStep(w)
  BY <1>0, <1>10, <1>12, FoundRow DEF ProfileEdit, UpdateUser, CurrentUser, Get
<1>13. ASSUME NEW i \in UserIds,
              VerifyEmail(w, i) \/ \E b \in BOOLEAN : SetActive(w, i, b)
       PROVE  UpdateStep(w)
  BY <1>0, <1>11, <1>13, FoundRow DEF VerifyEmail, SetActive, Get
<1>14. ASSUME NEW i \in UserIds,
              DeleteUser(w, i) \/ AdminDelete(w, i) \/ RestoreUser(w, i) \/ AdminRestore(w, i)
       PROVE  UpdateStep(w)
  <2>1. now \in Nat \cup {None} /\ None \in Nat \cup {None}
    BY DEF TableInv
  <2>. QED
    BY <1>0, <1>11, <1>14, <2>1, FoundRow
    DEF DeleteUser, AdminDelete, RestoreUser, AdminRestore, Restore, Get
<1>. QED
  BY <1>1, <1>2, <1>3, <1>4, <1>5, <1>6, <1>7, <1>8, <1>9, <1>12, <1>13, <1>14 DEF Requests

-----------------------------------------------------------------------------
(***************************************************************************)
(* What a commit does.                                                     *)
(***************************************************************************)
LEMMA CommitUpdate ==
    ASSUME TableInv, NEW w \in Workers, Commit(w), sess[w] \in Changing
    PROVE  LET s == sess[w] IN
           /\ users[s.id] \in User
           /\ users' = [users EXCEPT ![s.id] = Flush(users[s.id], s)]
           /\ hist' = [hist EXCEPT ![s.id] = Recorded(hist[s.id], s)]
           /\ nextId' = nextId
<1>. DEFINE s == sess[w]
<1>1. s.id \in UserIds /\ s.id # None /\ s.ins = {}
  BY AccountsAssumption DEF Changing, UserIds
<1>2. users[s.id] \in User
  BY <1>1 DEF Commit, Lost, TableInv
<1>3. Cardinality(s.ins) = 0 /\ nextId \in Int
  BY <1>1, FS_EmptySet DEF TableInv
<1>4. nextId' = nextId
  BY <1>3 DEF Commit
<1>5. PICK f \in Numberings(s.ins) : users' = Inserted(Updated(s), s.ins, f)
  BY DEF Commit
<1>6. DOMAIN f = {}
  BY <1>3, <1>5 DEF Numberings
<1>7. users' = [i \in UserIds |-> Updated(s)[i]]
  BY <1>5, <1>6 DEF Inserted
<1>8. Updated(s) = [users EXCEPT ![s.id] = Flush(users[s.id], s)]
  BY <1>1 DEF Updated
<1>9. users' = [users EXCEPT ![s.id] = Flush(users[s.id], s)]
  BY <1>7, <1>8 DEF TableInv
<1>10. hist' = [hist EXCEPT ![s.id] = Recorded(hist[s.id], s)]
  BY <1>1 DEF Commit
<1>. QED
  BY <1>2, <1>4, <1>9, <1>10

LEMMA CommitInsert ==
    ASSUME TableInv, NEW w \in Workers, Commit(w), sess[w] \in Adding, IsFiniteSet(sess[w].ins)
    PROVE  /\ nextId' \in nextId..(MaxUsers + 1)
           /\ hist' = hist
           /\ DOMAIN users' = UserIds
           /\ \A i \in UserIds :
                 \/ users'[i] = users[i]
                 \/ i >= nextId /\ i < nextId' /\ users'[i] \in sess[w].ins
<1>. DEFINE s == sess[w]
            n == Cardinality(s.ins)
<1>1. s.id = None
  BY DEF Adding
<1>2. n \in Nat
  BY FS_CardinalityType
<1>3. nextId \in 1..(MaxUsers + 1) /\ MaxUsers \in Nat
  BY AccountsAssumption DEF TableInv
<1>4. nextId' = nextId + n /\ nextId + n <= MaxUsers + 1 /\ hist' = hist
  BY <1>1 DEF Commit
<1>. HIDE DEF n
<1>5. nextId' \in nextId..(MaxUsers + 1)
  BY <1>2, <1>3, <1>4
<1>6. PICK f \in [nextId..(nextId + n - 1) -> s.ins] : users' = Inserted(Updated(s), s.ins, f)
  BY DEF Commit, Numberings, n
<1>7. users' = [i \in UserIds |-> IF i \in nextId..(nextId + n - 1) THEN f[i] ELSE users[i]]
  BY <1>1, <1>6 DEF Inserted, Updated
<1>8. ASSUME NEW i \in UserIds
      PROVE  \/ users'[i] = users[i]
             \/ i >= nextId /\ i < nextId' /\ users'[i] \in s.ins
  <2>1. CASE i \in nextId..(nextId + n - 1)
    <3>1. users'[i] = f[i] /\ f[i] \in s.ins
      BY <1>6, <1>7, <2>1
    <3>2. i \in Int /\ i >= nextId /\ i < nextId + n
      BY <1>2, <1>3, <2>1
    <3>. QED
      BY <1>4, <3>1, <3>2
  <2>2. CASE i \notin nextId..(nextId + n - 1)
    BY <1>7, <2>2
  <2>. QED
    BY <2>1, <2>2
<1>. QED
  BY <1>4, <1>5, <1>7, <1>8

-----------------------------------------------------------------------------
(***************************************************************************)
(* The invariant is kept.                                                  *)
(***************************************************************************)

\* A request in flight stays sound while rows come, go and grow a history.
LEMMA SoundKept ==
    ASSUME TableInv, TableInv', nextId' >= nextId,
           \A i \in UserIds : i < nextId /\ users'[i] # NoUser =>
               users[i] # NoUser /\ hist'[i].wrong >= hist[i].wrong,
           NEW s, Sound(s, users, nextId, hist)
    PROVE  Sound(s, users', nextId', hist')
<1>1. CASE s \in Adding /\ IsFiniteSet(s.ins) /\ \A row \in s.ins : Fresh(row)
  BY <1>1 DEF Sound
<1>2. CASE /\ s \in Changing
           /\ s.id < nextId
           /\ LockoutKept(s.snap, s.new, s.did)
           /\ FactorKept(s.snap, s.new, s.did)
           /\ users[s.id] # NoUser => Earned(s.snap, hist[s.id])
  <2>1. s.id \in UserIds /\ s.snap.failed \in Nat /\ s.id \in Int
    BY <1>2 DEF Changing, User, UserIds
  <2>2. /\ nextId \in Int /\ nextId' \in Int /\ MaxAttempts \in Nat
        /\ hist[s.id].wrong \in Nat /\ hist'[s.id].wrong \in Nat
    BY <2>1, AccountsAssumption DEF TableInv, History
  <2>3. ASSUME users'[s.id] # NoUser
        PROVE  Earned(s.snap, hist'[s.id])
    <3>1. Earned(s.snap, hist[s.id]) /\ hist'[s.id].wrong >= hist[s.id].wrong
      BY <1>2, <2>1, <2>3
    <3>. QED
      BY <2>1, <2>2, <3>1 DEF Earned
  <2>4. s.id < nextId'
    BY <1>2, <2>1, <2>2
  <2>. QED
    BY <1>2, <2>3, <2>4 DEF Sound
<1>. QED
  BY <1>1, <1>2 DEF Sound

LEMMA IdleSound == Idle \in Adding /\ Sound(Idle, users, nextId, hist)
<1>1. Idle \in Adding /\ Idle.ins = {}
  BY DEF Idle, Adding
<1>. QED
  BY <1>1, FS_EmptySet DEF Sound

\* One worker moves to a sound request and the table is untouched.
LEMMA SessionStep ==
    ASSUME AccountsInv, UNCHANGED <<users, nextId, hist>>, now' \in Nat,
           NEW w \in Workers, NEW t, t \in Changing \cup Adding, Sound(t, users, nextId, hist),
           sess' = [sess EXCEPT ![w] = t]
    PROVE  AccountsInv'
<1>1. TableInv' /\ EarnedInv'
  BY DEF AccountsInv, TableInv, EarnedInv, Earned
<1>2. sess' \in [Workers -> Changing \cup Adding]
  BY DEF AccountsInv, SessionInv
<1>3. ASSUME NEW v \in Workers
      PROVE  Sound(sess'[v], users', nextId', hist')
  BY DEF AccountsInv, SessionInv
<1>4. SessionInv'
  BY <1>2, <1>3 DEF SessionInv
<1>. QED
  BY <1>1, <1>4 DEF AccountsInv

\* One worker ends its request and the table changes.
LEMMA TableStep ==
    ASSUME AccountsInv, TableInv', EarnedInv', nextId' >= nextId,
           \A i \in UserIds : i < nextId /\ users'[i] # NoUser =>
               users[i] # NoUser /\ hist'[i].wrong >= hist[i].wrong,
           \/ UNCHANGED sess
           \/ \E w \in Workers : sess' = [sess EXCEPT ![w] = Idle]
    PROVE  AccountsInv'
<1>1. TableInv /\ SessionInv
  BY DEF AccountsInv
<1>2. sess' \in [Workers -> Changing \cup Adding]
  BY <1>1, IdleSound DEF SessionInv
<1>3. ASSUME NEW v \in Workers
      PROVE  Sound(sess'[v], users', nextId', hist')
  <2>1. Sound(sess'[v], users, nextId, hist)
    BY <1>1, IdleSound DEF SessionInv
  <2>. QED
    BY <1>1, <2>1, SoundKept
<1>4. SessionInv'
  BY <1>2, <1>3 DEF SessionInv
<1>. QED
  BY <1>4 DEF AccountsInv

LEMMA CommitKeeps ==
    ASSUME AccountsInv, NEW w \in Workers, Commit(w)
    PROVE  AccountsInv'
<1>. DEFINE s == sess[w]
<1>1. TableInv /\ SessionInv /\ EarnedInv /\ Sound(s, users, nextId, hist)
  BY DEF AccountsInv, SessionInv
<1>2. sess' = [sess EXCEPT ![w] = Idle] /\ now' = now
  BY DEF Commit
<1>3. CASE s \in Changing
  <2>1. /\ s.id < nextId
        /\ LockoutKept(s.snap, s.new, s.did)
        /\ users[s.id] # NoUser => Earned(s.snap, hist[s.id])
    BY <1>1, <1>3, AccountsAssumption DEF Sound, Changing, Adding, UserIds
  <2>2. /\ users[s.id] \in User
        /\ users' = [users EXCEPT ![s.id] = Flush(users[s.id], s)]
        /\ hist' = [hist EXCEPT ![s.id] = Recorded(hist[s.id], s)]
        /\ nextId' = nextId
    BY <1>1, <1>3, CommitUpdate
  <2>3. /\ s.id \in UserIds /\ s.snap \in User /\ s.new \in User /\ s.did \in Kinds
        /\ hist[s.id] \in History
    BY <1>1, <1>3 DEF Changing, TableInv
  <2>. DEFINE cur == users[s.id]
              row == Flush(cur, s)
              old == hist[s.id]
              new == Recorded(old, s)
  <2>4. row \in User
    BY <1>3, <2>2, FlushedRow
  <2>5. /\ new \in History
        /\ new.wrong = IF s.did = "wrong" THEN old.wrong + 1 ELSE old.wrong
    BY <1>3, <2>3, RecordedHistory
  <2>6. /\ row.failed \in {cur.failed, s.new.failed}
        /\ row.locked_until \in {cur.locked_until, s.new.locked_until}
    BY <1>3, <2>2, FlushedColumns DEF Columns
  <2>7. Earned(cur, old) /\ Earned(s.snap, old)
    BY <1>1, <2>1, <2>2, <2>3, NoUserIsNoRow DEF EarnedInv
  <2>8. /\ cur.failed \in Nat /\ s.snap.failed \in Nat /\ s.new.failed \in Nat
        /\ old.wrong \in Nat /\ new.wrong \in Nat /\ MaxAttempts \in Nat
    BY <2>2, <2>3, <2>5, AccountsAssumption DEF User, History
  <2>9. users'[s.id] = row /\ hist'[s.id] = new
    BY <1>1, <2>2, <2>3 DEF TableInv
  <2>10. \A i \in UserIds : i # s.id => users'[i] = users[i] /\ hist'[i] = hist[i]
    BY <1>1, <2>2 DEF TableInv
  <2>11. /\ users' \in [UserIds -> User \cup {NoUser}]
         /\ hist' \in [UserIds -> History]
    BY <1>1, <2>2, <2>4, <2>5 DEF TableInv
  <2>. HIDE DEF row, new, cur, old
  <2>12. Earned(row, new)
    BY <2>1, <2>5, <2>6, <2>7, <2>8 DEF Earned, LockoutKept
  <2>13. \A i \in UserIds : i >= nextId' => users'[i] = NoUser /\ hist'[i] = NoHistory
    <3>1. s.id \in Int /\ nextId \in Int
      BY <1>1, <2>3 DEF UserIds, TableInv
    <3>. QED
      BY <1>1, <2>1, <2>2, <2>10, <3>1 DEF TableInv
  <2>14. TableInv'
    BY <1>1, <1>2, <2>2, <2>11, <2>13 DEF TableInv
  <2>15. EarnedInv'
    BY <1>1, <2>9, <2>10, <2>12 DEF EarnedInv
  <2>16. ASSUME NEW i \in UserIds, users'[i] # NoUser
         PROVE  users[i] # NoUser /\ hist'[i].wrong >= hist[i].wrong
    <3>1. CASE i = s.id
      <4>1. new.wrong >= old.wrong
        BY <2>5, <2>8
      <4>. QED
        BY <2>2, <2>9, <3>1, <4>1, NoUserIsNoRow DEF old
    <3>2. CASE i # s.id
      <4>1. hist[i].wrong \in Nat
        BY <1>1 DEF TableInv, History
      <4>. QED
        BY <2>10, <2>16, <3>2, <4>1
    <3>. QED
      BY <3>1, <3>2
  <2>17. nextId' >= nextId
    BY <1>1, <2>2 DEF TableInv
  <2>. QED
    BY <1>2, <2>14, <2>15, <2>16, <2>17, TableStep
<1>4. CASE s \in Adding
  <2>1. IsFiniteSet(s.ins) /\ (\A row \in s.ins : Fresh(row)) /\ s.ins \subseteq User
    BY <1>1, <1>4, AccountsAssumption DEF Sound, Changing, Adding, UserIds
  <2>2. /\ nextId' \in nextId..(MaxUsers + 1)
        /\ hist' = hist
        /\ DOMAIN users' = UserIds
        /\ \A i \in UserIds :
              \/ users'[i] = users[i]
              \/ i >= nextId /\ i < nextId' /\ users'[i] \in s.ins
    BY <1>1, <1>4, <2>1, CommitInsert
  <2>3. nextId \in 1..(MaxUsers + 1) /\ MaxUsers \in Nat /\ MaxAttempts \in Nat
    BY <1>1, AccountsAssumption DEF TableInv
  <2>4. nextId' \in 1..(MaxUsers + 1) /\ nextId' >= nextId
    BY <2>2, <2>3
  <2>5. \A i \in UserIds : users'[i] \in User \cup {NoUser}
    BY <1>1, <2>1, <2>2 DEF TableInv
  <2>6. users' \in [UserIds -> User \cup {NoUser}]
    <3>1. users' = [i \in UserIds |-> users'[i]]
      BY <1>1, <1>4, <2>2 DEF Commit, Inserted
    <3>. QED
      BY <2>5, <3>1
  <2>7. \A i \in UserIds : i >= nextId' => users'[i] = NoUser /\ hist'[i] = NoHistory
    BY <1>1, <2>2, <2>3, <2>4 DEF TableInv, UserIds
  <2>8. TableInv'
    BY <1>1, <1>2, <2>2, <2>4, <2>6, <2>7 DEF TableInv
  <2>9. ASSUME NEW i \in UserIds, users'[i] # NoUser
        PROVE  Earned(users'[i], hist'[i])
    <3>1. CASE users'[i] = users[i]
      BY <1>1, <2>2, <2>9, <3>1 DEF EarnedInv
    <3>2. CASE i >= nextId /\ users'[i] \in s.ins
      <4>1. hist'[i] = NoHistory /\ Fresh(users'[i])
        BY <1>1, <2>1, <2>2, <3>2 DEF TableInv
      <4>. QED
        BY <4>1 DEF Earned, Fresh, NoHistory
    <3>. QED
      BY <2>2, <3>1, <3>2
  <2>10. EarnedInv'
    BY <2>9 DEF EarnedInv
  <2>11. ASSUME NEW i \in UserIds, i < nextId, users'[i] # NoUser
         PROVE  users[i] # NoUser /\ hist'[i].wrong >= hist[i].wrong
    <3>1. hist[i].wrong \in Nat /\ i \in Int /\ nextId \in Int
      BY <1>1, <2>3 DEF TableInv, History, UserIds
    <3>. QED
      BY <2>2, <2>11, <3>1
  <2>. QED
    BY <1>2, <2>4, <2>8, <2>10, <2>11, TableStep
<1>. QED
  BY <1>1, <1>3, <1>4 DEF SessionInv

LEMMA PurgeKeeps ==
    ASSUME AccountsInv, Purge
    PROVE  AccountsInv'
<1>. DEFINE gone == {i \in Rows(users) : Expired(users[i])}
<1>1. TableInv /\ EarnedInv
  BY DEF AccountsInv
<1>2. /\ users' = [i \in UserIds |-> IF i \in gone THEN NoUser ELSE users[i]]
      /\ hist' = [i \in UserIds |-> IF i \in gone THEN NoHistory ELSE hist[i]]
      /\ UNCHANGED <<nextId, now, sess>>
  BY DEF Purge
<1>3. NoHistory \in History
  BY DEF NoHistory, History
<1>. HIDE DEF gone
<1>4. TableInv'
  BY <1>1, <1>2, <1>3 DEF TableInv
<1>5. EarnedInv'
  BY <1>1, <1>2 DEF EarnedInv
<1>6. \A i \in UserIds : hist[i].wrong \in Nat
  BY <1>1 DEF TableInv, History
<1>7. \A i \in UserIds : users'[i] # NoUser =>
          users[i] # NoUser /\ hist'[i].wrong >= hist[i].wrong
  BY <1>2, <1>6
<1>8. nextId' >= nextId
  BY <1>1, <1>2 DEF TableInv
<1>. QED
  BY <1>2, <1>4, <1>5, <1>7, <1>8, TableStep

LEMMA RequestKeeps ==
    ASSUME AccountsInv, NEW w \in Workers, Requests(w)
    PROVE  AccountsInv'
<1>1. TableInv /\ EarnedInv
  BY DEF AccountsInv
<1>2. CASE QuietStep
  BY <1>2 DEF QuietStep, AccountsInv, TableInv, SessionInv, EarnedInv
<1>3. CASE UpdateStep(w)
  <2>1. PICK i \in UserIds, row \in User, did \in Kinds :
            users[i] \in User /\ KeptBy(users[i], row, did) /\ Stage(w, i, row, did)
    BY <1>3 DEF UpdateStep
  <2>. DEFINE t == [Idle EXCEPT !.id = i, !.snap = users[i], !.new = row, !.did = did]
  <2>2. UNCHANGED <<users, nextId, now, hist>> /\ sess' = [sess EXCEPT ![w] = t]
    BY <2>1 DEF Stage, Begin
  <2>3. t.id = i /\ t.snap = users[i] /\ t.new = row /\ t.did = did
    BY DEF Idle
  <2>4. t \in Changing
    BY <2>1 DEF Changing, Idle
  <2>5. i < nextId
    BY <1>1, <2>1, NoUserIsNoRow DEF TableInv, UserIds
  <2>6. Earned(users[i], hist[i])
    BY <1>1, <2>1, NoUserIsNoRow DEF EarnedInv
  <2>. HIDE DEF t
  <2>7. Sound(t, users, nextId, hist)
    BY <2>1, <2>3, <2>4, <2>5, <2>6 DEF Sound, KeptBy
  <2>8. now' \in Nat
    BY <1>1, <2>2 DEF TableInv
  <2>. QED
    BY <2>2, <2>4, <2>7, <2>8, SessionStep
<1>4. CASE InsertStep(w)
  <2>1. PICK S \in SUBSET User :
            IsFiniteSet(S) /\ (\A row \in S : Fresh(row)) /\ StageInsert(w, S)
    BY <1>4 DEF InsertStep
  <2>. DEFINE t == [Idle EXCEPT !.ins = S]
  <2>2. UNCHANGED <<users, nextId, now, hist>> /\ sess' = [sess EXCEPT ![w] = t]
    BY <2>1 DEF StageInsert, Begin
  <2>3. t \in Adding /\ t.ins = S
    BY DEF Idle, Adding
  <2>. HIDE DEF t
  <2>4. Sound(t, users, nextId, hist)
    BY <2>1, <2>3 DEF Sound
  <2>5. now' \in Nat
    BY <1>1, <2>2 DEF TableInv
  <2>. QED
    BY <2>2, <2>3, <2>4, <2>5, SessionStep
<1>. QED
  BY <1>1, <1>2, <1>3, <1>4, RequestShape

LEMMA AccountsInit == Init => AccountsInv
<1>. SUFFICES ASSUME Init PROVE AccountsInv
  OBVIOUS
<1>1. PICK e \in Emails, n \in Usernames :
          users = [i \in UserIds |-> IF i = 1 THEN NewUser(e, n) ELSE NoUser]
  BY DEF Init
<1>2. NewUser(e, n) \in User /\ Fresh(NewUser(e, n))
  BY NewUserFresh
<1>3. NoHistory \in History
  BY DEF NoHistory, History
<1>4. TableInv
  <2>1. nextId = 2 /\ now = 0 /\ hist = [i \in UserIds |-> NoHistory]
    BY DEF Init
  <2>2. nextId \in 1..(MaxUsers + 1)
    BY <2>1, AccountsAssumption
  <2>3. \A i \in UserIds : i >= nextId => users[i] = NoUser /\ hist[i] = NoHistory
    BY <1>1, <2>1 DEF UserIds
  <2>4. users \in [UserIds -> User \cup {NoUser}] /\ hist \in [UserIds -> History]
    BY <1>1, <1>2, <1>3, <2>1
  <2>. QED
    BY <2>1, <2>2, <2>3, <2>4 DEF TableInv
<1>5. EarnedInv
  BY <1>1, <1>2 DEF Init, EarnedInv, Earned, Fresh, NoHistory
<1>6. SessionInv
  BY IdleSound DEF Init, SessionInv
<1>. QED
  BY <1>4, <1>5, <1>6 DEF AccountsInv

LEMMA AccountsStep == AccountsInv /\ [Next]_vars => AccountsInv'
<1>. SUFFICES ASSUME AccountsInv, [Next]_vars PROVE AccountsInv'
  OBVIOUS
<1>1. now \in Nat
  BY DEF AccountsInv, TableInv
<1>2. CASE UNCHANGED vars
  BY <1>2 DEF vars, AccountsInv, TableInv, SessionInv, EarnedInv
<1>3. ASSUME NEW w \in Workers, Requests(w) PROVE AccountsInv'
  BY <1>3, RequestKeeps
<1>4. ASSUME NEW w \in Workers, Commit(w) PROVE AccountsInv'
  BY <1>4, CommitKeeps
<1>5. ASSUME NEW w \in Workers, Abort(w) \/ Restart(w) PROVE AccountsInv'
  <2>1. UNCHANGED <<users, nextId, now, hist>> /\ sess' = [sess EXCEPT ![w] = Idle]
    BY <1>5 DEF Abort, Restart
  <2>. QED
    BY <1>1, <2>1, IdleSound, SessionStep
<1>6. CASE Purge
  BY <1>6, PurgeKeeps
<1>7. CASE Tick
  BY <1>1, <1>7 DEF Tick, AccountsInv, TableInv, SessionInv, EarnedInv
<1>. QED
  BY <1>2, <1>3, <1>4, <1>5, <1>6, <1>7 DEF Next

\* The rows, their histories and the requests in flight fit together in every
\* reachable state, however many processes serve requests at once.
THEOREM AccountsInvariant == Spec => []AccountsInv
BY AccountsInit, AccountsStep, PTL DEF Spec

\* authenticate_user: interleaved logins never lock an account before it has
\* seen MaxAttempts wrong passwords.
THEOREM LockoutNeverEarly == Spec => []NoEarlyLockout
<1>1. AccountsInv => NoEarlyLockout
  BY DEF AccountsInv, EarnedInv, Earned, NoEarlyLockout, Rows
<1>. QED
  BY <1>1, AccountsInvariant, PTL

-----------------------------------------------------------------------------
(***************************************************************************)
(* Accounts whose commits never overlapped.                                *)
(***************************************************************************)
Exact(row, h) ==
    /\ row.failed = h.streak
    /\ (row.locked_until # None) <=> (h.streak >= MaxAttempts)

Guarded(row, h) ==
    /\ row.totp_enabled => row.secret
    /\ row.backup_codes \cap h.spent = {}

UnracedInv ==
    \A i \in UserIds :
        users[i] # NoUser /\ ~hist[i].raced => Exact(users[i], hist[i]) /\ Guarded(users[i], hist[i])

\* A commit that met the row it had loaded keeps both.
LEMMA UnracedCommit ==
    ASSUME AccountsInv, NEW w \in Workers, Commit(w), sess[w] \in Changing,
           ~hist[sess[w].id].raced, users[sess[w].id] = sess[w].snap,
           Exact(sess[w].snap, hist[sess[w].id]), Guarded(sess[w].snap, hist[sess[w].id])
    PROVE  Exact(users'[sess[w].id], hist'[sess[w].id]) /\ Guarded(users'[sess[w].id], hist'[sess[w].id])
<1>. DEFINE s == sess[w]
            old == hist[s.id]
            new == Recorded(old, s)
<1>1. TableInv /\ Sound(s, users, nextId, hist)
  BY DEF AccountsInv, SessionInv
<1>2. /\ s.id \in UserIds /\ s.snap \in User /\ s.new \in User /\ s.did \in Kinds
      /\ old \in History
  BY <1>1 DEF Changing, TableInv
<1>3. LockoutKept(s.snap, s.new, s.did) /\ FactorKept(s.snap, s.new, s.did)
  BY <1>1, AccountsAssumption DEF Sound, Changing, Adding, UserIds
<1>4. /\ users' = [users EXCEPT ![s.id] = Flush(users[s.id], s)]
      /\ hist' = [hist EXCEPT ![s.id] = new]
  BY <1>1, CommitUpdate
<1>5. users'[s.id] = s.new /\ hist'[s.id] = new
  BY <1>1, <1>2, <1>4, FlushUnraced DEF TableInv
<1>6. /\ new.streak = IF s.did = "wrong" THEN old.streak + 1
                      ELSE IF s.did = "right" THEN 0 ELSE old.streak
      /\ new.spent = IF s.did = "enroll" THEN {}
                     ELSE IF s.did \in Codes THEN old.spent \cup {s.did} ELSE old.spent
  BY <1>2, RecordedHistory
<1>7. /\ s.snap.failed \in Nat /\ s.new.failed \in Nat /\ old.streak \in Nat
      /\ MaxAttempts \in Nat \ {0}
  BY <1>2, AccountsAssumption DEF User, History
<1>. HIDE DEF new
<1>8. Exact(s.new, new)
  BY <1>3, <1>6, <1>7 DEF Exact, LockoutKept
<1>9. Guarded(s.new, new)
  <2>1. "enroll" \notin Codes
    BY AccountsAssumption
  <2>. QED
    BY <1>3, <1>6, <2>1 DEF Guarded, FactorKept
<1>. QED
  BY <1>5, <1>8, <1>9

LEMMA UnracedInit == Init => UnracedInv
<1>. SUFFICES ASSUME Init PROVE UnracedInv
  OBVIOUS
<1>1. PICK e \in Emails, n \in Usernames :
          users = [i \in UserIds |-> IF i = 1 THEN NewUser(e, n) ELSE NoUser]
  BY DEF Init
<1>2. Fresh(NewUser(e, n)) /\ MaxAttempts \in Nat \ {0}
  BY NewUserFresh, AccountsAssumption
<1>3. Exact(NewUser(e, n), NoHistory) /\ Guarded(NewUser(e, n), NoHistory)
  BY <1>2 DEF Exact, Guarded, Fresh, NoHistory
<1>. QED
  BY <1>1, <1>3 DEF Init, UnracedInv

LEMMA UnracedStep == AccountsInv /\ UnracedInv /\ [Next]_vars => UnracedInv'
<1>. SUFFICES ASSUME AccountsInv, UnracedInv, [Next]_vars PROVE UnracedInv'
  OBVIOUS
<1>1. TableInv /\ SessionInv
  BY DEF AccountsInv
<1>2. CASE UNCHANGED <<users, hist>>
  BY <1>2 DEF UnracedInv
<1>3. ASSUME NEW w \in Workers, Requests(w) PROVE UNCHANGED <<users, hist>>
  BY <1>1, <1>3, RequestShape
  DEF UpdateStep, InsertStep, QuietStep, Stage, StageInsert, Begin
<1>4. ASSUME NEW w \in Workers, Commit(w), sess[w] \in Changing PROVE UnracedInv'
  <2>. DEFINE s == sess[w]
  <2>1. /\ users[s.id] \in User
        /\ users' = [users EXCEPT ![s.id] = Flush(users[s.id], s)]
        /\ hist' = [hist EXCEPT ![s.id] = Recorded(hist[s.id], s)]
    BY <1>1, <1>4, CommitUpdate
  <2>2. s.id \in UserIds /\ hist[s.id] \in History
    BY <1>1, <1>4 DEF Changing, TableInv
  <2>3. hist'[s.id].raced = (hist[s.id].raced \/ users[s.id] # s.snap)
    BY <1>1, <1>4, <2>1, <2>2, RecordedHistory DEF TableInv
  <2>4. ASSUME NEW i \in UserIds, users'[i] # NoUser, ~hist'[i].raced
        PROVE  Exact(users'[i], hist'[i]) /\ Guarded(users'[i], hist'[i])
    <3>1. CASE i = s.id
      <4>1. ~hist[i].raced /\ users[i] = s.snap
        BY <2>3, <2>4, <3>1
      <4>2. Exact(s.snap, hist[i]) /\ Guarded(s.snap, hist[i])
        BY <2>1, <3>1, <4>1, NoUserIsNoRow DEF UnracedInv
      <4>. QED
        BY <1>4, <3>1, <4>1, <4>2, UnracedCommit
    <3>2. CASE i # s.id
      <4>1. users'[i] = users[i] /\ hist'[i] = hist[i]
        BY <1>1, <2>1, <3>2 DEF TableInv
      <4>. QED
        BY <2>4, <4>1 DEF UnracedInv
    <3>. QED
      BY <3>1, <3>2
  <2>. QED
    BY <2>4 DEF UnracedInv
<1>5. ASSUME NEW w \in Workers, Commit(w), sess[w] \in Adding PROVE UnracedInv'
  <2>. DEFINE s == sess[w]
  <2>1. Sound(s, users, nextId, hist)
    BY <1>1 DEF SessionInv
  <2>2. IsFiniteSet(s.ins) /\ (\A row \in s.ins : Fresh(row))
    BY <1>5, <2>1, AccountsAssumption DEF Sound, Changing, Adding, UserIds
  <2>3. /\ hist' = hist
        /\ \A i \in UserIds :
              users'[i] = users[i] \/ (i >= nextId /\ users'[i] \in s.ins)
    BY <1>1, <1>5, <2>2, CommitInsert
  <2>4. ASSUME NEW i \in UserIds, i >= nextId, users'[i] \in s.ins
        PROVE  Exact(users'[i], hist'[i]) /\ Guarded(users'[i], hist'[i])
    <3>1. hist'[i] = NoHistory /\ Fresh(users'[i]) /\ MaxAttempts \in Nat \ {0}
      BY <1>1, <2>2, <2>3, <2>4, AccountsAssumption DEF TableInv
    <3>. QED
      BY <3>1 DEF Exact, Guarded, Fresh, NoHistory
  <2>. QED
    BY <2>3, <2>4 DEF UnracedInv
<1>6. CASE Purge
  <2>. DEFINE gone == {i \in Rows(users) : Expired(users[i])}
  <2>1. /\ users' = [i \in UserIds |-> IF i \in gone THEN NoUser ELSE users[i]]
        /\ hist' = [i \in UserIds |-> IF i \in gone THEN NoHistory ELSE hist[i]]
    BY <1>6 DEF Purge
  <2>. HIDE DEF gone
  <2>. QED
    BY <2>1 DEF UnracedInv
<1>7. ASSUME NEW w \in Workers, Abort(w) \/ Restart(w) PROVE UNCHANGED <<users, hist>>
  BY <1>7 DEF Abort, Restart
<1>8. Tick \/ UNCHANGED vars => UNCHANGED <<users, hist>>
  BY DEF Tick, vars
<1>. QED
  BY <1>1, <1>2, <1>3, <1>4, <1>5, <1>6, <1>7, <1>8 DEF Next, SessionInv

LEMMA UnracedInvariant == Spec => []UnracedInv
BY AccountsInvariant, UnracedInit, UnracedStep, PTL DEF Spec

\* authenticate_user: the counter of an account whose commits never overlapped
\* is the number of wrong passwords since the last right one, and the account
\* carries a lock exactly when that reached the limit.
THEOREM LockoutIsExact == Spec => []LockoutExactUnlessRaced
<1>1. UnracedInv => LockoutExactUnlessRaced
  BY DEF UnracedInv, Exact, LockoutExactUnlessRaced, Rows
<1>. QED
  BY <1>1, UnracedInvariant, PTL

\* The TOTP endpoints: on such an account 2FA is on only with a secret, and no
\* backup code login_with_totp accepted is still valid.
THEOREM SecondFactorHolds == Spec => []SecondFactorUnlessRaced
<1>1. UnracedInv => SecondFactorUnlessRaced
  BY DEF UnracedInv, Guarded, SecondFactorUnlessRaced, Rows
<1>. QED
  BY <1>1, UnracedInvariant, PTL

-----------------------------------------------------------------------------
(***************************************************************************)
(* Passkey ceremonies.  A challenge waiting in some process and the        *)
(* credentials (or logins) it was traded for never exceed the challenges   *)
(* handed out.                                                             *)
(***************************************************************************)
Holders(pending, i) == {w \in Workers : i \in pending[w]}

CeremonyInv ==
    /\ pendingReg \in [Workers -> SUBSET UserIds]
    /\ pendingAuth \in [Workers -> SUBSET UserIds]
    /\ credentials \in [UserIds -> Nat] /\ passkeyLogins \in [UserIds -> Nat]
    /\ begun \in [UserIds -> Nat] /\ asked \in [UserIds -> Nat]
    /\ \A i \in UserIds :
          /\ credentials[i] + Cardinality(Holders(pendingReg, i)) <= begun[i]
          /\ passkeyLogins[i] + Cardinality(Holders(pendingAuth, i)) <= asked[i]
          /\ asked[i] > 0 => begun[i] > 0

\* One more handed out, at most one more kept.
LEMMA BalanceAfterBegin ==
    ASSUME NEW used \in Nat, NEW kept \in Nat, NEW out \in Nat, NEW keptNext \in Nat,
           NEW one \in {0, 1},
           used + kept <= out, keptNext <= kept + one
    PROVE  used + keptNext <= out + one
OBVIOUS

\* One less kept, at most one more used.
LEMMA BalanceAfterUse ==
    ASSUME NEW used \in Nat, NEW kept \in Nat, NEW out \in Nat, NEW one \in {0, 1},
           NEW usedNext \in {used, used + one},
           used + kept <= out
    PROVE  usedNext + (kept - one) <= out
OBVIOUS

LEMMA BalanceAfterDrop ==
    ASSUME NEW used \in Nat, NEW kept \in Nat, NEW out \in Nat, NEW keptNext \in Nat,
           used + kept <= out, keptNext <= kept
    PROVE  used + keptNext <= out
OBVIOUS

LEMMA HoldersCount ==
    ASSUME NEW pending, NEW i
    PROVE  IsFiniteSet(Holders(pending, i)) /\ Cardinality(Holders(pending, i)) \in Nat
<1>1. Holders(pending, i) \subseteq Workers /\ IsFiniteSet(Workers)
  BY AccountsAssumption DEF Holders
<1>. QED
  BY <1>1, FS_Subset, FS_CardinalityType

\* A challenge more is one holder more at most, and only for its user.
LEMMA HoldersAdd ==
    ASSUME NEW pending \in [Workers -> SUBSET UserIds], NEW w \in Workers, NEW i \in UserIds,
           NEW j \in UserIds, NEW next, next = [pending EXCEPT ![w] = @ \cup {i}]
    PROVE  Cardinality(Holders(next, j)) <=
               Cardinality(Holders(pending, j)) + (IF j = i THEN 1 ELSE 0)
<1>1. /\ IsFiniteSet(Holders(pending, j)) /\ Cardinality(Holders(pending, j)) \in Nat
      /\ Cardinality(Holders(next, j)) \in Nat
  BY HoldersCount
<1>2. CASE j # i
  <2>1. Holders(next, j) = Holders(pending, j)
    BY <1>2 DEF Holders
  <2>. QED
    BY <1>1, <1>2, <2>1
<1>3. CASE j = i
  <2>1. Holders(next, j) = Holders(pending, j) \cup {w}
    BY <1>3 DEF Holders
  <2>2. Cardinality(Holders(pending, j) \cup {w}) \in
            {Cardinality(Holders(pending, j)), Cardinality(Holders(pending, j)) + 1}
    BY <1>1, FS_AddElement
  <2>. DEFINE n == Cardinality(Holders(pending, j))
              m == Cardinality(Holders(next, j))
  <2>3. n \in Nat /\ (m = n \/ m = n + 1)
    BY <1>1, <2>1, <2>2
  <2>. HIDE DEF n, m
  <2>4. m <= n + 1
    BY <2>3
  <2>. QED
    BY <1>3, <2>4 DEF n, m
<1>. QED
  BY <1>2, <1>3

\* A challenge that is popped is one holder less.
LEMMA HoldersPop ==
    ASSUME NEW pending \in [Workers -> SUBSET UserIds], NEW w \in Workers, NEW i \in UserIds,
           i \in pending[w], NEW j \in UserIds, NEW next \in [Workers -> SUBSET UserIds],
           \A v \in Workers : next[v] = pending[v] \ (IF v = w THEN {i} ELSE {})
    PROVE  Cardinality(Holders(next, j)) =
               Cardinality(Holders(pending, j)) - (IF j = i THEN 1 ELSE 0)
<1>1. IsFiniteSet(Holders(pending, j)) /\ Cardinality(Holders(pending, j)) \in Nat
  BY HoldersCount
<1>2. CASE j # i
  <2>1. Holders(next, j) = Holders(pending, j)
    BY <1>2 DEF Holders
  <2>. QED
    BY <1>1, <1>2, <2>1
<1>3. CASE j = i
  <2>1. Holders(next, j) = Holders(pending, j) \ {w} /\ w \in Holders(pending, j)
    BY <1>3 DEF Holders
  <2>2. Cardinality(Holders(pending, j) \ {w}) = Cardinality(Holders(pending, j)) - 1
    BY <1>1, <2>1, FS_RemoveElement
  <2>. QED
    BY <1>3, <2>1, <2>2
<1>. QED
  BY <1>2, <1>3

\* A process that forgets its challenges makes no new holder.
LEMMA HoldersDrop ==
    ASSUME NEW pending \in [Workers -> SUBSET UserIds], NEW w \in Workers, NEW j \in UserIds
    PROVE  Cardinality(Holders([pending EXCEPT ![w] = {}], j)) <= Cardinality(Holders(pending, j))
<1>1. Holders([pending EXCEPT ![w] = {}], j) \subseteq Holders(pending, j)
  BY DEF Holders
<1>. QED
  BY <1>1, HoldersCount, FS_Subset

\* Only the four WebAuthn endpoints among the requests touch a ceremony.
LEMMA CeremonyRequests ==
    ASSUME NEW w \in Workers, Requests(w)
    PROVE  \/ UNCHANGED passkeys
           \/ \E i \in UserIds : BeginRegistration(w, i)
           \/ \E i \in UserIds, valid \in BOOLEAN : CompleteRegistration(w, i, valid)
           \/ \E i \in UserIds : BeginAuthentication(w, i)
           \/ \E i \in UserIds, valid \in BOOLEAN : CompleteAuthentication(w, i, valid)
<1>0. ASSUME NEW i, NEW row, NEW did, Stage(w, i, row, did) PROVE UNCHANGED passkeys
  BY <1>0 DEF Stage, Begin
<1>1. ASSUME NEW S, StageInsert(w, S) PROVE UNCHANGED passkeys
  BY <1>1 DEF StageInsert, Begin
<1>2. ASSUME NEW t, Mail(w, t) PROVE UNCHANGED passkeys
  BY <1>2 DEF Mail
<1>3. ASSUME NEW e \in Emails,
             \/ \E n \in Usernames : Register(w, e, n) \/ GqlCreateUser(w, e, n)
             \/ RequestMagicLink(w, e) \/ MagicLinkNew(w, e) \/ MagicLinkKnown(w, e)
             \/ \E right \in BOOLEAN : Login(w, e, right)
      PROVE  UNCHANGED passkeys
  BY <1>0, <1>1, <1>2, <1>3
  DEF Register, GqlCreateUser, RequestMagicLink, MagicLinkNew, MagicLinkKnown, Login, Authenticate
<1>4. ASSUME NEW f, BulkCreate(w, f) \/ ImportCsv(w, f)
      PROVE  UNCHANGED passkeys
  BY <1>1, <1>4 DEF BulkCreate, ImportCsv
<1>5. ASSUME NEW i \in UserIds,
             \/ RequestEmailVerification(w, i) \/ VerifyEmail(w, i)
             \/ EnableTotp(w, i) \/ VerifyEnableTotp(w, i) \/ DisableTotp(w, i)
             \/ \E c \in Codes : LoginBackupCode(w, i, c)
      PROVE  UNCHANGED passkeys
  BY <1>0, <1>2, <1>5
  DEF RequestEmailVerification, VerifyEmail, EnableTotp, VerifyEnableTotp, DisableTotp, LoginBackupCode
<1>6. ASSUME NEW i \in UserIds,
             \/ \E e \in Emails : ProfileEdit(w, i, e)
             \/ \E e \in Emails, b \in BOOLEAN : UpdateUser(w, i, e, b)
             \/ \E form \in Forms : AdminEdit(w, i, form)
             \/ \E b \in BOOLEAN : SetActive(w, i, b)
             \/ DeleteUser(w, i) \/ AdminDelete(w, i)
             \/ RestoreUser(w, i) \/ AdminRestore(w, i)
      PROVE  UNCHANGED passkeys
  BY <1>0, <1>6
  DEF ProfileEdit, UpdateUser, AdminEdit, SetActive, DeleteUser, AdminDelete, RestoreUser,
      AdminRestore, Restore
<1>7. ASSUME NEW e \in Emails, WebAuthnLoginBegin(w, e)
      PROVE  \E i \in UserIds : BeginAuthentication(w, i)
  BY <1>7 DEF WebAuthnLoginBegin, ByEmail, Rows
<1>8. ASSUME NEW e \in Emails, NEW valid \in BOOLEAN, WebAuthnLoginComplete(w, e, valid)
      PROVE  \E i \in UserIds : CompleteAuthentication(w, i, valid)
  BY <1>8 DEF WebAuthnLoginComplete, ByEmail, Rows
<1>9. ASSUME NEW i \in UserIds
      PROVE  /\ WebAuthnRegisterBegin(w, i) => BeginRegistration(w, i)
             /\ \A valid \in BOOLEAN :
                   WebAuthnRegisterComplete(w, i, valid) => CompleteRegistration(w, i, valid)
  BY DEF WebAuthnRegisterBegin, WebAuthnRegisterComplete
<1>. QED
  BY <1>3, <1>4, <1>5, <1>6, <1>7, <1>8, <1>9 DEF Requests

LEMMA CeremonyInit == Init => CeremonyInv
<1>. SUFFICES ASSUME Init PROVE CeremonyInv
  OBVIOUS
<1>1. \A i \in UserIds : Holders(pendingReg, i) = {} /\ Holders(pendingAuth, i) = {}
  BY DEF Init, Holders
<1>2. Cardinality({}) = 0
  BY FS_EmptySet
<1>3. /\ pendingReg = [w \in Workers |-> {}] /\ pendingAuth = [w \in Workers |-> {}]
      /\ credentials = [i \in UserIds |-> 0] /\ begun = [i \in UserIds |-> 0]
      /\ asked = [i \in UserIds |-> 0] /\ passkeyLogins = [i \in UserIds |-> 0]
  BY DEF Init
<1>4. ASSUME NEW i \in UserIds
      PROVE  /\ credentials[i] + Cardinality(Holders(pendingReg, i)) <= begun[i]
             /\ passkeyLogins[i] + Cardinality(Holders(pendingAuth, i)) <= asked[i]
             /\ asked[i] > 0 => begun[i] > 0
  <2>1. /\ credentials[i] = 0 /\ begun[i] = 0 /\ passkeyLogins[i] = 0 /\ asked[i] = 0
        /\ Cardinality(Holders(pendingReg, i)) = 0 /\ Cardinality(Holders(pendingAuth, i)) = 0
    BY <1>1, <1>2, <1>3
  <2>. QED
    BY <2>1
<1>5. /\ pendingReg \in [Workers -> SUBSET UserIds] /\ pendingAuth \in [Workers -> SUBSET UserIds]
      /\ credentials \in [UserIds -> Nat] /\ passkeyLogins \in [UserIds -> Nat]
      /\ begun \in [UserIds -> Nat] /\ asked \in [UserIds -> Nat]
  BY <1>3
<1>. QED
  BY <1>4, <1>5 DEF CeremonyInv

LEMMA CeremonyStep == CeremonyInv /\ [Next]_vars => CeremonyInv'
<1>. SUFFICES ASSUME CeremonyInv, [Next]_vars PROVE CeremonyInv'
  OBVIOUS
<1>1. /\ pendingReg \in [Workers -> SUBSET UserIds]
      /\ pendingAuth \in [Workers -> SUBSET UserIds]
      /\ credentials \in [UserIds -> Nat] /\ passkeyLogins \in [UserIds -> Nat]
      /\ begun \in [UserIds -> Nat] /\ asked \in [UserIds -> Nat]
      /\ \A j \in UserIds :
            /\ credentials[j] + Cardinality(Holders(pendingReg, j)) <= begun[j]
            /\ passkeyLogins[j] + Cardinality(Holders(pendingAuth, j)) <= asked[j]
            /\ asked[j] > 0 => begun[j] > 0
  BY DEF CeremonyInv
<1>2. \A j \in UserIds :
          /\ Cardinality(Holders(pendingReg, j)) \in Nat /\ Cardinality(Holders(pendingReg', j)) \in Nat
          /\ Cardinality(Holders(pendingAuth, j)) \in Nat /\ Cardinality(Holders(pendingAuth', j)) \in Nat
  BY HoldersCount
<1>3. ASSUME NEW w \in Workers, NEW i \in UserIds, BeginRegistration(w, i)
      PROVE  CeremonyInv'
  <2>1. /\ begun' = [begun EXCEPT ![i] = @ + 1]
        /\ pendingReg' = [pendingReg EXCEPT ![w] = @ \cup {i}]
        /\ UNCHANGED <<pendingAuth, credentials, asked, passkeyLogins>>
    BY <1>3 DEF BeginRegistration
  <2>2. ASSUME NEW j \in UserIds
        PROVE  /\ credentials'[j] + Cardinality(Holders(pendingReg', j)) <= begun'[j]
               /\ asked'[j] > 0 => begun'[j] > 0
    <3>1. Cardinality(Holders(pendingReg', j)) <=
              Cardinality(Holders(pendingReg, j)) + (IF j = i THEN 1 ELSE 0)
      BY <1>1, <2>1, HoldersAdd
    <3>2. begun'[j] = begun[j] + (IF j = i THEN 1 ELSE 0)
      BY <1>1, <2>1
    <3>3. /\ credentials[j] \in Nat /\ begun[j] \in Nat
          /\ credentials[j] + Cardinality(Holders(pendingReg, j)) <= begun[j]
          /\ asked[j] > 0 => begun[j] > 0
      BY <1>1
    <3>4. credentials[j] + Cardinality(Holders(pendingReg', j)) <=
              begun[j] + (IF j = i THEN 1 ELSE 0)
      BY <1>2, <3>1, <3>3, BalanceAfterBegin
    <3>. QED
      BY <2>1, <3>2, <3>3, <3>4
  <2>3. pendingReg' \in [Workers -> SUBSET UserIds] /\ begun' \in [UserIds -> Nat]
    BY <1>1, <2>1
  <2>. QED
    BY <1>1, <2>1, <2>2, <2>3 DEF CeremonyInv
<1>4. ASSUME NEW w \in Workers, NEW i \in UserIds, NEW valid \in BOOLEAN,
             CompleteRegistration(w, i, valid)
      PROVE  CeremonyInv'
  <2>1. /\ i \in pendingReg[w]
        /\ pendingReg' = [pendingReg EXCEPT ![w] = @ \ {i}]
        /\ credentials' = IF valid THEN [credentials EXCEPT ![i] = @ + 1] ELSE credentials
        /\ UNCHANGED <<pendingAuth, begun, asked, passkeyLogins>>
    BY <1>4 DEF CompleteRegistration, Popped
  <2>2. ASSUME NEW j \in UserIds
        PROVE  credentials'[j] + Cardinality(Holders(pendingReg', j)) <= begun'[j]
    <3>1. Cardinality(Holders(pendingReg', j)) =
              Cardinality(Holders(pendingReg, j)) - (IF j = i THEN 1 ELSE 0)
      <4>1. /\ pendingReg' \in [Workers -> SUBSET UserIds]
            /\ \A v \in Workers : pendingReg'[v] = pendingReg[v] \ (IF v = w THEN {i} ELSE {})
        BY <1>1, <2>1
      <4>2. i \in pendingReg[w] /\ pendingReg \in [Workers -> SUBSET UserIds]
        BY <1>1, <2>1
      <4>. QED
        BY <4>1, <4>2, HoldersPop
    <3>2. credentials'[j] \in {credentials[j], credentials[j] + (IF j = i THEN 1 ELSE 0)}
      BY <1>1, <2>1
    <3>3. /\ credentials[j] \in Nat /\ begun[j] \in Nat
          /\ credentials[j] + Cardinality(Holders(pendingReg, j)) <= begun[j]
      BY <1>1
    <3>4. credentials'[j] + (Cardinality(Holders(pendingReg, j)) - (IF j = i THEN 1 ELSE 0)) <= begun[j]
      BY <1>2, <3>2, <3>3, BalanceAfterUse
    <3>. QED
      BY <2>1, <3>1, <3>4
  <2>3. pendingReg' \in [Workers -> SUBSET UserIds] /\ credentials' \in [UserIds -> Nat]
    BY <1>1, <2>1
  <2>. QED
    BY <1>1, <2>1, <2>2, <2>3 DEF CeremonyInv
<1>5. ASSUME NEW w \in Workers, NEW i \in UserIds, BeginAuthentication(w, i)
      PROVE  CeremonyInv'
  <2>1. /\ credentials[i] > 0
        /\ asked' = [asked EXCEPT ![i] = @ + 1]
        /\ pendingAuth' = [pendingAuth EXCEPT ![w] = @ \cup {i}]
        /\ UNCHANGED <<pendingReg, credentials, begun, passkeyLogins>>
    BY <1>5 DEF BeginAuthentication
  <2>2. ASSUME NEW j \in UserIds
        PROVE  /\ passkeyLogins'[j] + Cardinality(Holders(pendingAuth', j)) <= asked'[j]
               /\ asked'[j] > 0 => begun'[j] > 0
    <3>1. Cardinality(Holders(pendingAuth', j)) <=
              Cardinality(Holders(pendingAuth, j)) + (IF j = i THEN 1 ELSE 0)
      BY <1>1, <2>1, HoldersAdd
    <3>2. asked'[j] = asked[j] + (IF j = i THEN 1 ELSE 0)
      BY <1>1, <2>1
    <3>3. /\ passkeyLogins[j] \in Nat /\ asked[j] \in Nat /\ credentials[j] \in Nat /\ begun[j] \in Nat
          /\ credentials[j] + Cardinality(Holders(pendingReg, j)) <= begun[j]
          /\ passkeyLogins[j] + Cardinality(Holders(pendingAuth, j)) <= asked[j]
          /\ asked[j] > 0 => begun[j] > 0
      BY <1>1
    <3>4. j = i => begun[j] > 0
      BY <1>2, <2>1, <3>3
    <3>5. passkeyLogins[j] + Cardinality(Holders(pendingAuth', j)) <=
              asked[j] + (IF j = i THEN 1 ELSE 0)
      BY <1>2, <3>1, <3>3, BalanceAfterBegin
    <3>. QED
      BY <2>1, <3>2, <3>3, <3>4, <3>5
  <2>3. pendingAuth' \in [Workers -> SUBSET UserIds] /\ asked' \in [UserIds -> Nat]
    BY <1>1, <2>1
  <2>. QED
    BY <1>1, <2>1, <2>2, <2>3 DEF CeremonyInv
<1>6. ASSUME NEW w \in Workers, NEW i \in UserIds, NEW valid \in BOOLEAN,
             CompleteAuthentication(w, i, valid)
      PROVE  CeremonyInv'
  <2>1. /\ i \in pendingAuth[w]
        /\ pendingAuth' = [pendingAuth EXCEPT ![w] = @ \ {i}]
        /\ passkeyLogins' \in {passkeyLogins, [passkeyLogins EXCEPT ![i] = @ + 1]}
        /\ UNCHANGED <<pendingReg, credentials, begun, asked>>
    BY <1>6 DEF CompleteAuthentication
  <2>2. ASSUME NEW j \in UserIds
        PROVE  passkeyLogins'[j] + Cardinality(Holders(pendingAuth', j)) <= asked'[j]
    <3>1. Cardinality(Holders(pendingAuth', j)) =
              Cardinality(Holders(pendingAuth, j)) - (IF j = i THEN 1 ELSE 0)
      <4>1. /\ pendingAuth' \in [Workers -> SUBSET UserIds]
            /\ \A v \in Workers : pendingAuth'[v] = pendingAuth[v] \ (IF v = w THEN {i} ELSE {})
        BY <1>1, <2>1
      <4>2. i \in pendingAuth[w] /\ pendingAuth \in [Workers -> SUBSET UserIds]
        BY <1>1, <2>1
      <4>. QED
        BY <4>1, <4>2, HoldersPop
    <3>2. passkeyLogins'[j] \in {passkeyLogins[j], passkeyLogins[j] + (IF j = i THEN 1 ELSE 0)}
      BY <1>1, <2>1
    <3>3. /\ passkeyLogins[j] \in Nat /\ asked[j] \in Nat
          /\ passkeyLogins[j] + Cardinality(Holders(pendingAuth, j)) <= asked[j]
      BY <1>1
    <3>4. passkeyLogins'[j] + (Cardinality(Holders(pendingAuth, j)) - (IF j = i THEN 1 ELSE 0)) <= asked[j]
      BY <1>2, <3>2, <3>3, BalanceAfterUse
    <3>. QED
      BY <2>1, <3>1, <3>4
  <2>3. pendingAuth' \in [Workers -> SUBSET UserIds] /\ passkeyLogins' \in [UserIds -> Nat]
    BY <1>1, <2>1
  <2>. QED
    BY <1>1, <2>1, <2>2, <2>3 DEF CeremonyInv
<1>7. ASSUME UNCHANGED passkeys PROVE CeremonyInv'
  BY <1>1, <1>7 DEF passkeys, CeremonyInv
<1>8. ASSUME NEW w \in Workers, Restart(w) PROVE CeremonyInv'
  <2>1. /\ pendingReg' = [pendingReg EXCEPT ![w] = {}]
        /\ pendingAuth' = [pendingAuth EXCEPT ![w] = {}]
        /\ UNCHANGED <<credentials, begun, asked, passkeyLogins>>
    BY <1>8 DEF Restart
  <2>2. ASSUME NEW j \in UserIds
        PROVE  /\ Cardinality(Holders(pendingReg', j)) <= Cardinality(Holders(pendingReg, j))
               /\ Cardinality(Holders(pendingAuth', j)) <= Cardinality(Holders(pendingAuth, j))
    BY <1>1, <2>1, HoldersDrop
  <2>3. ASSUME NEW j \in UserIds
        PROVE  /\ credentials'[j] + Cardinality(Holders(pendingReg', j)) <= begun'[j]
               /\ passkeyLogins'[j] + Cardinality(Holders(pendingAuth', j)) <= asked'[j]
    <3>1. /\ credentials[j] \in Nat /\ passkeyLogins[j] \in Nat
          /\ begun[j] \in Nat /\ asked[j] \in Nat
      BY <1>1
    <3>2. /\ credentials[j] + Cardinality(Holders(pendingReg', j)) <= begun[j]
          /\ passkeyLogins[j] + Cardinality(Holders(pendingAuth', j)) <= asked[j]
      BY <1>1, <1>2, <2>2, <3>1, BalanceAfterDrop
    <3>. QED
      BY <2>1, <3>2
  <2>4. pendingReg' \in [Workers -> SUBSET UserIds] /\ pendingAuth' \in [Workers -> SUBSET UserIds]
    BY <1>1, <2>1
  <2>. QED
    BY <1>1, <2>1, <2>3, <2>4 DEF CeremonyInv
<1>9. CASE Purge
  <2>1. /\ credentials' \in [UserIds -> Nat]
        /\ \A j \in UserIds : credentials'[j] <= credentials[j]
        /\ UNCHANGED <<pendingReg, pendingAuth, begun, asked, passkeyLogins>>
    <3>. DEFINE gone == {i \in Rows(users) : Expired(users[i])}
    <3>1. /\ credentials' = [i \in UserIds |-> IF i \in gone THEN 0 ELSE credentials[i]]
          /\ UNCHANGED <<pendingReg, pendingAuth, begun, asked, passkeyLogins>>
      BY <1>9 DEF Purge
    <3>. HIDE DEF gone
    <3>. QED
      BY <1>1, <3>1
  <2>2. ASSUME NEW j \in UserIds
        PROVE  credentials'[j] + Cardinality(Holders(pendingReg', j)) <= begun'[j]
    <3>1. /\ credentials[j] \in Nat /\ credentials'[j] \in Nat /\ begun[j] \in Nat
      BY <1>1, <2>1
    <3>. QED
      BY <1>1, <1>2, <2>1, <3>1
  <2>. QED
    BY <1>1, <2>1, <2>2 DEF CeremonyInv
<1>10. ASSUME NEW w \in Workers, Commit(w) \/ Abort(w) PROVE UNCHANGED passkeys
  BY <1>10 DEF Commit, Abort
<1>11. Tick \/ UNCHANGED vars => UNCHANGED passkeys
  BY DEF Tick, vars, passkeys
<1>12. ASSUME NEW w \in Workers, Requests(w) PROVE CeremonyInv'
  BY <1>3, <1>4, <1>5, <1>6, <1>7, <1>12, CeremonyRequests
<1>. QED
  BY <1>7, <1>8, <1>9, <1>10, <1>11, <1>12 DEF Next

\* The WebAuthn endpoints: a challenge is traded for at most one credential or
\* one login, whichever process answers it and whenever processes restart.
THEOREM CeremoniesUsedOnce == Spec => []OneUsePerCeremony
<1>1. CeremonyInv => OneUsePerCeremony
  <2>. SUFFICES ASSUME CeremonyInv, NEW i \in UserIds
                PROVE  /\ credentials[i] <= begun[i]
                       /\ passkeyLogins[i] <= asked[i]
                       /\ asked[i] > 0 => begun[i] > 0
    BY DEF OneUsePerCeremony
  <2>1. /\ Cardinality(Holders(pendingReg, i)) \in Nat
        /\ Cardinality(Holders(pendingAuth, i)) \in Nat
    BY HoldersCount
  <2>. QED
    BY <2>1 DEF CeremonyInv
<1>. QED
  BY <1>1, CeremonyInit, CeremonyStep, PTL DEF Spec

-----------------------------------------------------------------------------
(***************************************************************************)
(* The inductive invariants of the session registry.  Of a program it      *)
(* matters which commands are still in it; their order only decides that a *)
(* token is stored once.                                                   *)
(***************************************************************************)
Elems(s) == {s[k] : k \in 1..Len(s)}
Cmds(w) == Elems(prog[w].todo)
Owner(j) == token[j].user

\* Whatever is recorded about a token is about a minted one, under its owner.
Minted ==
    /\ \A u \in Users : \A j \in index[u].mem : j \in 1..Len(token) /\ Owner(j) = u
    /\ \A j \in Tokens : meta[j].there => j <= Len(token)
    /\ revoked \subseteq 1..Len(token)
    /\ \A w \in Processes :
          /\ \A c \in Cmds(w) : c.jti \in 1..Len(token)
          /\ prog[w].give \subseteq 1..Len(token)
          /\ prog[w].gone \subseteq 1..Len(token)

\* A TTL under way is still long enough for what it was computed from.
TtlsCover ==
    \A w \in Processes : \A c \in Cmds(w) :
        /\ c.op \in {"expire_black", "expire_index", "expire_meta"} => c.n > 0
        /\ c.op = "expire_black" => c.n >= Smaller(BlacklistTtl, c.exp - clock)

\* The last revocation is on the blacklist, and stays there long enough.
Until(l) == Smaller(l.exp, l.iat + BlacklistTtl)
LastCovered ==
    \A u \in Users : clock < Until(last[u]) =>
        /\ last[u].user \in 1..Len(token) /\ Owner(last[u].user) = u
        /\ [jti |-> last[u].user, exp |-> last[u].exp] \in black[u].mem
        /\ black[u].until >= Until(last[u])

\* A token that is still to be stored is known to the program that stores it
\* and to nothing else.
Once(s) == \A k, l \in 1..Len(s) : k # l /\ s[k].op = "zadd" => s[l].jti # s[k].jti
Unknown(j) ==
    /\ j \notin held /\ j \notin revoked /\ ~meta[j].there
    /\ \A u \in Users : j \notin index[u].mem
    /\ \A w \in Processes : j \notin prog[w].gone
StoredOnce ==
    \A w \in Processes :
        /\ Once(prog[w].todo)
        /\ \A c \in Cmds(w) : c.op = "zadd" =>
              /\ Unknown(c.jti)
              /\ \A v \in Processes : v # w =>
                    c.jti \notin prog[v].give /\ \A d \in Cmds(v) : d.jti # c.jti

\* A token that is being revoked is out of the index, or will be before the
\* request is over.
Revoking(w, j) ==
    j \in prog[w].gone \/ \E c \in Cmds(w) : c.op \in {"hgetall", "sadd", "expire_black"} /\ c.jti = j
Removes(c, j) == (c.op = "zrem" /\ c.jti = j) \/ (c.op = "del_index" /\ Owner(c.jti) = Owner(j))
Out(j) == \A u \in Users : j \notin index[u].mem
RevokedLeave ==
    /\ \A j \in revoked : Out(j)
    /\ \A w \in Processes : \A j \in 1..Len(token) :
          Revoking(w, j) => Out(j) \/ \E c \in Cmds(w) : Removes(c, j)

\* A key without a TTL is about to get one.
Follow(s) ==
    \A k \in 1..Len(s) : s[k].op = "hset" =>
        \E l \in 1..Len(s) : l > k /\ s[l].op = "expire_meta" /\ s[l].jti = s[k].jti
Pending(op, j) == \E w \in Processes : \E c \in Cmds(w) : c.op = op /\ c.jti = j
PendingOf(op, u) == \E w \in Processes : \E c \in Cmds(w) : c.op = op /\ Owner(c.jti) = u
TtlsFollow ==
    /\ \A w \in Processes : Follow(prog[w].todo)
    /\ cuts = 0 =>
          /\ \A u \in Users : /\ black[u].mem # {} /\ black[u].until = Forever => PendingOf("expire_black", u)
                              /\ index[u].mem # {} /\ index[u].until = Forever => PendingOf("expire_index", u)
          /\ \A j \in Tokens : meta[j].there /\ meta[j].until = Forever => Pending("expire_meta", j)

-----------------------------------------------------------------------------
(***************************************************************************)
(* Sequences of commands.                                                  *)
(***************************************************************************)

\* What is at an index of a concatenation.
LEMMA ConcatAt ==
    ASSUME NEW S, NEW s \in Seq(S), NEW t \in Seq(S)
    PROVE  /\ Len(s \o t) = Len(s) + Len(t)
           /\ \A k \in 1..Len(s) : (s \o t)[k] = s[k]
           /\ \A k \in 1..Len(t) : (s \o t)[Len(s) + k] = t[k]
OBVIOUS

\* The elements of a concatenation, of a sequence's head and of its tail.
LEMMA ElemsConcat ==
    ASSUME NEW S, NEW s \in Seq(S), NEW t \in Seq(S)
    PROVE  /\ s \o t \in Seq(S)
           /\ Elems(s \o t) = Elems(s) \cup Elems(t)
<1>1. /\ s \o t \in Seq(S) /\ Len(s \o t) = Len(s) + Len(t) /\ Len(s) \in Nat /\ Len(t) \in Nat
      /\ \A k \in 1..Len(s) : (s \o t)[k] = s[k]
      /\ \A k \in 1..Len(t) : (s \o t)[Len(s) + k] = t[k]
  OBVIOUS
<1>2. ASSUME NEW x \in Elems(s \o t) PROVE x \in Elems(s) \cup Elems(t)
  <2>1. PICK k \in 1..Len(s \o t) : x = (s \o t)[k]
    BY DEF Elems
  <2>2. CASE k <= Len(s)
    BY <1>1, <2>1, <2>2 DEF Elems
  <2>3. CASE k > Len(s)
    <3>1. k - Len(s) \in 1..Len(t) /\ k = Len(s) + (k - Len(s))
      BY <1>1, <2>1, <2>3
    <3>2. x = t[k - Len(s)]
      BY <1>1, <2>1, <3>1
    <3>. QED
      BY <3>1, <3>2 DEF Elems
  <2>. QED
    BY <1>1, <2>2, <2>3
<1>3. ASSUME NEW x \in Elems(s) PROVE x \in Elems(s \o t)
  BY <1>1 DEF Elems
<1>4. ASSUME NEW x \in Elems(t) PROVE x \in Elems(s \o t)
  <2>1. PICK k \in 1..Len(t) : x = t[k]
    BY DEF Elems
  <2>2. Len(s) + k \in 1..Len(s \o t) /\ x = (s \o t)[Len(s) + k]
    BY <1>1, <2>1
  <2>. QED
    BY <2>2 DEF Elems
<1>. QED
  BY <1>1, <1>2, <1>3, <1>4

\* A program that is not over is its head and its tail.
LEMMA ElemsHead ==
    ASSUME NEW S, NEW s \in Seq(S), s # <<>>
    PROVE  /\ Head(s) \in S /\ Tail(s) \in Seq(S)
           /\ Elems(s) = {Head(s)} \cup Elems(Tail(s))
<1>1. /\ Len(s) \in Nat \ {0} /\ Head(s) = s[1] /\ Head(s) \in S
      /\ Tail(s) \in Seq(S) /\ Len(Tail(s)) = Len(s) - 1
      /\ \A k \in 1..(Len(s) - 1) : Tail(s)[k] = s[k + 1]
  OBVIOUS
<1>2. ASSUME NEW x \in Elems(s) PROVE x \in {Head(s)} \cup Elems(Tail(s))
  <2>1. PICK k \in 1..Len(s) : x = s[k]
    BY DEF Elems
  <2>2. CASE k = 1
    BY <1>1, <2>1, <2>2
  <2>3. CASE k # 1
    <3>1. k - 1 \in 1..(Len(s) - 1) /\ (k - 1) + 1 = k
      BY <1>1, <2>1, <2>3
    <3>2. x = Tail(s)[k - 1]
      BY <1>1, <2>1, <3>1
    <3>. QED
      BY <1>1, <3>1, <3>2 DEF Elems
  <2>. QED
    BY <2>2, <2>3
<1>3. Head(s) \in Elems(s)
  BY <1>1 DEF Elems
<1>4. ASSUME NEW x \in Elems(Tail(s)) PROVE x \in Elems(s)
  <2>1. PICK k \in 1..(Len(s) - 1) : x = s[k + 1]
    BY <1>1 DEF Elems
  <2>2. k + 1 \in 1..Len(s)
    BY <1>1, <2>1
  <2>. QED
    BY <2>1, <2>2 DEF Elems
<1>. QED
  BY <1>1, <1>2, <1>3, <1>4

\* Of a program that stores each token once, the head and the rest share none
\* that is to be stored, and the rest stores each once.
LEMMA OnceTail ==
    ASSUME NEW s \in Seq(Command), s # <<>>, Once(s)
    PROVE  /\ Once(Tail(s))
           /\ \A y \in Elems(Tail(s)) :
                 (Head(s).op = "zadd" \/ y.op = "zadd") => Head(s).jti # y.jti
<1>1. /\ Len(s) \in Nat \ {0} /\ Head(s) = s[1]
      /\ Len(Tail(s)) = Len(s) - 1
      /\ \A k \in 1..(Len(s) - 1) : Tail(s)[k] = s[k + 1] /\ k + 1 \in 1..Len(s) /\ k + 1 # 1
  OBVIOUS
<1>2. Once(Tail(s))
  <2>1. ASSUME NEW k \in 1..(Len(s) - 1), NEW l \in 1..(Len(s) - 1), k # l, Tail(s)[k].op = "zadd"
        PROVE  Tail(s)[l].jti # Tail(s)[k].jti
    <3>1. k + 1 # l + 1
      BY <2>1
    <3>. QED
      BY <1>1, <2>1, <3>1 DEF Once
  <2>. QED
    BY <1>1, <2>1 DEF Once
<1>3. ASSUME NEW y \in Elems(Tail(s)), Head(s).op = "zadd" \/ y.op = "zadd"
      PROVE  Head(s).jti # y.jti
  <2>1. PICK k \in 1..(Len(s) - 1) : y = s[k + 1]
    BY <1>1 DEF Elems
  <2>2. 1 \in 1..Len(s)
    BY <1>1
  <2>. QED
    BY <1>1, <1>3, <2>1, <2>2 DEF Once
<1>. QED
  BY <1>2, <1>3

\* Commands that store nothing may be put before a program that stores each
\* token once, if they are about other tokens than it stores.
LEMMA OnceConcat ==
    ASSUME NEW r \in Seq(Command), NEW t \in Seq(Command), Once(t),
           \A x \in Elems(r) : x.op # "zadd" /\ \A y \in Elems(t) : y.op = "zadd" => x.jti # y.jti
    PROVE  Once(r \o t)
<1>1. /\ Len(r \o t) = Len(r) + Len(t) /\ Len(r) \in Nat /\ Len(t) \in Nat
      /\ \A k \in 1..Len(r) : (r \o t)[k] = r[k]
      /\ \A k \in 1..Len(t) : (r \o t)[Len(r) + k] = t[k]
  OBVIOUS
<1>2. \A k \in 1..Len(r \o t) :
         \/ k \in 1..Len(r) /\ (r \o t)[k] \in Elems(r)
         \/ /\ k > Len(r) /\ k - Len(r) \in 1..Len(t)
            /\ (r \o t)[k] = t[k - Len(r)] /\ (r \o t)[k] \in Elems(t)
  <2>1. ASSUME NEW k \in 1..Len(r \o t), k <= Len(r) PROVE (r \o t)[k] \in Elems(r) /\ k \in 1..Len(r)
    BY <1>1, <2>1 DEF Elems
  <2>2. ASSUME NEW k \in 1..Len(r \o t), k > Len(r)
        PROVE  /\ k - Len(r) \in 1..Len(t) /\ (r \o t)[k] = t[k - Len(r)]
               /\ (r \o t)[k] \in Elems(t)
    <3>1. k - Len(r) \in 1..Len(t) /\ k = Len(r) + (k - Len(r))
      BY <1>1, <2>2
    <3>2. (r \o t)[k] = t[k - Len(r)]
      BY <1>1, <3>1
    <3>. QED
      BY <3>1, <3>2 DEF Elems
  <2>. QED
    BY <1>1, <2>1, <2>2
<1>3. SUFFICES ASSUME NEW k \in 1..Len(r \o t), NEW l \in 1..Len(r \o t), k # l,
                      (r \o t)[k].op = "zadd"
               PROVE  (r \o t)[l].jti # (r \o t)[k].jti
  BY DEF Once
<1>4. /\ k > Len(r) /\ k - Len(r) \in 1..Len(t)
      /\ (r \o t)[k] = t[k - Len(r)] /\ (r \o t)[k] \in Elems(t)
  BY <1>2, <1>3
<1>5. CASE (r \o t)[l] \in Elems(r)
  BY <1>3, <1>4, <1>5
<1>6. CASE l > Len(r) /\ l - Len(r) \in 1..Len(t) /\ (r \o t)[l] = t[l - Len(r)]
  <2>1. k - Len(r) # l - Len(r)
    BY <1>1, <1>3, <1>4, <1>6
  <2>. QED
    BY <1>3, <1>4, <1>6, <2>1 DEF Once
<1>. QED
  BY <1>2, <1>5, <1>6

\* The elements of short programs.
LEMMA ElemsTuple ==
    /\ Elems(<<>>) = {}
    /\ \A a : Elems(<<a>>) = {a}
    /\ \A a, b : Elems(<<a, b>>) = {a, b}
    /\ \A a, b, c : Elems(<<a, b, c>>) = {a, b, c}
<1>1. Elems(<<>>) = {}
  BY DEF Elems
<1>2. ASSUME NEW a PROVE Elems(<<a>>) = {a}
  <2>1. Len(<<a>>) = 1 /\ 1..1 = {1} /\ <<a>>[1] = a
    OBVIOUS
  <2>. QED
    BY <2>1 DEF Elems
<1>3. ASSUME NEW a, NEW b PROVE Elems(<<a, b>>) = {a, b}
  <2>1. Len(<<a, b>>) = 2 /\ 1..2 = {1, 2} /\ <<a, b>>[1] = a /\ <<a, b>>[2] = b
    OBVIOUS
  <2>. QED
    BY <2>1 DEF Elems
<1>4. ASSUME NEW a, NEW b, NEW c PROVE Elems(<<a, b, c>>) = {a, b, c}
  <2>1. /\ Len(<<a, b, c>>) = 3 /\ 1..3 = {1, 2, 3}
        /\ <<a, b, c>>[1] = a /\ <<a, b, c>>[2] = b /\ <<a, b, c>>[3] = c
    OBVIOUS
  <2>. QED
    BY <2>1 DEF Elems
<1>. QED
  BY <1>1, <1>2, <1>3, <1>4

-----------------------------------------------------------------------------
(***************************************************************************)
(* What the commands reply.                                                *)
(***************************************************************************)
PlainOps == {"zadd", "expire_index", "hset", "expire_meta", "sadd", "zrem", "del_meta",
             "zrevrange", "hgetall", "del_index", "setex", "list", "check"}

\* The columns of a command.
LEMMA CommandColumns ==
    \A c \in Command :
        /\ c.jti \in Nat /\ c.n \in Nat /\ c.op \in PlainOps \cup {"expire_black"}
        /\ c.op = "expire_black" => c.exp \in Nat
BY DEF Command, PlainOps

\* ttl is at least a second and covers what is left, up to the longest TTL.
LEMMA TtlBounds ==
    ASSUME clock \in Nat, NEW e \in Nat
    PROVE  /\ Ttl(e) \in Nat \ {0}
           /\ Ttl(e) >= Smaller(BlacklistTtl, e - clock)
BY TokenAssumption DEF Ttl, Smaller, Larger

\* ZREVRANGE returns members of the index.
LEMMA NewestMembers ==
    ASSUME NEW n \in Nat, NEW S \in SUBSET (1..n), NEW s \in Newest(S)
    PROVE  s \in Seq(S) /\ Elems(s) \subseteq S
<1>1. IsFiniteSet(S)
  <2>1. IsFiniteSet(1..n)
    BY FS_Interval
  <2>. QED
    BY <2>1, FS_Subset
<1>2. Cardinality(S) \in Nat
  BY <1>1, FS_CardinalityType
<1>3. s \in [1..Cardinality(S) -> S]
  BY DEF Newest, SetToSeqs
<1>4. s \in Seq(S)
  BY <1>2, <1>3
<1>. QED
  BY <1>4 DEF Elems

\* What the program goes on with after command c.
ReplyOf(c, r) ==
    /\ c.op = "zadd" =>
          /\ \A d \in Elems(r) : /\ d.op \in {"expire_index", "hset", "expire_meta"}
                                 /\ d.jti = c.jti /\ (d.op # "hset" => d.n > 0)
          /\ \A op \in {"expire_index", "expire_meta"} : \E d \in Elems(r) : d.op = op /\ d.jti = c.jti
    /\ c.op = "sadd" =>
          /\ \A d \in Elems(r) : /\ d.op = "expire_black" /\ d.jti = c.jti /\ d.n > 0
                                 /\ d.n >= Smaller(BlacklistTtl, d.exp - clock)
          /\ Elems(r) # {}
    /\ c.op = "zrevrange" =>
          /\ \A d \in Elems(r) :
                \/ d.op \in {"hgetall", "del_meta"} /\ d.jti \in index[Owner(c.jti)].mem
                \/ d.op \in {"del_index", "setex"} /\ d.jti = c.jti
          /\ \E d \in Elems(r) : d.op = "del_index" /\ d.jti = c.jti
    /\ c.op = "hgetall" => \A d \in Elems(r) : d.op = "sadd" /\ d.jti = c.jti
    /\ c.op = "list" => \A d \in Elems(r) : d.op = "check" /\ d.jti \in index[Owner(c.jti)].mem
    /\ c.op = "check" => \A d \in Elems(r) : d.op \in {"zrem", "del_meta"} /\ d.jti = c.jti
    /\ c.op \notin {"zadd", "sadd", "zrevrange", "hgetall", "list", "check"} => Elems(r) = {}

RegistryInv == RegistryTypeOK /\ Minted

\* The replies of a command are programs of that form.
LEMMA ReplyShape ==
    ASSUME RegistryInv, NEW c \in Command, c.jti \in 1..Len(token), NEW r \in Replies(c)
    PROVE  r \in Seq(Command) /\ ReplyOf(c, r)
<1> DEFINE u == token[c.jti].user
<1>t. /\ clock \in Nat /\ Len(token) \in Nat /\ Len(token) <= MaxTokens /\ u \in Users
      /\ token[c.jti].exp \in Nat
      /\ c.jti \in Nat /\ c.n \in Nat
  <2>1. token \in Seq(Token) /\ Len(token) <= MaxTokens /\ clock \in Nat
    BY DEF RegistryInv, RegistryTypeOK
  <2>2. token[c.jti] \in Token
    BY <2>1
  <2>3. c.jti \in Nat /\ c.n \in Nat
    BY CommandColumns
  <2>. QED
    BY <2>1, <2>2, <2>3 DEF Token
<1>m. meta[c.jti].exp \in Nat
  <2>1. c.jti \in Tokens
    BY <1>t, TokenAssumption DEF Tokens
  <2>. QED
    BY <2>1 DEF RegistryInv, RegistryTypeOK
<1>i. index[u].mem \in SUBSET (1..Len(token))
  BY <1>t DEF RegistryInv, Minted
<1>o. Owner(c.jti) = u
  BY DEF Owner
<1>1. CASE c.op = "zadd"
  <2> DEFINE ttl == Ttl(token[c.jti].exp)
             d1 == Cmd("expire_index", c.jti, ttl)
             d2 == Cmd("hset", c.jti, 0)
             d3 == Cmd("expire_meta", c.jti, ttl)
  <2>1. ttl \in Nat \ {0}
    BY <1>t, TtlBounds
  <2>2. r = <<d1, d2, d3>>
    BY <1>1 DEF Replies, AfterZadd
  <2>3. /\ d1 \in Command /\ d1.op = "expire_index" /\ d1.jti = c.jti /\ d1.n = ttl
        /\ d2 \in Command /\ d2.op = "hset" /\ d2.jti = c.jti
        /\ d3 \in Command /\ d3.op = "expire_meta" /\ d3.jti = c.jti /\ d3.n = ttl
    BY <1>t, <2>1 DEF Cmd, Command
  <2> HIDE DEF ttl, d1, d2, d3
  <2>4. r \in Seq(Command) /\ Elems(r) = {d1, d2, d3}
    BY <2>2, <2>3, ElemsTuple
  <2>. QED
    BY <1>1, <2>1, <2>3, <2>4 DEF ReplyOf
<1>2. CASE c.op = "sadd"
  <2> DEFINE d == [op |-> "expire_black", jti |-> c.jti, n |-> Ttl(c.n), exp |-> c.n]
  <2>1. Ttl(c.n) \in Nat \ {0} /\ Ttl(c.n) >= Smaller(BlacklistTtl, c.n - clock)
    BY <1>t, TtlBounds
  <2>2. r = <<d>>
    BY <1>2 DEF Replies, AfterSadd
  <2>3. d \in Command /\ d.op = "expire_black" /\ d.jti = c.jti /\ d.n = Ttl(c.n) /\ d.exp = c.n
    BY <1>t, <2>1 DEF Command
  <2> HIDE DEF d
  <2>4. r \in Seq(Command) /\ Elems(r) = {d}
    BY <2>2, <2>3, ElemsTuple
  <2>. QED
    BY <1>2, <2>1, <2>3, <2>4 DEF ReplyOf
<1>3. CASE c.op = "zrevrange"
  <2>1. PICK s \in Newest(index[u].mem) : r = AfterRange(c.jti, s)
    BY <1>3 DEF Replies
  <2> DEFINE S == index[u].mem
  <2>a. s \in Seq(S)
    <3>1. S \in SUBSET (1..Len(token)) /\ s \in Newest(S) /\ Len(token) \in Nat
      BY <1>t, <1>i, <2>1
    <3> HIDE DEF S
    <3>. QED
      BY <3>1, NewestMembers
  <2>2. s \in Seq(index[u].mem) /\ Len(s) \in Nat
    BY <2>a
  <2> DEFINE each == RevokeEach(s)
             d1 == Cmd("del_index", c.jti, 0)
             d2 == Cmd("setex", c.jti, 0)
  <2>3. \A k \in 1..(2 * Len(s)) : s[(k + 1) \div 2] \in index[u].mem
    <3>1. ASSUME NEW k \in 1..(2 * Len(s)) PROVE (k + 1) \div 2 \in 1..Len(s)
      BY <2>2
    <3>. QED
      BY <2>2, <3>1
  <2>4. \A k \in 1..(2 * Len(s)) : /\ each[k] \in Command /\ each[k].op \in {"hgetall", "del_meta"}
                                   /\ each[k].jti \in index[u].mem
    <3>1. ASSUME NEW k \in 1..(2 * Len(s))
          PROVE  /\ each[k] \in Command /\ each[k].op \in {"hgetall", "del_meta"}
                 /\ each[k].jti \in index[u].mem
      <4> DEFINE op == IF k % 2 = 1 THEN "hgetall" ELSE "del_meta"
                 j == s[(k + 1) \div 2]
      <4>1. each[k] = Cmd(op, j, 0)
        BY DEF RevokeEach
      <4>2. op \in {"hgetall", "del_meta"} /\ j \in Nat /\ j \in index[u].mem
        BY <1>i, <2>3
      <4> HIDE DEF op, j, each
      <4>. QED
        BY <4>1, <4>2 DEF Cmd, Command
    <3>. QED
      BY <3>1
  <2>5. each \in Seq(Command) /\ Len(each) = 2 * Len(s)
    <3>1. each \in [1..(2 * Len(s)) -> Command] /\ 2 * Len(s) \in Nat
      <4>1. each = [k \in 1..(2 * Len(s)) |-> each[k]]
        BY DEF RevokeEach
      <4> HIDE DEF each
      <4>. QED
        BY <2>2, <2>4, <4>1
    <3> HIDE DEF each
    <3>. QED
      BY <3>1
  <2>6. /\ d1 \in Command /\ d1.op = "del_index" /\ d1.jti = c.jti
        /\ d2 \in Command /\ d2.op = "setex" /\ d2.jti = c.jti
    BY <1>t DEF Cmd, Command
  <2>7. r = each \o <<d1, d2>>
    BY <2>1 DEF AfterRange
  <2> HIDE DEF each, d1, d2
  <2>8. <<d1, d2>> \in Seq(Command) /\ Elems(<<d1, d2>>) = {d1, d2}
    BY <2>6, ElemsTuple
  <2>9. r \in Seq(Command) /\ Elems(r) = Elems(each) \cup {d1, d2}
    <3> DEFINE t == <<d1, d2>>
    <3>1. t \in Seq(Command) /\ Elems(t) = {d1, d2} /\ r = each \o t
      BY <2>7, <2>8
    <3> HIDE DEF t
    <3>. QED
      BY <2>5, <3>1, ElemsConcat
  <2>10. \A d \in Elems(each) : d.op \in {"hgetall", "del_meta"} /\ d.jti \in index[u].mem
    BY <2>4, <2>5 DEF Elems
  <2>. QED
    BY <1>3, <1>o, <2>6, <2>9, <2>10 DEF ReplyOf
<1>4. CASE c.op = "hgetall"
  <2> DEFINE d == Cmd("sadd", c.jti, meta[c.jti].exp)
  <2>1. r = <<d>>
    BY <1>4 DEF Replies, BlacklistToken
  <2>2. d \in Command /\ d.op = "sadd" /\ d.jti = c.jti
    BY <1>t, <1>m DEF Cmd, Command
  <2> HIDE DEF d
  <2>3. r \in Seq(Command) /\ Elems(r) = {d}
    BY <2>1, <2>2, ElemsTuple
  <2>. QED
    BY <1>4, <2>2, <2>3 DEF ReplyOf
<1>5. CASE c.op = "list"
  <2>1. PICK s \in Newest(index[u].mem) : r = AfterList(s)
    BY <1>5 DEF Replies
  <2> DEFINE S == index[u].mem
  <2>a. s \in Seq(S)
    <3>1. S \in SUBSET (1..Len(token)) /\ s \in Newest(S) /\ Len(token) \in Nat
      BY <1>t, <1>i, <2>1
    <3> HIDE DEF S
    <3>. QED
      BY <3>1, NewestMembers
  <2>2. s \in Seq(index[u].mem) /\ Len(s) \in Nat /\ DOMAIN s = 1..Len(s)
    BY <2>a
  <2>3. \A k \in 1..Len(s) : r[k] \in Command /\ r[k].op = "check" /\ r[k].jti \in index[u].mem
    <3>1. ASSUME NEW k \in 1..Len(s)
          PROVE  r[k] \in Command /\ r[k].op = "check" /\ r[k].jti \in index[u].mem
      <4>1. r[k] = Cmd("check", s[k], 0)
        BY <2>1, <2>2 DEF AfterList
      <4>2. s[k] \in index[u].mem /\ s[k] \in Nat
        BY <1>i, <2>2
      <4>. QED
        BY <4>1, <4>2 DEF Cmd, Command
    <3>. QED
      BY <3>1
  <2>4. r \in Seq(Command) /\ Len(r) = Len(s)
    <3>1. r \in [1..Len(s) -> Command]
      BY <2>1, <2>2, <2>3 DEF AfterList
    <3>. QED
      BY <2>2, <3>1
  <2>5. \A d \in Elems(r) : d.op = "check" /\ d.jti \in index[u].mem
    BY <2>3, <2>4 DEF Elems
  <2>. QED
    BY <1>5, <1>o, <2>4, <2>5 DEF ReplyOf
<1>6. CASE c.op = "check"
  <2> DEFINE d1 == Cmd("zrem", c.jti, 0)
             d2 == Cmd("del_meta", c.jti, 0)
  <2>1. r = <<d1, d2>> \/ r = <<>>
    BY <1>6 DEF Replies
  <2>2. /\ d1 \in Command /\ d1.op = "zrem" /\ d1.jti = c.jti
        /\ d2 \in Command /\ d2.op = "del_meta" /\ d2.jti = c.jti
    BY <1>t DEF Cmd, Command
  <2> HIDE DEF d1, d2
  <2>a. <<d1, d2>> \in Seq(Command) /\ Elems(<<d1, d2>>) = {d1, d2}
    BY <2>2, ElemsTuple
  <2>b. <<>> \in Seq(Command) /\ Elems(<<>>) = {}
    BY ElemsTuple
  <2>3. r \in Seq(Command) /\ Elems(r) \subseteq {d1, d2}
    BY <2>1, <2>a, <2>b
  <2>. QED
    BY <1>6, <2>2, <2>3 DEF ReplyOf
<1>7. CASE c.op \notin {"zadd", "sadd", "zrevrange", "hgetall", "list", "check"}
  <2>1. r = <<>>
    BY <1>7 DEF Replies
  <2>. QED
    BY <1>7, <2>1, ElemsTuple DEF ReplyOf
<1>. QED
  BY <1>1, <1>2, <1>3, <1>4, <1>5, <1>6, <1>7

-----------------------------------------------------------------------------
(***************************************************************************)
(* The steps: a request begins, sends a command or is cut off; a passkey   *)
(* login hands out a token; an account changes; keys expire.               *)
(***************************************************************************)

\* A token that a client holds or that has a session.
Admitted(j) == j \in 1..Len(token) /\ (j \in held \/ meta[j].there)

\* A request begins: it stores tokens it has minted itself, and reads or
\* revokes sessions of admitted tokens.
Begins(w) ==
    /\ Resting(w)
    /\ token' \in Seq(Token) /\ Len(token) <= Len(token') /\ Len(token') <= MaxTokens
    /\ \A j \in 1..Len(token) : token'[j] = token[j]
    /\ \E todo \in Seq(Command), give \in SUBSET Nat :
          /\ prog' = [prog EXCEPT ![w] = [todo |-> todo, give |-> give, gone |-> {}]]
          /\ give \subseteq (Len(token) + 1)..Len(token')
          /\ Once(todo)
          /\ \A c \in Elems(todo) :
                \/ c.op = "zadd" /\ c.jti \in (Len(token) + 1)..Len(token')
                \/ c.op \in {"zrem", "del_meta", "sadd", "zrevrange", "list"} /\ Admitted(c.jti)
          /\ \A c \in Elems(todo) :
                c.op = "sadd" => \E d \in Elems(todo) : d.op = "zrem" /\ d.jti = c.jti
    /\ calls' = calls + 1
    /\ RedisUnchanged /\ UNCHANGED <<account, held, clock, cuts>>

\* revoke_session removes the session and blacklists the token.
LEMMA RevokeProgram ==
    ASSUME NEW j \in Nat, NEW e \in Nat
    PROVE  LET p == RevokeSession(j, e) IN
           /\ p \in Seq(Command)
           /\ \A c \in Elems(p) : c.op \in {"zrem", "del_meta", "sadd"} /\ c.jti = j
           /\ \E d \in Elems(p) : d.op = "zrem" /\ d.jti = j
           /\ Once(p)
<1> DEFINE d1 == Cmd("zrem", j, 0)
           d2 == Cmd("del_meta", j, 0)
           d3 == Cmd("sadd", j, e)
<1>1. /\ d1 \in Command /\ d1.op = "zrem" /\ d1.jti = j
      /\ d2 \in Command /\ d2.op = "del_meta" /\ d2.jti = j
      /\ d3 \in Command /\ d3.op = "sadd" /\ d3.jti = j
  BY DEF Cmd, Command
<1>2. RevokeSession(j, e) = <<d1, d2>> \o <<d3>>
  BY DEF RevokeSession, BlacklistToken
<1> HIDE DEF d1, d2, d3
<1>3. <<d1, d2>> \in Seq(Command) /\ <<d3>> \in Seq(Command)
  BY <1>1
<1>4. RevokeSession(j, e) \in Seq(Command) /\ Elems(RevokeSession(j, e)) = {d1, d2, d3}
  <2>1. Elems(<<d1, d2>>) = {d1, d2} /\ Elems(<<d3>>) = {d3}
    BY ElemsTuple
  <2> DEFINE x == <<d1, d2>>
             y == <<d3>>
  <2>2. x \in Seq(Command) /\ y \in Seq(Command) /\ RevokeSession(j, e) = x \o y
        /\ Elems(x) \cup Elems(y) = {d1, d2, d3}
    BY <1>2, <1>3, <2>1
  <2> HIDE DEF x, y
  <2>. QED
    BY <2>2, ElemsConcat
<1>5. Once(RevokeSession(j, e))
  <2>1. \A k \in 1..Len(RevokeSession(j, e)) : RevokeSession(j, e)[k] \in {d1, d2, d3}
    BY <1>4 DEF Elems
  <2>. QED
    BY <1>1, <2>1 DEF Once
<1>. QED
  BY <1>1, <1>4, <1>5

\* _issue_tokens stores its two tokens once each.
LEMMA StoreProgram ==
    ASSUME NEW a \in Nat, NEW r \in Nat, a # r
    PROVE  LET p == StoreSession(a) \o StoreSession(r) IN
           /\ p \in Seq(Command)
           /\ \A c \in Elems(p) : c.op = "zadd" /\ c.jti \in {a, r}
           /\ Once(p)
<1> DEFINE d1 == Cmd("zadd", a, 0)
           d2 == Cmd("zadd", r, 0)
           p == StoreSession(a) \o StoreSession(r)
<1>1. /\ d1 \in Command /\ d1.op = "zadd" /\ d1.jti = a
      /\ d2 \in Command /\ d2.op = "zadd" /\ d2.jti = r
  BY DEF Cmd, Command
<1>2. p = <<d1>> \o <<d2>>
  BY DEF StoreSession
<1> HIDE DEF d1, d2, p
<1>3. <<d1>> \in Seq(Command) /\ <<d2>> \in Seq(Command)
  BY <1>1
<1>4. p \in Seq(Command) /\ Elems(p) = {d1, d2}
  <2>1. Elems(<<d1>>) = {d1} /\ Elems(<<d2>>) = {d2}
    BY ElemsTuple
  <2> DEFINE x == <<d1>>
             y == <<d2>>
  <2>2. x \in Seq(Command) /\ y \in Seq(Command) /\ p = x \o y
        /\ Elems(x) \cup Elems(y) = {d1, d2}
    BY <1>2, <1>3, <2>1
  <2> HIDE DEF x, y
  <2>. QED
    BY <2>2, ElemsConcat
<1>5. Once(p)
  <2>1. Len(p) = 2 /\ p[1] = d1 /\ p[2] = d2
    <3> DEFINE x == <<d1>>
               y == <<d2>>
    <3>1. /\ x \in Seq(Command) /\ y \in Seq(Command) /\ p = x \o y
          /\ Len(x) = 1 /\ Len(y) = 1 /\ x[1] = d1 /\ y[1] = d2
      BY <1>2, <1>3
    <3> HIDE DEF x, y
    <3>2. /\ Len(x \o y) = Len(x) + Len(y)
          /\ \A k \in 1..Len(x) : (x \o y)[k] = x[k]
          /\ \A k \in 1..Len(y) : (x \o y)[Len(x) + k] = y[k]
      BY <3>1, ConcatAt
    <3>. QED
      BY <3>1, <3>2
  <2>. QED
    BY <1>1, <2>1 DEF Once
<1>6. \A c \in Elems(p) : c.op = "zadd" /\ c.jti \in {a, r}
  BY <1>1, <1>4
<1>. QED
  BY <1>4, <1>5, <1>6 DEF p

\* Minting adds tokens after those there are.
LEMMA MintTwo ==
    ASSUME RegistryInv, NEW u \in Users, Len(token) + 2 <= MaxTokens,
           token' = token \o <<CreateAccess(u), CreateRefresh(u)>>
    PROVE  /\ token' \in Seq(Token) /\ Len(token') = Len(token) + 2 /\ Len(token) \in Nat
           /\ \A j \in 1..Len(token) : token'[j] = token[j]
<1>1. token \in Seq(Token) /\ clock \in Nat
  BY DEF RegistryInv, RegistryTypeOK
<1> DEFINE t1 == CreateAccess(u)
           t2 == CreateRefresh(u)
<1>2. t1 \in Token /\ t2 \in Token
  BY <1>1, TokenAssumption DEF CreateAccess, CreateRefresh, Mint, Token
<1> HIDE DEF t1, t2
<1>3. token' = token \o <<t1, t2>>
  BY DEF t1, t2
<1>. QED
  BY <1>1, <1>2, <1>3

\* Two tokens are issued.
LEMMA IssueBegins ==
    ASSUME RegistryInv, NEW w \in Processes, NEW u \in Users, IssueTokens(w, u)
    PROVE  Begins(w)
<1> DEFINE a == Len(token) + 1
           r == Len(token) + 2
           todo == StoreSession(a) \o StoreSession(r)
<1>1. /\ token' \in Seq(Token) /\ Len(token') = Len(token) + 2 /\ Len(token) \in Nat
      /\ Len(token') <= MaxTokens
      /\ \A j \in 1..Len(token) : token'[j] = token[j]
  BY MintTwo DEF IssueTokens
<1>2. a \in Nat /\ r \in Nat /\ a # r /\ a \in (Len(token) + 1)..Len(token') /\ r \in (Len(token) + 1)..Len(token')
  BY <1>1
<1>3. /\ todo \in Seq(Command) /\ Once(todo)
      /\ \A c \in Elems(todo) : c.op = "zadd" /\ c.jti \in {a, r}
  BY <1>2, StoreProgram
<1>4. /\ prog' = [prog EXCEPT ![w] = [todo |-> todo, give |-> {a, r}, gone |-> {}]]
      /\ Resting(w) /\ calls' = calls + 1
      /\ RedisUnchanged /\ UNCHANGED <<account, held, clock, cuts>>
  BY DEF IssueTokens, Start
<1> HIDE DEF a, r, todo
<1>5. \A c \in Elems(todo) : c.op = "zadd" /\ c.jti \in (Len(token) + 1)..Len(token')
  BY <1>2, <1>3
<1>6. {a, r} \in SUBSET Nat /\ {a, r} \subseteq (Len(token) + 1)..Len(token')
  BY <1>2
<1>7. \A c \in Elems(todo) : c.op # "sadd"
  BY <1>5
<1>8. Len(token) <= Len(token')
  BY <1>1
<1>9. \E td \in Seq(Command), give \in SUBSET Nat :
          /\ prog' = [prog EXCEPT ![w] = [todo |-> td, give |-> give, gone |-> {}]]
          /\ give \subseteq (Len(token) + 1)..Len(token')
          /\ Once(td)
          /\ \A c \in Elems(td) :
                \/ c.op = "zadd" /\ c.jti \in (Len(token) + 1)..Len(token')
                \/ c.op \in {"zrem", "del_meta", "sadd", "zrevrange", "list"} /\ Admitted(c.jti)
          /\ \A c \in Elems(td) :
                c.op = "sadd" => \E d \in Elems(td) : d.op = "zrem" /\ d.jti = c.jti
  <2> DEFINE g == {a, r}
  <2>1. todo \in Seq(Command) /\ g \in SUBSET Nat
    BY <1>3, <1>6, <1>7
  <2> USE <2>1
  <2> WITNESS todo \in Seq(Command), g \in SUBSET Nat
  <2>. QED
    BY <1>3, <1>4, <1>5, <1>6, <1>7
<1>. QED
  BY <1>1, <1>4, <1>8, <1>9 DEF Begins

\* A refresh token is traded in.
LEMMA RefreshBegins ==
    ASSUME RegistryInv, NEW w \in Processes, NEW j \in 1..Len(token), RefreshTokens(w, j)
    PROVE  Begins(w)
<1> DEFINE u == token[j].user
           e == token[j].exp
           a == Len(token) + 1
           r == Len(token) + 2
           todo == RevokeSession(j, e) \o StoreSession(a) \o StoreSession(r)
<1>0. token[j] \in Token /\ u \in Users /\ e \in Nat
  <2>1. token \in Seq(Token)
    BY DEF RegistryInv, RegistryTypeOK
  <2>2. token[j] \in Token
    BY <2>1
  <2>. QED
    BY <2>2 DEF Token
<1>1. /\ token' \in Seq(Token) /\ Len(token') = Len(token) + 2 /\ Len(token) \in Nat
      /\ Len(token') <= MaxTokens
      /\ \A k \in 1..Len(token) : token'[k] = token[k]
  BY <1>0, MintTwo DEF RefreshTokens
<1>2. /\ a \in Nat /\ r \in Nat /\ a # r /\ j \in Nat /\ j # a /\ j # r
      /\ a \in (Len(token) + 1)..Len(token') /\ r \in (Len(token) + 1)..Len(token')
  BY <1>1
<1>3. /\ todo \in Seq(Command) /\ Once(todo)
      /\ \A c \in Elems(todo) : \/ c.op = "zadd" /\ c.jti \in {a, r}
                                \/ c.op \in {"zrem", "del_meta", "sadd"} /\ c.jti = j
      /\ \E d \in Elems(todo) : d.op = "zrem" /\ d.jti = j
  <2>0. /\ e \in Nat /\ a \in Nat /\ r \in Nat /\ j \in Nat
        /\ a # r /\ j # a /\ j # r
    BY <1>0, <1>2
  <2> HIDE DEF e, a, r
  <2> DEFINE p == todo
             first == RevokeSession(j, e)
             second == StoreSession(a) \o StoreSession(r)
  <2>1. p = first \o second
    <3>1. first \in Seq(Command)
      BY <2>0, RevokeProgram
    <3>2. StoreSession(a) \in Seq(Command) /\ StoreSession(r) \in Seq(Command)
      BY <2>0 DEF StoreSession, Cmd, Command
    <3> HIDE DEF first
    <3>3. \A x, y, z \in Seq(Command) : (x \o y) \o z = x \o (y \o z)
      OBVIOUS
    <3>. QED
      BY <3>1, <3>2, <3>3 DEF first
  <2>2. /\ first \in Seq(Command)
        /\ \A c \in Elems(first) : c.op \in {"zrem", "del_meta", "sadd"} /\ c.jti = j
        /\ \E d \in Elems(first) : d.op = "zrem" /\ d.jti = j
    BY <2>0, RevokeProgram
  <2>3. /\ second \in Seq(Command) /\ Once(second)
        /\ \A c \in Elems(second) : c.op = "zadd" /\ c.jti \in {a, r}
    BY <2>0, StoreProgram
  <2> HIDE DEF first, second, todo
  <2>4. p \in Seq(Command) /\ Elems(p) = Elems(first) \cup Elems(second)
    BY <2>1, <2>2, <2>3, ElemsConcat
  <2>5. Once(p)
    <3>1. \A x \in Elems(first) : x.op # "zadd" /\ \A y \in Elems(second) : y.op = "zadd" => x.jti # y.jti
      BY <2>0, <2>2, <2>3
    <3>. QED
      BY <2>1, <2>2, <2>3, <3>1, OnceConcat
  <2>6. /\ \A c \in Elems(p) : \/ c.op = "zadd" /\ c.jti \in {a, r}
                               \/ c.op \in {"zrem", "del_meta", "sadd"} /\ c.jti = j
        /\ \E d \in Elems(p) : d.op = "zrem" /\ d.jti = j
    BY <2>2, <2>3, <2>4
  <2>. QED
    BY <2>4, <2>5, <2>6
<1>4. /\ prog' = [prog EXCEPT ![w] = [todo |-> todo, give |-> {a, r}, gone |-> {}]]
      /\ Resting(w) /\ calls' = calls + 1
      /\ RedisUnchanged /\ UNCHANGED <<account, held, clock, cuts>>
  BY DEF RefreshTokens, Start
<1>5. Admitted(j)
  BY DEF RefreshTokens, Admitted
<1> HIDE DEF a, r, todo, e, u
<1>6. \A c \in Elems(todo) :
         \/ c.op = "zadd" /\ c.jti \in (Len(token) + 1)..Len(token')
         \/ c.op \in {"zrem", "del_meta", "sadd", "zrevrange", "list"} /\ Admitted(c.jti)
  BY <1>2, <1>3, <1>5
<1>7. {a, r} \in SUBSET Nat /\ {a, r} \subseteq (Len(token) + 1)..Len(token')
  BY <1>2
<1>8. \A c \in Elems(todo) : c.op = "sadd" => \E d \in Elems(todo) : d.op = "zrem" /\ d.jti = c.jti
  BY <1>3
<1>9. Len(token) <= Len(token')
  BY <1>1
<1>10. \E td \in Seq(Command), give \in SUBSET Nat :
          /\ prog' = [prog EXCEPT ![w] = [todo |-> td, give |-> give, gone |-> {}]]
          /\ give \subseteq (Len(token) + 1)..Len(token')
          /\ Once(td)
          /\ \A c \in Elems(td) :
                \/ c.op = "zadd" /\ c.jti \in (Len(token) + 1)..Len(token')
                \/ c.op \in {"zrem", "del_meta", "sadd", "zrevrange", "list"} /\ Admitted(c.jti)
          /\ \A c \in Elems(td) :
                c.op = "sadd" => \E d \in Elems(td) : d.op = "zrem" /\ d.jti = c.jti
  <2> DEFINE g == {a, r}
  <2>1. todo \in Seq(Command) /\ g \in SUBSET Nat
    BY <1>3, <1>6, <1>7
  <2> USE <2>1
  <2> WITNESS todo \in Seq(Command), g \in SUBSET Nat
  <2>. QED
    BY <1>3, <1>4, <1>6, <1>7, <1>8
<1>. QED
  BY <1>1, <1>4, <1>9, <1>10 DEF Begins

\* A request about an admitted token that mints nothing.
LEMMA RequestBegins ==
    ASSUME RegistryInv, NEW w \in Processes, NEW todo \in Seq(Command), Request(w, todo),
           NEW j, Admitted(j), Once(todo),
           \A c \in Elems(todo) : c.op \in {"zrem", "del_meta", "sadd", "zrevrange", "list"} /\ c.jti = j,
           \A c \in Elems(todo) : c.op = "sadd" => \E d \in Elems(todo) : d.op = "zrem" /\ d.jti = c.jti
    PROVE  Begins(w)
<1>1. token' = token /\ token \in Seq(Token) /\ Len(token) <= MaxTokens /\ Len(token) \in Nat
  BY DEF Request, RegistryInv, RegistryTypeOK
<1>2. /\ prog' = [prog EXCEPT ![w] = [todo |-> todo, give |-> {}, gone |-> {}]]
      /\ Resting(w) /\ calls' = calls + 1
      /\ RedisUnchanged /\ UNCHANGED <<account, held, clock, cuts>>
  BY DEF Request, Start
<1>3. {} \in SUBSET Nat /\ {} \subseteq (Len(token) + 1)..Len(token')
  OBVIOUS
<1>4. Len(token) <= Len(token') /\ Len(token') <= MaxTokens /\ token' \in Seq(Token)
  BY <1>1
<1>5. \A c \in Elems(todo) : c.op \in {"zrem", "del_meta", "sadd", "zrevrange", "list"} /\ Admitted(c.jti)
  OBVIOUS
<1>. QED
  BY <1>1, <1>2, <1>3, <1>4, <1>5 DEF Begins

\* A program of one command.
LEMMA SingleProgram ==
    ASSUME NEW op \in {"zrevrange", "list"}, NEW j \in Nat
    PROVE  LET p == <<Cmd(op, j, 0)>> IN
           /\ p \in Seq(Command) /\ Once(p)
           /\ \A c \in Elems(p) : c.op = op /\ c.jti = j
<1> DEFINE d == Cmd(op, j, 0)
<1>1. d \in Command /\ d.op = op /\ d.jti = j
  BY DEF Cmd, Command
<1> HIDE DEF d
<1>2. <<d>> \in Seq(Command) /\ Elems(<<d>>) = {d} /\ Len(<<d>>) = 1
  BY <1>1, ElemsTuple
<1>3. Once(<<d>>)
  BY <1>2 DEF Once
<1>. QED
  BY <1>1, <1>2, <1>3 DEF d

\* Revoking and listing begin a request.
LEMMA RevocationBegins ==
    ASSUME RegistryInv, NEW w \in Processes, NEW j \in 1..Len(token),
           \/ RevokeToken(w, j) \/ RevokeAllTokens(w, j) \/ ListSessionsEndpoint(w, j)
           \/ AdminRevokeSession(w, j) \/ \E a \in 1..Len(token) : RevokeSessionEndpoint(w, a, j)
    PROVE  Begins(w)
<1>0. token[j].exp \in Nat /\ meta[j].exp \in Nat /\ j \in Nat
  <2>1. token \in Seq(Token) /\ Len(token) \in Nat /\ Len(token) <= MaxTokens
    BY DEF RegistryInv, RegistryTypeOK
  <2>2. token[j] \in Token /\ j \in Tokens
    BY <2>1, TokenAssumption DEF Tokens
  <2>3. meta[j].exp \in Nat
    BY <2>2 DEF RegistryInv, RegistryTypeOK
  <2>. QED
    BY <2>2, <2>3 DEF Token
<1>1. ASSUME NEW e \in Nat, Request(w, RevokeSession(j, e)), Admitted(j) PROVE Begins(w)
  <2> DEFINE todo == RevokeSession(j, e)
  <2>1. /\ todo \in Seq(Command) /\ Once(todo)
        /\ \A c \in Elems(todo) : c.op \in {"zrem", "del_meta", "sadd"} /\ c.jti = j
        /\ \E d \in Elems(todo) : d.op = "zrem" /\ d.jti = j
    BY <1>0, RevokeProgram
  <2>2. Request(w, todo)
    BY <1>1
  <2> HIDE DEF todo
  <2>3. /\ \A c \in Elems(todo) : c.op \in {"zrem", "del_meta", "sadd", "zrevrange", "list"} /\ c.jti = j
        /\ \A c \in Elems(todo) : c.op = "sadd" => \E d \in Elems(todo) : d.op = "zrem" /\ d.jti = c.jti
    BY <2>1
  <2>. QED
    BY <1>1, <2>1, <2>2, <2>3, RequestBegins
<1>2. ASSUME NEW op \in {"zrevrange", "list"}, Request(w, <<Cmd(op, j, 0)>>), Admitted(j) PROVE Begins(w)
  <2> DEFINE todo == <<Cmd(op, j, 0)>>
  <2>1. todo \in Seq(Command) /\ Once(todo) /\ \A c \in Elems(todo) : c.op = op /\ c.jti = j
    BY <1>0, SingleProgram
  <2>2. Request(w, todo)
    BY <1>2
  <2> HIDE DEF todo
  <2>3. /\ \A c \in Elems(todo) : c.op \in {"zrem", "del_meta", "sadd", "zrevrange", "list"} /\ c.jti = j
        /\ \A c \in Elems(todo) : c.op # "sadd"
    BY <2>1
  <2>. QED
    BY <1>2, <2>1, <2>2, <2>3, RequestBegins
<1>3. CASE RevokeToken(w, j)
  BY <1>0, <1>1, <1>3 DEF RevokeToken, Accepted, Admitted
<1>4. CASE RevokeAllTokens(w, j)
  BY <1>2, <1>4 DEF RevokeAllTokens, RevokeAllSessions, Accepted, Admitted
<1>5. CASE ListSessionsEndpoint(w, j)
  BY <1>2, <1>5 DEF ListSessionsEndpoint, ListSessions, Accepted, Admitted
<1>6. CASE AdminRevokeSession(w, j) \/ \E a \in 1..Len(token) : RevokeSessionEndpoint(w, a, j)
  <2>1. GetSession(j) # Null /\ Request(w, RevokeSession(j, GetSession(j).expires_at))
    BY <1>6 DEF AdminRevokeSession, RevokeSessionEndpoint
  <2>2. meta[j].there /\ GetSession(j).expires_at = meta[j].exp
    BY <2>1 DEF GetSession
  <2>. QED
    BY <1>0, <1>1, <2>1, <2>2 DEF Admitted
<1>. QED
  BY <1>3, <1>4, <1>5, <1>6

\* Every step is of one of these kinds.
LEMMA RegistrySteps ==
    ASSUME RegistryInv, [RegistryNext]_registryVars
    PROVE  \/ \E w \in Processes : Begins(w) \/ Execute(w) \/ Cut(w)
           \/ \E w \in Processes, u \in Users : WebAuthnLogin(w, u)
           \/ \E u \in Users, st \in {"active", "inactive", "deleted"} : SetAccount(u, st)
           \/ Expiry
           \/ UNCHANGED registryVars
<1>1. ASSUME NEW w \in Processes, NEW u \in Users,
             IssueTokens(w, u) \/ LoginWithTotp(w, u) \/ VerifyMagicLink(w, u)
      PROVE  Begins(w)
  BY <1>1, IssueBegins DEF LoginWithTotp, VerifyMagicLink
<1>2. ASSUME NEW w \in Processes, NEW j \in 1..Len(token),
             \/ RefreshTokens(w, j)
             \/ RevokeToken(w, j) \/ RevokeAllTokens(w, j)
             \/ ListSessionsEndpoint(w, j) \/ AdminRevokeSession(w, j)
             \/ \E a \in 1..Len(token) : RevokeSessionEndpoint(w, a, j)
      PROVE  Begins(w)
  BY <1>2, RefreshBegins, RevocationBegins
<1>. QED
  BY <1>1, <1>2 DEF RegistryNext

\* A hash that is written gets its TTL later in the same program.
LEMMA FollowTail ==
    ASSUME NEW s \in Seq(Command), s # <<>>, Follow(s)
    PROVE  /\ Follow(Tail(s))
           /\ Head(s).op = "hset" =>
                 \E d \in Elems(Tail(s)) : d.op = "expire_meta" /\ d.jti = Head(s).jti
<1>1. /\ Len(s) \in Nat \ {0} /\ Head(s) = s[1]
      /\ Len(Tail(s)) = Len(s) - 1
      /\ \A k \in 1..(Len(s) - 1) : Tail(s)[k] = s[k + 1] /\ k + 1 \in 1..Len(s)
  OBVIOUS
<1>2. ASSUME NEW k \in 1..Len(s), s[k].op = "hset"
      PROVE  \E m \in 1..(Len(s) - 1) :
                m + 1 > k /\ Tail(s)[m].op = "expire_meta" /\ Tail(s)[m].jti = s[k].jti
  <2>1. PICK l \in 1..Len(s) : l > k /\ s[l].op = "expire_meta" /\ s[l].jti = s[k].jti
    BY <1>2 DEF Follow
  <2>2. l - 1 \in 1..(Len(s) - 1) /\ (l - 1) + 1 = l
    BY <1>1, <2>1
  <2>3. Tail(s)[l - 1] = s[l]
    BY <1>1, <2>2
  <2>. QED
    BY <2>1, <2>2, <2>3
<1>3. Follow(Tail(s))
  <2>1. ASSUME NEW k \in 1..(Len(s) - 1), Tail(s)[k].op = "hset"
        PROVE  \E m \in 1..(Len(s) - 1) :
                  m > k /\ Tail(s)[m].op = "expire_meta" /\ Tail(s)[m].jti = Tail(s)[k].jti
    <3>1. k + 1 \in 1..Len(s) /\ s[k + 1] = Tail(s)[k]
      BY <1>1
    <3>2. PICK m \in 1..(Len(s) - 1) :
             m + 1 > k + 1 /\ Tail(s)[m].op = "expire_meta" /\ Tail(s)[m].jti = s[k + 1].jti
      BY <1>2, <2>1, <3>1
    <3>. QED
      BY <3>1, <3>2
  <2>. QED
    BY <1>1, <2>1 DEF Follow
<1>4. ASSUME Head(s).op = "hset"
      PROVE  \E d \in Elems(Tail(s)) : d.op = "expire_meta" /\ d.jti = Head(s).jti
  <2>1. 1 \in 1..Len(s)
    BY <1>1
  <2>2. PICK m \in 1..(Len(s) - 1) : Tail(s)[m].op = "expire_meta" /\ Tail(s)[m].jti = s[1].jti
    BY <1>1, <1>2, <1>4, <2>1
  <2>3. Tail(s)[m] \in Elems(Tail(s))
    BY <1>1 DEF Elems
  <2>. QED
    BY <1>1, <2>2, <2>3
<1>. QED
  BY <1>3, <1>4

\* Two such programs one after the other are such a program.
LEMMA FollowConcat ==
    ASSUME NEW r \in Seq(Command), NEW t \in Seq(Command), Follow(r), Follow(t)
    PROVE  Follow(r \o t)
<1>1. /\ Len(r \o t) = Len(r) + Len(t) /\ Len(r) \in Nat /\ Len(t) \in Nat
      /\ \A k \in 1..Len(r) : (r \o t)[k] = r[k]
      /\ \A k \in 1..Len(t) : (r \o t)[Len(r) + k] = t[k]
  BY ConcatAt
<1>2. SUFFICES ASSUME NEW k \in 1..Len(r \o t), (r \o t)[k].op = "hset"
               PROVE  \E l \in 1..Len(r \o t) : /\ l > k /\ (r \o t)[l].op = "expire_meta"
                                                /\ (r \o t)[l].jti = (r \o t)[k].jti
  BY DEF Follow
<1>3. CASE k <= Len(r)
  <2>1. k \in 1..Len(r) /\ (r \o t)[k] = r[k]
    BY <1>1, <1>3
  <2>2. PICK l \in 1..Len(r) : l > k /\ r[l].op = "expire_meta" /\ r[l].jti = r[k].jti
    BY <1>2, <2>1 DEF Follow
  <2>3. l \in 1..Len(r \o t) /\ (r \o t)[l] = r[l]
    BY <1>1
  <2>. QED
    BY <2>1, <2>2, <2>3
<1>4. CASE k > Len(r)
  <2> DEFINE i == k - Len(r)
  <2>1. i \in 1..Len(t) /\ k = Len(r) + i
    BY <1>1, <1>4
  <2>2. (r \o t)[k] = t[i]
    BY <1>1, <2>1
  <2> HIDE DEF i
  <2>3. PICK l \in 1..Len(t) : l > i /\ t[l].op = "expire_meta" /\ t[l].jti = t[i].jti
    BY <1>2, <2>1, <2>2 DEF Follow
  <2>4. Len(r) + l \in 1..Len(r \o t) /\ (r \o t)[Len(r) + l] = t[l] /\ Len(r) + l > k
    BY <1>1, <2>1, <2>3
  <2>. QED
    BY <2>2, <2>3, <2>4
<1>. QED
  BY <1>1, <1>3, <1>4

\* A program that writes no hash.
LEMMA FollowNoHset ==
    ASSUME NEW s, \A c \in Elems(s) : c.op # "hset"
    PROVE  Follow(s)
BY DEF Follow, Elems

\* Only a ZADD's reply writes a hash, and it sets the TTL afterwards.
LEMMA ReplyFollows ==
    ASSUME RegistryInv, NEW c \in Command, c.jti \in 1..Len(token), NEW r \in Replies(c)
    PROVE  Follow(r)
<1>1. r \in Seq(Command) /\ ReplyOf(c, r)
  BY ReplyShape
<1>2. CASE c.op = "zadd"
  <2> DEFINE d1 == Cmd("expire_index", c.jti, Ttl(token[c.jti].exp))
             d2 == Cmd("hset", c.jti, 0)
             d3 == Cmd("expire_meta", c.jti, Ttl(token[c.jti].exp))
  <2>1. r = <<d1, d2, d3>>
    BY <1>2 DEF Replies, AfterZadd
  <2>2. d1.op = "expire_index" /\ d2.op = "hset" /\ d2.jti = c.jti /\ d3.op = "expire_meta" /\ d3.jti = c.jti
    BY DEF Cmd
  <2> HIDE DEF d1, d2, d3
  <2>3. Len(r) = 3 /\ 1..3 = {1, 2, 3} /\ r[1] = d1 /\ r[2] = d2 /\ r[3] = d3
    BY <2>1
  <2>. QED
    BY <2>2, <2>3 DEF Follow
<1>3. CASE c.op # "zadd"
  <2>1. \A d \in Elems(r) : d.op # "hset"
    BY <1>1, <1>3 DEF ReplyOf
  <2>. QED
    BY <2>1, FollowNoHset
<1>. QED
  BY <1>2, <1>3

-----------------------------------------------------------------------------
(***************************************************************************)
(* One command sent, and what it does to programs and keys.                *)
(***************************************************************************)
\* The token whose revocation command c completes.
NowGone(c) == IF c.op = "expire_black" THEN {c.jti} ELSE {}

\* Worker w sends c, whose reply is r, and is left with r and the rest t.
Sends(w, c, r, t) ==
    /\ prog[w].todo # <<>> /\ c = Head(prog[w].todo) /\ t = Tail(prog[w].todo)
    /\ c \in Command /\ c.jti \in 1..Len(token)
    /\ r \in Seq(Command) /\ t \in Seq(Command) /\ ReplyOf(c, r) /\ Follow(r)
    /\ Cmds(w) = {c} \cup Elems(t)
    /\ Effect(c) /\ Revocation(c)
    /\ prog' \in [Processes -> [todo : Seq(Command), give : SUBSET Nat, gone : SUBSET Nat]]
    /\ prog'[w].todo = r \o t /\ Elems(prog'[w].todo) = Elems(r) \cup Elems(t)
    /\ prog'[w].give \subseteq prog[w].give
    /\ \/ /\ Elems(r) = {} /\ Elems(t) = {}
          /\ prog'[w].gone = {}
          /\ held' = held \cup prog[w].give
          /\ revoked' = revoked \cup prog[w].gone \cup NowGone(c)
       \/ /\ prog'[w].gone = prog[w].gone \cup NowGone(c)
          /\ UNCHANGED <<held, revoked>>
    /\ \A v \in Processes : v # w => prog'[v] = prog[v]
    /\ UNCHANGED <<account, token, clock, calls, cuts>>

\* Execute is such a step.
LEMMA ExecuteSends ==
    ASSUME RegistryInv, NEW w \in Processes, Execute(w)
    PROVE  \E c, r, t : Sends(w, c, r, t)
<1> DEFINE s == prog[w].todo
           c == Head(s)
           t == Tail(s)
           P == [todo : Seq(Command), give : SUBSET Nat, gone : SUBSET Nat]
<1>1. prog \in [Processes -> P] /\ prog[w] \in P /\ s \in Seq(Command) /\ s # <<>>
  BY DEF RegistryInv, RegistryTypeOK, Execute
<1>2. c \in Command /\ t \in Seq(Command) /\ Elems(s) = {c} \cup Elems(t)
  <2>1. s \in Seq(Command) /\ s # <<>>
    BY <1>1
  <2> HIDE DEF s
  <2>. QED
    BY <2>1, ElemsHead
<1>3. Cmds(w) = {c} \cup Elems(t)
  BY <1>2 DEF Cmds
<1>4. c.jti \in 1..Len(token) /\ c.jti \in Nat
  BY <1>2, <1>3, CommandColumns DEF RegistryInv, Minted
<1>5. PICK r \in Replies(c) :
         LET rest == r \o t IN
         \/ /\ rest = <<>>
            /\ prog' = [prog EXCEPT ![w] = NoProg]
            /\ held' = held \cup prog[w].give
            /\ revoked' = revoked \cup (prog[w].gone \cup NowGone(c))
         \/ /\ rest # <<>>
            /\ prog' = [prog EXCEPT ![w].todo = rest, ![w].gone = prog[w].gone \cup NowGone(c)]
            /\ UNCHANGED <<held, revoked>>
  BY DEF Execute, NowGone
<1>6. Effect(c) /\ Revocation(c) /\ UNCHANGED <<account, token, clock, calls, cuts>>
  BY DEF Execute
<1>7. r \in Seq(Command) /\ ReplyOf(c, r) /\ Follow(r)
  BY <1>2, <1>4, <1>5, ReplyShape, ReplyFollows
<1>8. r \o t \in Seq(Command) /\ Elems(r \o t) = Elems(r) \cup Elems(t)
  <2>1. r \in Seq(Command) /\ t \in Seq(Command)
    BY <1>2, <1>7
  <2> HIDE DEF t
  <2>. QED
    BY <2>1, ElemsConcat
<1>9. c = Head(prog[w].todo) /\ t = Tail(prog[w].todo) /\ prog[w].todo # <<>>
  BY <1>1
<1>10. NowGone(c) \in SUBSET Nat
  BY <1>4 DEF NowGone
<1> HIDE DEF s, c, t, P
<1>11. CASE /\ r \o t = <<>>
            /\ prog' = [prog EXCEPT ![w] = NoProg]
            /\ held' = held \cup prog[w].give
            /\ revoked' = revoked \cup (prog[w].gone \cup NowGone(c))
  <2>1. <<>> \in Seq(Command) /\ Elems(<<>>) = {}
    BY ElemsTuple
  <2>2. NoProg \in P /\ NoProg.todo = <<>> /\ NoProg.give = {} /\ NoProg.gone = {}
    BY <2>1 DEF NoProg, P
  <2>3. prog' \in [Processes -> P] /\ prog'[w] = NoProg /\ \A v \in Processes : v # w => prog'[v] = prog[v]
    BY <1>1, <1>11, <2>2
  <2>4. Elems(r) = {} /\ Elems(t) = {}
    BY <1>8, <1>11, <2>1
  <2>5. prog'[w].todo = r \o t /\ prog'[w].give \subseteq prog[w].give /\ prog'[w].gone = {}
    BY <1>11, <2>2, <2>3
  <2>6. /\ held' = held \cup prog[w].give
        /\ revoked' = revoked \cup prog[w].gone \cup NowGone(c)
    BY <1>11
  <2>7. Sends(w, c, r, t)
    BY <1>2, <1>3, <1>4, <1>6, <1>7, <1>8, <1>9, <2>3, <2>4, <2>5, <2>6 DEF Sends, P
  <2>. QED
    BY <2>7
<1>12. CASE /\ prog' = [prog EXCEPT ![w].todo = r \o t, ![w].gone = prog[w].gone \cup NowGone(c)]
            /\ UNCHANGED <<held, revoked>>
  <2> DEFINE q == [prog[w] EXCEPT !.todo = r \o t, !.gone = prog[w].gone \cup NowGone(c)]
  <2>1. /\ q \in P /\ q.todo = r \o t /\ q.give = prog[w].give
        /\ q.gone = prog[w].gone \cup NowGone(c)
    BY <1>1, <1>8, <1>10 DEF P
  <2>2. prog' = [prog EXCEPT ![w] = q]
    BY <1>1, <1>12
  <2> HIDE DEF q
  <2>3. prog' \in [Processes -> P] /\ prog'[w] = q /\ \A v \in Processes : v # w => prog'[v] = prog[v]
    BY <1>1, <2>1, <2>2
  <2>4. /\ prog'[w].todo = r \o t /\ prog'[w].give \subseteq prog[w].give
        /\ prog'[w].gone = prog[w].gone \cup NowGone(c)
    BY <2>1, <2>3
  <2>5. Sends(w, c, r, t)
    BY <1>2, <1>3, <1>4, <1>6, <1>7, <1>8, <1>9, <1>12, <2>3, <2>4 DEF Sends, P
  <2>. QED
    BY <2>5
<1>. QED
  BY <1>5, <1>11, <1>12

\* What a command does to the keys of its user and to the hash of its token.
EffectOn(c) ==
    LET u == Owner(c.jti)
        j == c.jti
    IN
    /\ \A x \in Users : x # u => black'[x] = black[x] /\ index'[x] = index[x]
    /\ black'[u].mem = black[u].mem \cup (IF c.op = "sadd" THEN {[jti |-> j, exp |-> c.n]} ELSE {})
    /\ black'[u].until = IF c.op = "expire_black" /\ black[u].mem # {} THEN clock + c.n ELSE black[u].until
    /\ index'[u].mem = CASE c.op = "zadd" -> index[u].mem \cup {j}
                         [] c.op = "zrem" -> index[u].mem \ {j}
                         [] c.op = "del_index" -> {}
                         [] OTHER -> index[u].mem
    /\ index'[u].mem # {} =>
          index'[u].until = IF c.op = "expire_index" THEN clock + c.n ELSE index[u].until
    /\ \A i \in Tokens : i # j => meta'[i] = meta[i]
    /\ meta'[j].there = ((meta[j].there \/ c.op = "hset") /\ c.op # "del_meta")
    /\ meta'[j].there =>
          meta'[j].until = IF c.op = "expire_meta" THEN clock + c.n ELSE meta[j].until

\* Redis does what EffectOn says and keeps the types.
LEMMA EffectShape ==
    ASSUME RegistryTypeOK, NEW c \in Command, c.jti \in 1..Len(token), Effect(c)
    PROVE  /\ black' \in [Users -> [mem : SUBSET [jti : Nat, exp : Nat], until : Int]]
           /\ index' \in [Users -> [mem : SUBSET Nat, until : Int]]
           /\ meta' \in [Tokens -> [exp : Nat, until : Int, there : BOOLEAN]]
           /\ marker' \in [Users -> Nat \cup {Null}]
           /\ EffectOn(c)
<1> DEFINE u == token[c.jti].user
           j == c.jti
           B == [mem : SUBSET [jti : Nat, exp : Nat], until : Int]
           I == [mem : SUBSET Nat, until : Int]
           M == [exp : Nat, until : Int, there : BOOLEAN]
           end == clock + c.n
<1>t. /\ u \in Users /\ u = Owner(c.jti) /\ token[j].exp \in Nat /\ j \in Tokens /\ j \in Nat
      /\ c.n \in Nat /\ clock \in Nat
  <2>1. token \in Seq(Token) /\ Len(token) \in Nat /\ Len(token) <= MaxTokens /\ clock \in Nat
    BY DEF RegistryTypeOK
  <2>2. token[j] \in Token
    BY <2>1
  <2>3. j \in Tokens
    BY <2>1, TokenAssumption DEF Tokens
  <2>. QED
    BY <2>1, <2>2, <2>3, CommandColumns DEF Token, Owner
<1>v. /\ black \in [Users -> B] /\ index \in [Users -> I] /\ meta \in [Tokens -> M]
      /\ marker \in [Users -> Nat \cup {Null}]
  BY DEF RegistryTypeOK
<1>n. NoKey \in I /\ NoKey.mem = {} /\ NoMeta \in M /\ ~NoMeta.there
  BY DEF NoKey, NoMeta, Forever
<1>1. /\ black' \in [Users -> B]
      /\ \A x \in Users : x # u => black'[x] = black[x]
      /\ black'[u].mem = black[u].mem \cup (IF c.op = "sadd" THEN {[jti |-> j, exp |-> c.n]} ELSE {})
      /\ black'[u].until = IF c.op = "expire_black" /\ black[u].mem # {} THEN clock + c.n ELSE black[u].until
  <2>1. CASE c.op = "sadd"
    <3> DEFINE m == [jti |-> j, exp |-> c.n]
               q == [black[u] EXCEPT !.mem = @ \cup {m}]
    <3>1. m \in [jti : Nat, exp : Nat]
      BY <1>t
    <3> HIDE DEF m
    <3>2. q \in B /\ q.mem = black[u].mem \cup {m} /\ q.until = black[u].until
      BY <1>t, <1>v, <3>1
    <3>3. black' = [black EXCEPT ![u] = q]
      BY <1>t, <1>v, <2>1 DEF Effect, KeyAdd, m
    <3> HIDE DEF q
    <3>. QED
      BY <1>t, <1>v, <2>1, <3>2, <3>3 DEF m
  <2>2. CASE c.op = "expire_black"
    <3> DEFINE q == Expire(black[u], c.n)
    <3>1. q \in B /\ q.mem = black[u].mem /\ q.until = IF black[u].mem # {} THEN clock + c.n ELSE black[u].until
      <4>1. end \in Int /\ q = Expire(black[u], c.n) /\ black[u] \in B
        BY <1>t, <1>v
      <4>2. q = IF black[u].mem = {} THEN black[u] ELSE [black[u] EXCEPT !.until = end]
        BY DEF Expire
      <4> HIDE DEF end, q
      <4>3. q \in B /\ q.mem = black[u].mem /\ q.until = IF black[u].mem # {} THEN end ELSE black[u].until
        BY <4>1, <4>2
      <4>. QED
        BY <4>3 DEF end
    <3>2. black' = [black EXCEPT ![u] = q]
      BY <1>t, <1>v, <2>2 DEF Effect
    <3> HIDE DEF q
    <3>. QED
      BY <1>t, <1>v, <2>2, <3>1, <3>2
  <2>3. CASE c.op \notin {"sadd", "expire_black"}
    BY <1>t, <1>v, <2>3 DEF Effect
  <2>. QED
    BY <2>1, <2>2, <2>3
<1>2. /\ index' \in [Users -> I]
      /\ \A x \in Users : x # u => index'[x] = index[x]
      /\ index'[u].mem = CASE c.op = "zadd" -> index[u].mem \cup {j}
                           [] c.op = "zrem" -> index[u].mem \ {j}
                           [] c.op = "del_index" -> {}
                           [] OTHER -> index[u].mem
      /\ index'[u].mem # {} =>
            index'[u].until = IF c.op = "expire_index" THEN clock + c.n ELSE index[u].until
  <2>1. CASE c.op = "zadd"
    <3> DEFINE q == KeyAdd(index[u], j)
    <3>1. q \in I /\ q.mem = index[u].mem \cup {j} /\ q.until = index[u].until
      BY <1>t, <1>v DEF KeyAdd
    <3>2. index' = [index EXCEPT ![u] = q]
      BY <1>t, <1>v, <2>1 DEF Effect
    <3> HIDE DEF q
    <3>. QED
      BY <1>t, <1>v, <2>1, <3>1, <3>2
  <2>2. CASE c.op = "expire_index"
    <3> DEFINE q == Expire(index[u], c.n)
    <3>1. q \in I /\ q.mem = index[u].mem /\ (q.mem # {} => q.until = clock + c.n)
      <4>1. end \in Int /\ q = Expire(index[u], c.n) /\ index[u] \in I
        BY <1>t, <1>v
      <4>2. q = IF index[u].mem = {} THEN index[u] ELSE [index[u] EXCEPT !.until = end]
        BY DEF Expire
      <4> HIDE DEF end, q
      <4>3. q \in I /\ q.mem = index[u].mem /\ q.until = IF index[u].mem # {} THEN end ELSE index[u].until
        BY <4>1, <4>2
      <4>. QED
        BY <4>3 DEF end
    <3>2. index' = [index EXCEPT ![u] = q]
      BY <1>t, <1>v, <2>2 DEF Effect
    <3> HIDE DEF q
    <3>. QED
      BY <1>t, <1>v, <2>2, <3>1, <3>2
  <2>3. CASE c.op = "zrem"
    <3> DEFINE q == KeyRemove(index[u], j)
    <3>1. q \in I /\ q.mem = index[u].mem \ {j} /\ (q.mem # {} => q.until = index[u].until)
      <4>1. CASE index[u].mem \subseteq {j}
        BY <1>n, <4>1 DEF KeyRemove
      <4>2. CASE ~(index[u].mem \subseteq {j})
        BY <1>t, <1>v, <4>2 DEF KeyRemove
      <4>. QED
        BY <4>1, <4>2
    <3>2. index' = [index EXCEPT ![u] = q]
      BY <1>t, <1>v, <2>3 DEF Effect
    <3> HIDE DEF q
    <3>. QED
      BY <1>t, <1>v, <2>3, <3>1, <3>2
  <2>4. CASE c.op = "del_index"
    BY <1>t, <1>v, <1>n, <2>4 DEF Effect
  <2>5. CASE c.op \notin {"zadd", "expire_index", "zrem", "del_index"}
    BY <1>t, <1>v, <2>5 DEF Effect
  <2>. QED
    BY <2>1, <2>2, <2>3, <2>4, <2>5
<1>3. /\ meta' \in [Tokens -> M]
      /\ \A i \in Tokens : i # j => meta'[i] = meta[i]
      /\ meta'[j].there = ((meta[j].there \/ c.op = "hset") /\ c.op # "del_meta")
      /\ meta'[j].there =>
            meta'[j].until = IF c.op = "expire_meta" THEN clock + c.n ELSE meta[j].until
  <2>1. CASE c.op = "hset"
    <3> DEFINE q == [meta[j] EXCEPT !.exp = token[j].exp, !.there = TRUE]
    <3>1. q \in M /\ q.there = TRUE /\ q.until = meta[j].until
      BY <1>t, <1>v
    <3>2. meta' = [meta EXCEPT ![j] = q]
      BY <1>t, <1>v, <2>1 DEF Effect
    <3> HIDE DEF q
    <3>. QED
      BY <1>t, <1>v, <2>1, <3>1, <3>2
  <2>2. CASE c.op = "expire_meta" /\ meta[j].there
    <3> DEFINE q == [meta[j] EXCEPT !.until = clock + c.n]
    <3>1. q \in M /\ q.there = meta[j].there /\ q.until = clock + c.n
      <4>1. end \in Int /\ q = [meta[j] EXCEPT !.until = end] /\ meta[j] \in M
        BY <1>t, <1>v
      <4> HIDE DEF end, q
      <4>2. q \in M /\ q.there = meta[j].there /\ q.until = end
        BY <4>1
      <4>. QED
        BY <4>2 DEF end
    <3>2. meta' = [meta EXCEPT ![j] = q]
      BY <1>t, <1>v, <2>2 DEF Effect
    <3> HIDE DEF q
    <3>. QED
      BY <1>t, <1>v, <2>2, <3>1, <3>2
  <2>3. CASE c.op = "del_meta"
    BY <1>t, <1>v, <1>n, <2>3 DEF Effect
  <2>4. CASE c.op \notin {"hset", "del_meta"} /\ ~(c.op = "expire_meta" /\ meta[j].there)
    BY <1>t, <1>v, <2>4 DEF Effect
  <2>. QED
    BY <2>1, <2>2, <2>3, <2>4
<1>4. marker' \in [Users -> Nat \cup {Null}]
  BY <1>t, <1>v DEF Effect
<1>. QED
  BY <1>t, <1>1, <1>2, <1>3, <1>4 DEF EffectOn

-----------------------------------------------------------------------------
(***************************************************************************)
(* Types, and that what is recorded is about minted tokens, step by step.  *)
(***************************************************************************)
ProgType == [todo : Seq(Command), give : SUBSET Nat, gone : SUBSET Nat]

\* A request that has not begun has nothing to send.
LEMMA RestingEmpty ==
    ASSUME NEW w, Resting(w)
    PROVE  /\ prog[w].todo = <<>> /\ prog[w].give = {} /\ prog[w].gone = {}
           /\ Cmds(w) = {}
<1>1. prog[w].todo = <<>> /\ prog[w].give = {} /\ prog[w].gone = {}
  BY DEF Resting, NoProg
<1>. QED
  BY <1>1, ElemsTuple DEF Cmds

\* A request that begins keeps types and mints before it records.
LEMMA BeginsRegistry ==
    ASSUME RegistryInv, NEW w \in Processes, Begins(w)
    PROVE  RegistryInv'
<1>1. PICK todo \in Seq(Command), give \in SUBSET Nat :
          /\ prog' = [prog EXCEPT ![w] = [todo |-> todo, give |-> give, gone |-> {}]]
          /\ give \subseteq (Len(token) + 1)..Len(token')
          /\ \A c \in Elems(todo) :
                \/ c.op = "zadd" /\ c.jti \in (Len(token) + 1)..Len(token')
                \/ c.op \in {"zrem", "del_meta", "sadd", "zrevrange", "list"} /\ Admitted(c.jti)
  BY DEF Begins
<1>2. /\ token \in Seq(Token) /\ Len(token) \in Nat
      /\ token' \in Seq(Token) /\ Len(token') \in Nat
      /\ Len(token) <= Len(token') /\ Len(token') <= MaxTokens
      /\ \A j \in 1..Len(token) : token'[j] = token[j] /\ j \in 1..Len(token')
  BY DEF Begins, RegistryInv, RegistryTypeOK
<1>3. /\ prog' \in [Processes -> ProgType]
      /\ prog'[w].todo = todo /\ prog'[w].give = give /\ prog'[w].gone = {}
      /\ \A v \in Processes : v # w => prog'[v] = prog[v]
  <2> DEFINE q == [todo |-> todo, give |-> give, gone |-> {}]
  <2>1. q \in ProgType /\ q.todo = todo /\ q.give = give /\ q.gone = {}
    BY DEF ProgType
  <2>2. prog' = [prog EXCEPT ![w] = q]
    BY <1>1
  <2>3. prog \in [Processes -> ProgType]
    BY DEF RegistryInv, RegistryTypeOK, ProgType
  <2> HIDE DEF q
  <2>. QED
    BY <2>1, <2>2, <2>3
<1>4. /\ RedisUnchanged /\ UNCHANGED <<account, held, clock, cuts>> /\ calls' = calls + 1
  BY DEF Begins
<1>5. RegistryTypeOK'
  BY <1>2, <1>3, <1>4 DEF RegistryInv, RegistryTypeOK, RedisUnchanged, ProgType
<1>6. Minted'
  <2>1. \A u \in Users : \A j \in index'[u].mem : j \in 1..Len(token') /\ token'[j].user = u
    BY <1>2, <1>4 DEF RegistryInv, Minted, RedisUnchanged, Owner
  <2>2. \A j \in Tokens : meta'[j].there => j <= Len(token')
    BY <1>2, <1>4 DEF RegistryInv, Minted, RedisUnchanged, Tokens
  <2>3. revoked' \subseteq 1..Len(token')
    BY <1>2, <1>4 DEF RegistryInv, Minted, RedisUnchanged
  <2>4. ASSUME NEW v \in Processes
        PROVE  /\ \A c \in Elems(prog'[v].todo) : c.jti \in 1..Len(token')
               /\ prog'[v].give \subseteq 1..Len(token')
               /\ prog'[v].gone \subseteq 1..Len(token')
    <3>1. CASE v = w
      <4>1. \A c \in Elems(todo) : c.jti \in 1..Len(token')
        BY <1>1, <1>2 DEF Admitted
      <4>2. give \subseteq 1..Len(token')
        BY <1>1, <1>2
      <4>. QED
        BY <1>3, <3>1, <4>1, <4>2
    <3>2. CASE v # w
      BY <1>2, <1>3, <3>2 DEF RegistryInv, Minted, Cmds
    <3>. QED
      BY <3>1, <3>2
  <2>. QED
    BY <2>1, <2>2, <2>3, <2>4 DEF Minted, Cmds, Owner
<1>. QED
  BY <1>5, <1>6 DEF RegistryInv

\* A command keeps types and is about minted tokens.
LEMMA SendsRegistry ==
    ASSUME RegistryInv, NEW w \in Processes, NEW c, NEW r, NEW t, Sends(w, c, r, t)
    PROVE  RegistryInv'
<1>1. /\ black' \in [Users -> [mem : SUBSET [jti : Nat, exp : Nat], until : Int]]
      /\ index' \in [Users -> [mem : SUBSET Nat, until : Int]]
      /\ meta' \in [Tokens -> [exp : Nat, until : Int, there : BOOLEAN]]
      /\ marker' \in [Users -> Nat \cup {Null}]
      /\ EffectOn(c)
  BY EffectShape DEF RegistryInv, Sends
<1>2. /\ token \in Seq(Token) /\ Len(token) \in Nat /\ c.jti \in 1..Len(token) /\ c \in Command
      /\ token' = token /\ clock \in Nat /\ clock' = clock
      /\ Owner(c.jti) \in Users /\ Len(token) <= MaxTokens
  <2>1. token \in Seq(Token) /\ c.jti \in 1..Len(token)
    BY DEF RegistryInv, RegistryTypeOK, Sends
  <2>2. token[c.jti] \in Token
    BY <2>1
  <2>3. Owner(c.jti) \in Users
    BY <2>2 DEF Token, Owner
  <2>4. Len(token) <= MaxTokens /\ clock \in Nat
    BY DEF RegistryInv, RegistryTypeOK
  <2>5. c \in Command /\ token' = token /\ clock' = clock
    BY DEF Sends
  <2>. QED
    BY <2>1, <2>3, <2>4, <2>5
<1>3. last' \in [Users -> [user : Nat \cup {Null}, iat : Nat, exp : Nat]]
  <2> DEFINE u == token[c.jti].user
             l == IF [jti |-> c.jti, exp |-> c.exp] \in black[u].mem
                  THEN [user |-> c.jti, iat |-> clock, exp |-> c.exp]
                  ELSE NoToken
             L == [user : Nat \cup {Null}, iat : Nat, exp : Nat]
  <2>1. last \in [Users -> L]
    BY DEF RegistryInv, RegistryTypeOK
  <2>2. Revocation(c)
    BY DEF Sends
  <2>3. CASE c.op = "expire_black"
    <3>1. l \in L
      <4>1. c.exp \in Nat /\ c.jti \in Nat
        BY <1>2, <2>3, CommandColumns
      <4>2. NoToken \in L
        BY DEF NoToken
      <4>3. [user |-> c.jti, iat |-> clock, exp |-> c.exp] \in L
        BY <1>2, <4>1
      <4>. QED
        BY <4>2, <4>3
    <3>2. last' = [last EXCEPT ![u] = l]
      BY <2>2, <2>3 DEF Revocation
    <3> HIDE DEF l
    <3>. QED
      BY <2>1, <3>1, <3>2
  <2>4. CASE c.op # "expire_black"
    BY <2>1, <2>2, <2>4 DEF Revocation
  <2>. QED
    BY <2>3, <2>4
<1>4. /\ held' \subseteq 1..Len(token) /\ revoked' \subseteq 1..Len(token)
      /\ prog'[w].give \subseteq 1..Len(token) /\ prog'[w].gone \subseteq 1..Len(token)
  <2>1. /\ held \subseteq 1..Len(token) /\ revoked \subseteq 1..Len(token)
        /\ prog[w].give \subseteq 1..Len(token) /\ prog[w].gone \subseteq 1..Len(token)
    BY DEF RegistryInv, RegistryTypeOK, Minted
  <2>2. NowGone(c) \subseteq 1..Len(token)
    BY <1>2 DEF NowGone
  <2>. QED
    BY <2>1, <2>2 DEF Sends
<1>5. RegistryTypeOK'
  <2>1. revoked' \subseteq Nat
    BY <1>4
  <2>2. prog' \in [Processes -> [todo : Seq(Command), give : SUBSET Nat, gone : SUBSET Nat]]
        /\ UNCHANGED <<account, token, clock, calls, cuts>>
    BY DEF Sends
  <2>. QED
    BY <1>1, <1>2, <1>3, <1>4, <2>1, <2>2 DEF RegistryInv, RegistryTypeOK
<1>6. Minted'
  <2>1. ASSUME NEW u \in Users, NEW j \in index'[u].mem PROVE j \in 1..Len(token') /\ token'[j].user = u
    <3>1. CASE j \in index[u].mem
      BY <1>2, <3>1 DEF RegistryInv, Minted, Owner
    <3>2. CASE j \notin index[u].mem
      <4>1. u = Owner(c.jti) /\ j = c.jti
        BY <1>1, <1>2, <2>1, <3>2 DEF EffectOn
      <4>. QED
        BY <1>2, <4>1 DEF Owner
    <3>. QED
      BY <3>1, <3>2
  <2>2. ASSUME NEW j \in Tokens, meta'[j].there PROVE j <= Len(token')
    <3>1. CASE j = c.jti
      BY <1>2, <3>1
    <3>2. CASE j # c.jti
      BY <1>1, <1>2, <2>2, <3>2 DEF EffectOn, RegistryInv, Minted
    <3>. QED
      BY <3>1, <3>2
  <2>3. ASSUME NEW v \in Processes
        PROVE  /\ \A d \in Elems(prog'[v].todo) : d.jti \in 1..Len(token')
               /\ prog'[v].give \subseteq 1..Len(token')
               /\ prog'[v].gone \subseteq 1..Len(token')
    <3>1. CASE v = w
      <4>1. \A d \in Elems(t) : d.jti \in 1..Len(token)
        BY DEF Sends, RegistryInv, Minted
      <4>2. \A d \in Elems(r) : d.jti \in 1..Len(token)
        <5>1. \A j \in index[Owner(c.jti)].mem : j \in 1..Len(token)
          BY <1>2 DEF RegistryInv, Minted
        <5>2. ReplyOf(c, r) /\ c.op \in PlainOps \cup {"expire_black"}
          BY <1>2, CommandColumns DEF Sends
        <5>. QED
          BY <1>2, <5>1, <5>2 DEF ReplyOf, PlainOps
      <4>3. Elems(prog'[w].todo) = Elems(r) \cup Elems(t)
        BY DEF Sends
      <4>. QED
        BY <1>2, <1>4, <3>1, <4>1, <4>2, <4>3
    <3>2. CASE v # w
      BY <1>2, <3>2 DEF RegistryInv, Minted, Cmds, Sends
    <3>. QED
      BY <3>1, <3>2
  <2>. QED
    BY <1>2, <1>4, <2>1, <2>2, <2>3 DEF Minted, Cmds, Owner
<1>. QED
  BY <1>5, <1>6 DEF RegistryInv

\* A step that sends no command: programs stay or are dropped, keys stay or
\* expire, tokens are added.
Quiet ==
    /\ RegistryTypeOK'
    /\ Len(token) <= Len(token')
    /\ \A j \in 1..Len(token) : token'[j] = token[j]
    /\ \A v \in Processes : prog'[v] = prog[v] \/ (prog'[v] = NoProg /\ cuts' # 0)
    /\ held' \subseteq held \cup (Len(token) + 1)..Len(token')
    /\ clock' >= clock
    /\ \A u \in Users : black'[u] = black[u] \/ (black'[u] = NoKey /\ black[u].until <= clock')
    /\ \A u \in Users : index'[u] = index[u] \/ index'[u] = NoKey
    /\ \A j \in Tokens : meta'[j] = meta[j] \/ meta'[j] = NoMeta
    /\ cuts' >= cuts
    /\ last' = last /\ revoked' = revoked

\* Cut-off requests, passkey logins, account changes and expiry are quiet.
LEMMA QuietSteps ==
    ASSUME RegistryInv,
           \/ \E w \in Processes : Cut(w)
           \/ \E w \in Processes, u \in Users : WebAuthnLogin(w, u)
           \/ \E u \in Users, st \in {"active", "inactive", "deleted"} : SetAccount(u, st)
           \/ Expiry
           \/ UNCHANGED registryVars
    PROVE  Quiet
<1>t. /\ token \in Seq(Token) /\ Len(token) \in Nat /\ clock \in Nat /\ cuts \in Nat /\ calls \in Nat
      /\ held \subseteq 1..Len(token)
      /\ prog \in [Processes -> ProgType]
  BY DEF RegistryInv, RegistryTypeOK, ProgType
<1>n. NoProg \in ProgType
  BY DEF NoProg, ProgType
<1>1. ASSUME NEW w \in Processes, Cut(w) PROVE Quiet
  <2>1. /\ prog' = [prog EXCEPT ![w] = NoProg] /\ cuts' = cuts + 1
        /\ UNCHANGED <<black, index, meta, marker, last, revoked, account, token, held, clock, calls>>
    BY <1>1 DEF Cut, RedisUnchanged
  <2>2. prog' \in [Processes -> ProgType] /\ \A v \in Processes : prog'[v] = prog[v] \/ prog'[v] = NoProg
    BY <1>t, <1>n, <2>1
  <2>3. RegistryTypeOK'
    BY <1>t, <2>1, <2>2 DEF RegistryInv, RegistryTypeOK, ProgType
  <2>. QED
    BY <1>t, <2>1, <2>2, <2>3 DEF Quiet
<1>2. ASSUME NEW w \in Processes, NEW u \in Users, WebAuthnLogin(w, u) PROVE Quiet
  <2> DEFINE n == CreateAccess(u)
  <2>1. /\ Len(token) < MaxTokens /\ calls' = calls + 1
        /\ token' = Append(token, n) /\ held' = held \cup {Len(token) + 1}
        /\ UNCHANGED <<black, index, meta, marker, last, revoked, account, clock, prog, cuts>>
    BY <1>2 DEF WebAuthnLogin, RedisUnchanged
  <2>2. n \in Token
    BY <1>t, TokenAssumption DEF CreateAccess, Mint, Token
  <2> HIDE DEF n
  <2>3. /\ token' \in Seq(Token) /\ Len(token') = Len(token) + 1 /\ Len(token') <= MaxTokens
        /\ \A j \in 1..Len(token) : token'[j] = token[j]
    BY <1>t, <2>1, <2>2, TokenAssumption
  <2>4. held' \subseteq 1..Len(token') /\ held' \subseteq held \cup (Len(token) + 1)..Len(token')
    <3>1. Len(token) + 1 \in 1..Len(token') /\ Len(token) + 1 \in (Len(token) + 1)..Len(token')
      BY <1>t, <2>3
    <3>2. 1..Len(token) \subseteq 1..Len(token')
      BY <1>t, <2>3
    <3>3. held' = held \cup {Len(token) + 1} /\ held \subseteq 1..Len(token)
      BY <1>t, <2>1
    <3>. QED
      BY <3>1, <3>2, <3>3
  <2>5. RegistryTypeOK'
    <3>1. calls' \in Nat
      BY <1>t, <2>1
    <3>2. UNCHANGED <<black, index, meta, marker, last, revoked, account, clock, prog, cuts>>
      BY <2>1
    <3>. QED
      BY <2>3, <2>4, <3>1, <3>2 DEF RegistryInv, RegistryTypeOK
  <2>. QED
    BY <1>t, <2>1, <2>3, <2>4, <2>5 DEF Quiet
<1>3. ASSUME NEW u \in Users, NEW st \in {"active", "inactive", "deleted"}, SetAccount(u, st) PROVE Quiet
  <2>1. /\ calls' = calls + 1 /\ account' = [account EXCEPT ![u] = st]
        /\ UNCHANGED <<black, index, meta, marker, last, revoked, token, held, clock, prog, cuts>>
    BY <1>3 DEF SetAccount, RedisUnchanged
  <2>2. account' \in [Users -> {"active", "inactive", "deleted"}]
    BY <2>1 DEF RegistryInv, RegistryTypeOK
  <2>3. RegistryTypeOK'
    BY <1>t, <2>1, <2>2 DEF RegistryInv, RegistryTypeOK
  <2>. QED
    BY <1>t, <2>1, <2>3 DEF Quiet
<1>4. CASE Expiry
  <2> DEFINE B == [mem : SUBSET [jti : Nat, exp : Nat], until : Int]
             I == [mem : SUBSET Nat, until : Int]
             M == [exp : Nat, until : Int, there : BOOLEAN]
  <2>0. /\ clock' = clock + 1
        /\ UNCHANGED <<account, token, held, prog, calls, cuts, last, revoked>>
    BY <1>4 DEF Expiry
  <2>1. NoKey \in B /\ NoKey \in I /\ NoMeta \in M
    BY DEF NoKey, NoMeta, Forever
  <2>2. black \in [Users -> B] /\ index \in [Users -> I] /\ meta \in [Tokens -> M]
        /\ marker \in [Users -> Nat \cup {Null}]
    BY DEF RegistryInv, RegistryTypeOK
  <2>3. /\ black' \in [Users -> B]
        /\ \A u \in Users : black'[u] = black[u] \/ (black'[u] = NoKey /\ black[u].until <= clock')
    BY <1>4, <2>0, <2>1, <2>2 DEF Expiry, Dead
  <2>4. /\ index' \in [Users -> I]
        /\ \A u \in Users : index'[u] = index[u] \/ index'[u] = NoKey
    BY <1>4, <2>1, <2>2 DEF Expiry
  <2>5. /\ meta' \in [Tokens -> M]
        /\ \A j \in Tokens : meta'[j] = meta[j] \/ meta'[j] = NoMeta
    BY <1>4, <2>1, <2>2 DEF Expiry
  <2>6. marker' \in [Users -> Nat \cup {Null}]
    BY <1>4, <2>2 DEF Expiry
  <2>7. clock' \in Nat /\ clock' >= clock
    BY <1>t, <2>0
  <2>8. RegistryTypeOK'
    BY <1>t, <2>0, <2>3, <2>4, <2>5, <2>6, <2>7 DEF RegistryInv, RegistryTypeOK
  <2>. QED
    BY <1>t, <2>0, <2>3, <2>4, <2>5, <2>7, <2>8 DEF Quiet
<1>5. CASE UNCHANGED registryVars
  <2>1. RegistryTypeOK'
    BY <1>5 DEF registryVars, RegistryInv, RegistryTypeOK
  <2>. QED
    BY <1>t, <1>5, <2>1 DEF Quiet, registryVars
<1>. QED
  BY <1>1, <1>2, <1>3, <1>4, <1>5

\* Expired keys hold nothing.
LEMMA NoKeyEmpty == NoKey.mem = {} /\ ~NoMeta.there /\ NoProg.todo = <<>> /\ NoProg.give = {} /\ NoProg.gone = {}
BY DEF NoKey, NoMeta, NoProg

\* What a quiet step leaves of programs and keys.
LEMMA QuietShrinks ==
    ASSUME Quiet
    PROVE  /\ \A v \in Processes : /\ Elems(prog'[v].todo) \subseteq Cmds(v)
                                   /\ prog'[v].give \subseteq prog[v].give
                                   /\ prog'[v].gone \subseteq prog[v].gone
           /\ \A u \in Users : index'[u].mem \subseteq index[u].mem /\ black'[u].mem \subseteq black[u].mem
           /\ \A j \in Tokens : meta'[j].there => meta[j].there
BY NoKeyEmpty, ElemsTuple DEF Quiet, Cmds

\* A quiet step keeps types and records nothing new.
LEMMA QuietRegistry ==
    ASSUME RegistryInv, Quiet
    PROVE  RegistryInv'
<1>1. /\ Len(token) \in Nat /\ Len(token') \in Nat /\ Len(token) <= Len(token')
      /\ \A j \in 1..Len(token) : token'[j] = token[j] /\ j \in 1..Len(token')
      /\ revoked' = revoked /\ RegistryTypeOK'
  BY DEF Quiet, RegistryInv, RegistryTypeOK
<1>2. 1..Len(token) \subseteq 1..Len(token')
  BY <1>1
<1>3. \A u \in Users : \A j \in index'[u].mem : j \in 1..Len(token') /\ token'[j].user = u
  BY <1>1, QuietShrinks DEF RegistryInv, Minted, Owner
<1>4. \A j \in Tokens : meta'[j].there => j <= Len(token')
  BY <1>1, QuietShrinks DEF RegistryInv, Minted, Tokens
<1>5. \A v \in Processes :
         /\ \A d \in Elems(prog'[v].todo) : d.jti \in 1..Len(token')
         /\ prog'[v].give \subseteq 1..Len(token')
         /\ prog'[v].gone \subseteq 1..Len(token')
  BY <1>2, QuietShrinks DEF RegistryInv, Minted
<1>6. revoked' \subseteq 1..Len(token')
  BY <1>1, <1>2 DEF RegistryInv, Minted
<1>7. Minted'
  BY <1>3, <1>4, <1>5, <1>6 DEF Minted, Cmds, Owner
<1>. QED
  BY <1>1, <1>7 DEF RegistryInv

\* What a request that begins leaves behind.
Begun(w) ==
    /\ Len(token) \in Nat /\ Len(token') \in Nat /\ Len(token) <= Len(token') /\ Len(token') <= MaxTokens
    /\ \A j \in 1..Len(token) : token'[j] = token[j] /\ j \in 1..Len(token')
    /\ Cmds(w) = {}
    /\ \A v \in Processes : v # w => prog'[v] = prog[v]
    /\ prog'[w].gone = {} /\ prog'[w].give \subseteq (Len(token) + 1)..Len(token')
    /\ Once(prog'[w].todo)
    /\ \A c \in Elems(prog'[w].todo) :
          \/ c.op = "zadd" /\ c.jti \in (Len(token) + 1)..Len(token')
          \/ c.op \in {"zrem", "del_meta", "sadd", "zrevrange", "list"} /\ Admitted(c.jti)
    /\ \A c \in Elems(prog'[w].todo) :
          c.op = "sadd" => \E d \in Elems(prog'[w].todo) : d.op = "zrem" /\ d.jti = c.jti
    /\ UNCHANGED <<black, index, meta, marker, last, revoked, held, clock, cuts>>

\* A request that begins leaves that behind.
LEMMA BeginsShape ==
    ASSUME RegistryInv, NEW w \in Processes, Begins(w)
    PROVE  Begun(w)
<1>1. PICK todo \in Seq(Command), give \in SUBSET Nat :
          /\ prog' = [prog EXCEPT ![w] = [todo |-> todo, give |-> give, gone |-> {}]]
          /\ give \subseteq (Len(token) + 1)..Len(token')
          /\ Once(todo)
          /\ \A c \in Elems(todo) :
                \/ c.op = "zadd" /\ c.jti \in (Len(token) + 1)..Len(token')
                \/ c.op \in {"zrem", "del_meta", "sadd", "zrevrange", "list"} /\ Admitted(c.jti)
          /\ \A c \in Elems(todo) :
                c.op = "sadd" => \E d \in Elems(todo) : d.op = "zrem" /\ d.jti = c.jti
  BY DEF Begins
<1>2. /\ Len(token) \in Nat /\ Len(token') \in Nat
      /\ Len(token) <= Len(token') /\ Len(token') <= MaxTokens
      /\ \A j \in 1..Len(token) : token'[j] = token[j] /\ j \in 1..Len(token')
  BY DEF Begins, RegistryInv, RegistryTypeOK
<1>3. /\ prog'[w].todo = todo /\ prog'[w].give = give /\ prog'[w].gone = {}
      /\ \A v \in Processes : v # w => prog'[v] = prog[v]
  <2> DEFINE q == [todo |-> todo, give |-> give, gone |-> {}]
  <2>1. q.todo = todo /\ q.give = give /\ q.gone = {}
    OBVIOUS
  <2>2. prog' = [prog EXCEPT ![w] = q]
    BY <1>1
  <2>3. prog \in [Processes -> ProgType]
    BY DEF RegistryInv, RegistryTypeOK, ProgType
  <2> HIDE DEF q
  <2>. QED
    BY <2>1, <2>2, <2>3
<1>4. Cmds(w) = {}
  BY RestingEmpty DEF Begins
<1>5. UNCHANGED <<black, index, meta, marker, last, revoked, held, clock, cuts>>
  BY DEF Begins, RedisUnchanged
<1>. QED
  BY <1>1, <1>2, <1>3, <1>4, <1>5 DEF Begun

\* A step is a request that begins, a command that is sent, or quiet.
LEMMA RegistryKinds ==
    ASSUME RegistryInv, [RegistryNext]_registryVars
    PROVE  /\ RegistryInv'
           /\ \/ \E w \in Processes : Begun(w)
              \/ \E w \in Processes : \E c, r, t : Sends(w, c, r, t)
              \/ Quiet
BY RegistrySteps, BeginsShape, BeginsRegistry, ExecuteSends, SendsRegistry, QuietSteps, QuietRegistry

-----------------------------------------------------------------------------
(***************************************************************************)
(* TTLs under way and the last revocation.                                 *)
(***************************************************************************)
\* Every step keeps the TTLs under way long enough: blacklist_token computes
\* its own from the token, and time only shortens what is left.
LEMMA TtlsCoverStep ==
    ASSUME RegistryInv, TtlsCover, [RegistryNext]_registryVars
    PROVE  TtlsCover'
<1>t. clock \in Nat /\ clock' \in Nat /\ BlacklistTtl \in Nat
      /\ \A w \in Processes : \A c \in Cmds(w) : c \in Command
  <2>1. \A w \in Processes : prog[w].todo \in Seq(Command)
    BY DEF RegistryInv, RegistryTypeOK
  <2>2. \A w \in Processes : \A c \in Cmds(w) : c \in Command
    BY <2>1 DEF Cmds, Elems
  <2>. QED
    BY <2>2, RegistryKinds, TokenAssumption DEF RegistryInv, RegistryTypeOK
<1> DEFINE Ok(c) == /\ c.op \in {"expire_black", "expire_index", "expire_meta"} => c.n > 0
                    /\ c.op = "expire_black" => c.n >= Smaller(BlacklistTtl, c.exp - clock')
<1>1. SUFFICES ASSUME NEW v \in Processes, NEW d \in Elems(prog'[v].todo) PROVE Ok(d)
  BY DEF TtlsCover, Cmds
<1>2. ASSUME d \in Cmds(v), clock' >= clock PROVE Ok(d)
  <2>1. d \in Command
    BY <1>t, <1>2
  <2>2. d.n \in Nat /\ (d.op = "expire_black" => d.exp \in Nat)
    BY <2>1, CommandColumns
  <2>. QED
    BY <1>t, <1>2, <2>2 DEF TtlsCover, Smaller
<1>3. ASSUME NEW w \in Processes, Begun(w) PROVE Ok(d)
  <2>1. clock' = clock /\ clock' >= clock
    BY <1>t, <1>3 DEF Begun
  <2>2. CASE v # w
    BY <1>1, <1>2, <1>3, <2>1, <2>2 DEF Begun, Cmds
  <2>3. CASE v = w
    BY <1>1, <1>3, <2>3 DEF Begun
  <2>. QED
    BY <2>2, <2>3
<1>4. ASSUME NEW w \in Processes, NEW c, NEW r, NEW t, Sends(w, c, r, t) PROVE Ok(d)
  <2>1. clock' = clock /\ clock' >= clock
    BY <1>t, <1>4 DEF Sends
  <2>2. CASE v # w
    BY <1>1, <1>2, <1>4, <2>1, <2>2 DEF Sends, Cmds
  <2>3. CASE v = w /\ d \in Elems(r)
    <3>1. ReplyOf(c, r) /\ c.op \in PlainOps \cup {"expire_black"}
      BY <1>4, CommandColumns DEF Sends
    <3>. QED
      BY <2>1, <2>3, <3>1 DEF ReplyOf, PlainOps
  <2>4. CASE v = w /\ d \in Elems(t)
    BY <1>2, <1>4, <2>1, <2>4 DEF Sends
  <2>. QED
    BY <1>1, <1>4, <2>2, <2>3, <2>4 DEF Sends
<1>5. ASSUME Quiet PROVE Ok(d)
  BY <1>1, <1>2, <1>5, QuietShrinks DEF Quiet
<1>. QED
  BY <1>3, <1>4, <1>5, RegistryKinds

\* Every step keeps the last revocation covered: only an EXPIRE moves the
\* key's end, and then that revocation is the last.
LEMMA LastCoveredStep ==
    ASSUME RegistryInv, TtlsCover, LastCovered, [RegistryNext]_registryVars
    PROVE  LastCovered'
<1> DEFINE L == [user : Nat \cup {Null}, iat : Nat, exp : Nat]
           Fine(u) == clock' < Until(last'[u]) =>
                        /\ last'[u].user \in 1..Len(token') /\ token'[last'[u].user].user = u
                        /\ [jti |-> last'[u].user, exp |-> last'[u].exp] \in black'[u].mem
                        /\ black'[u].until >= Until(last'[u])
<1>t. /\ clock \in Nat /\ clock' \in Nat /\ BlacklistTtl \in Nat
      /\ last \in [Users -> L] /\ last' \in [Users -> L]
      /\ \A u \in Users : black[u].until \in Int
      /\ \A u \in Users : Until(last[u]) \in Int
  <2>1. clock \in Nat /\ last \in [Users -> L] /\ \A u \in Users : black[u].until \in Int
    BY DEF RegistryInv, RegistryTypeOK
  <2>2. clock' \in Nat /\ last' \in [Users -> L]
    BY RegistryKinds DEF RegistryInv, RegistryTypeOK
  <2>. QED
    BY <2>1, <2>2, TokenAssumption DEF Until, Smaller
<1>1. SUFFICES ASSUME NEW u \in Users PROVE Fine(u)
  BY DEF LastCovered, Owner, Until
<1>2. ASSUME NEW w \in Processes, Begun(w) PROVE Fine(u)
  BY <1>2 DEF Begun, LastCovered, Owner, Until
<1>3. ASSUME NEW w \in Processes, NEW c, NEW r, NEW t, Sends(w, c, r, t) PROVE Fine(u)
  <2>1. /\ EffectOn(c) /\ c \in Command /\ c.jti \in 1..Len(token)
        /\ clock' = clock /\ token' = token /\ Revocation(c) /\ c \in Cmds(w)
    BY <1>3, EffectShape DEF Sends, RegistryInv
  <2>2. CASE c.op = "expire_black" /\ u = Owner(c.jti)
    <3> DEFINE m == [jti |-> c.jti, exp |-> c.exp]
               l == [user |-> c.jti, iat |-> clock, exp |-> c.exp]
    <3>1. last'[u] = IF m \in black[u].mem THEN l ELSE NoToken
      BY <1>t, <2>1, <2>2 DEF Revocation, Owner
    <3>2. CASE m \notin black[u].mem
      <4>1. Until(last'[u]) = 0
        BY <1>t, <3>1, <3>2, TokenAssumption DEF Until, NoToken, Smaller
      <4>. QED
        BY <1>t, <4>1
    <3>3. CASE m \in black[u].mem
      <4>1. l.user = c.jti /\ l.exp = c.exp /\ l.iat = clock /\ last'[u] = l
        BY <3>1, <3>3
      <4>2. c.exp \in Nat /\ c.n \in Nat /\ c.n >= Smaller(BlacklistTtl, c.exp - clock)
        BY <2>1, <2>2, CommandColumns DEF TtlsCover
      <4>3. Until(l) = Smaller(c.exp, clock + BlacklistTtl)
        BY <4>1 DEF Until
      <4>4. black'[u].mem = black[u].mem /\ black'[u].until = clock + c.n
        BY <2>1, <2>2, <3>3 DEF EffectOn
      <4>5. clock + c.n >= Smaller(c.exp, clock + BlacklistTtl)
        BY <1>t, <4>2 DEF Smaller
      <4>6. [jti |-> last'[u].user, exp |-> last'[u].exp] = m
        BY <4>1
      <4>7. black'[u].until >= Until(last'[u])
        BY <4>1, <4>3, <4>4, <4>5
      <4>8. last'[u].user \in 1..Len(token') /\ token'[last'[u].user].user = u
        BY <2>1, <2>2, <4>1 DEF Owner
      <4>. QED
        BY <3>3, <4>4, <4>6, <4>7, <4>8
    <3>. QED
      BY <3>2, <3>3
  <2>3. CASE ~(c.op = "expire_black" /\ u = Owner(c.jti))
    <3>1. last'[u] = last[u]
      BY <1>t, <2>1, <2>3 DEF Revocation, Owner
    <3>2. black[u].mem \subseteq black'[u].mem /\ black'[u].until = black[u].until
      BY <2>1, <2>3 DEF EffectOn
    <3>. QED
      BY <2>1, <3>1, <3>2 DEF LastCovered, Owner
  <2>. QED
    BY <2>2, <2>3
<1>4. ASSUME Quiet PROVE Fine(u)
  <2>1. SUFFICES ASSUME clock' < Until(last'[u]) PROVE Fine(u)
    OBVIOUS
  <2>2. last' = last /\ clock' >= clock
    BY <1>4 DEF Quiet
  <2>3. /\ last[u].user \in 1..Len(token) /\ Owner(last[u].user) = u
        /\ [jti |-> last[u].user, exp |-> last[u].exp] \in black[u].mem
        /\ black[u].until >= Until(last[u])
    <3>1. clock' < Until(last[u])
      BY <2>1, <2>2
    <3>2. clock < Until(last[u])
      BY <1>t, <2>2, <3>1
    <3>. QED
      BY <3>2 DEF LastCovered
  <2>4. black'[u] = black[u]
    BY <1>t, <1>4, <2>1, <2>2, <2>3 DEF Quiet
  <2>5. Len(token) \in Nat /\ Len(token') \in Nat /\ Len(token) <= Len(token')
    BY <1>4 DEF Quiet, RegistryTypeOK, RegistryInv
  <2>6. last[u].user \in 1..Len(token') /\ token'[last[u].user] = token[last[u].user]
    BY <1>4, <2>3, <2>5 DEF Quiet
  <2>. QED
    BY <2>2, <2>3, <2>4, <2>6 DEF Owner
<1>. QED
  BY <1>2, <1>3, <1>4, RegistryKinds

-----------------------------------------------------------------------------
(***************************************************************************)
(* Sessions that are stored and sessions that are revoked.                 *)
(***************************************************************************)
\* Every step keeps a token that is to be stored unknown to everything but
\* the request that has minted it.
LEMMA StoredOnceStep ==
    ASSUME RegistryInv, StoredOnce, [RegistryNext]_registryVars
    PROVE  StoredOnce'
<1> DEFINE UnknownN(j) ==
             /\ j \notin held' /\ j \notin revoked' /\ ~meta'[j].there
             /\ \A u \in Users : j \notin index'[u].mem
             /\ \A w \in Processes : j \notin prog'[w].gone
           Apart(v, j) == \A x \in Processes : x # v =>
             j \notin prog'[x].give /\ \A d \in Elems(prog'[x].todo) : d.jti # j
<1>t. /\ Len(token) \in Nat /\ Len(token) <= MaxTokens /\ MaxTokens \in Nat
      /\ held \subseteq 1..Len(token)
      /\ \A v \in Processes : prog[v].todo \in Seq(Command)
  BY TokenAssumption DEF RegistryInv, RegistryTypeOK
<1>m. \A v \in Processes : \A c \in Cmds(v) : c.jti \in 1..Len(token) /\ c.jti \in Tokens
  BY <1>t DEF RegistryInv, Minted, Tokens
<1>s. SUFFICES ASSUME NEW v \in Processes
               PROVE  /\ Once(prog'[v].todo)
                      /\ \A c \in Elems(prog'[v].todo) : c.op = "zadd" => UnknownN(c.jti) /\ Apart(v, c.jti)
  BY DEF StoredOnce, Unknown, Cmds
<1>1. ASSUME NEW w \in Processes, Begun(w)
      PROVE  /\ Once(prog'[v].todo)
             /\ \A c \in Elems(prog'[v].todo) : c.op = "zadd" => UnknownN(c.jti) /\ Apart(v, c.jti)
  <2>1. Once(prog'[v].todo)
    BY <1>1 DEF Begun, StoredOnce
  <2>u. UNCHANGED <<index, meta, revoked, held>>
    BY <1>1 DEF Begun
  <2>2. ASSUME NEW c \in Elems(prog'[v].todo), c.op = "zadd" PROVE UnknownN(c.jti) /\ Apart(v, c.jti)
    <3>1. CASE v = w
      <4>1. c.jti \in (Len(token) + 1)..Len(token') /\ c.jti \in Tokens /\ c.jti \notin 1..Len(token)
        <5>1. c.jti \in (Len(token) + 1)..Len(token')
          BY <1>1, <2>2, <3>1 DEF Begun
        <5>2. Len(token') \in Nat /\ Len(token') <= MaxTokens
          BY <1>1 DEF Begun
        <5>. QED
          BY <1>t, <5>1, <5>2 DEF Tokens
      <4>2. UnknownN(c.jti)
        <5>1. c.jti \notin held' /\ c.jti \notin revoked'
          BY <1>t, <2>u, <4>1 DEF RegistryInv, Minted
        <5>2. ~meta'[c.jti].there
          BY <1>t, <2>u, <4>1 DEF RegistryInv, Minted
        <5>3. \A u \in Users : c.jti \notin index'[u].mem
          BY <2>u, <4>1 DEF RegistryInv, Minted
        <5>4. \A x \in Processes : c.jti \notin prog'[x].gone
          BY <1>1, <4>1 DEF RegistryInv, Minted, Begun
        <5>. QED
          BY <5>1, <5>2, <5>3, <5>4
      <4>3. Apart(v, c.jti)
        BY <1>1, <3>1, <4>1 DEF RegistryInv, Minted, Begun, Cmds
      <4>. QED
        BY <4>2, <4>3
    <3>2. CASE v # w
      <4>1. /\ c \in Cmds(v) /\ c.jti \in 1..Len(token) /\ Unknown(c.jti)
            /\ \A x \in Processes : x # v => c.jti \notin prog[x].give /\ \A d \in Cmds(x) : d.jti # c.jti
        BY <1>1, <1>m, <2>2, <3>2 DEF StoredOnce, Begun, Cmds
      <4>2. UnknownN(c.jti)
        BY <1>1, <2>u, <4>1 DEF Unknown, Begun
      <4>3. c.jti \notin prog'[w].give
        BY <1>1, <1>t, <4>1 DEF Begun
      <4>4. ASSUME NEW d \in Elems(prog'[w].todo) PROVE d.jti # c.jti
        <5>1. ~Admitted(c.jti) /\ c.jti \notin (Len(token) + 1)..Len(token')
          BY <1>t, <4>1 DEF Admitted, Unknown
        <5>2. d.jti \in (Len(token) + 1)..Len(token') \/ Admitted(d.jti)
          BY <1>1 DEF Begun
        <5>. QED
          BY <5>1, <5>2
      <4>5. Apart(v, c.jti)
        BY <1>1, <4>1, <4>3, <4>4 DEF Begun, Cmds
      <4>. QED
        BY <4>2, <4>5
    <3>. QED
      BY <3>1, <3>2
  <2>. QED
    BY <2>1, <2>2
<1>2. ASSUME NEW w \in Processes, NEW c, NEW r, NEW t, Sends(w, c, r, t)
      PROVE  /\ Once(prog'[v].todo)
             /\ \A d \in Elems(prog'[v].todo) : d.op = "zadd" => UnknownN(d.jti) /\ Apart(v, d.jti)
  <2>1. /\ EffectOn(c) /\ c \in Command /\ c.jti \in 1..Len(token) /\ c \in Cmds(w)
        /\ r \in Seq(Command) /\ t \in Seq(Command) /\ ReplyOf(c, r)
        /\ Cmds(w) = {c} \cup Elems(t) /\ prog'[w].todo = r \o t
        /\ Elems(prog'[w].todo) = Elems(r) \cup Elems(t)
    BY <1>2, EffectShape DEF Sends, RegistryInv
  <2>2. /\ Once(t)
        /\ \A y \in Elems(t) : (c.op = "zadd" \/ y.op = "zadd") => c.jti # y.jti
    <3>1. prog[w].todo \in Seq(Command) /\ prog[w].todo # <<>> /\ Once(prog[w].todo)
          /\ c = Head(prog[w].todo) /\ t = Tail(prog[w].todo)
      BY <1>2, <1>t DEF Sends, StoredOnce
    <3>. QED
      BY <3>1, OnceTail
  <2>3. \A d \in Elems(r) : /\ d.op # "zadd"
                            /\ d.jti = c.jti \/ d.jti \in index[Owner(c.jti)].mem
    <3>1. c.op \in PlainOps \cup {"expire_black"}
      BY <2>1, CommandColumns
    <3>. QED
      BY <2>1, <3>1 DEF ReplyOf, PlainOps
  <2>o. Owner(c.jti) \in Users
    <3>1. token \in Seq(Token)
      BY DEF RegistryInv, RegistryTypeOK
    <3>2. token[c.jti] \in Token
      BY <2>1, <3>1
    <3>. QED
      BY <3>2 DEF Token, Owner
  <2>4. Once(r \o t)
    <3>1. \A x \in Elems(r) : x.op # "zadd" /\ \A y \in Elems(t) : y.op = "zadd" => x.jti # y.jti
      BY <2>1, <2>2, <2>3, <2>o DEF StoredOnce, Unknown
    <3>. QED
      BY <2>1, <2>2, <3>1, OnceConcat
  <2>5. Once(prog'[v].todo)
    BY <1>2, <2>1, <2>4 DEF Sends, StoredOnce
  <2>6. ASSUME NEW d \in Elems(prog'[v].todo), d.op = "zadd"
        PROVE  UnknownN(d.jti) /\ Apart(v, d.jti)
    <3>1. d \in Cmds(v)
      BY <1>2, <2>1, <2>3, <2>6 DEF Sends, Cmds
    <3>2. d.jti \in Tokens /\ Unknown(d.jti)
          /\ \A x \in Processes : x # v => d.jti \notin prog[x].give /\ \A e \in Cmds(x) : e.jti # d.jti
      BY <1>m, <2>6, <3>1 DEF StoredOnce
    <3>3. d.jti # c.jti
      <4>1. CASE v # w
        BY <2>1, <3>2, <4>1
      <4>2. CASE v = w
        BY <2>1, <2>2, <2>3, <2>6, <4>2
      <4>. QED
        BY <4>1, <4>2
    <3>4. \A u \in Users : d.jti \notin index'[u].mem
      BY <2>1, <2>o, <3>2, <3>3 DEF EffectOn, Unknown
    <3>5. ~meta'[d.jti].there
      BY <2>1, <3>2, <3>3 DEF EffectOn, Unknown
    <3>6. d.jti \notin NowGone(c)
      BY <3>3 DEF NowGone
    <3>7. \A x \in Processes : d.jti \notin prog'[x].gone
      BY <1>2, <3>2, <3>6 DEF Sends, Unknown
    <3>8. d.jti \notin revoked'
      BY <1>2, <3>2, <3>6 DEF Sends, Unknown
    <3>9. d.jti \notin held'
      <4>1. CASE v # w
        BY <1>2, <3>2, <4>1 DEF Sends, Unknown
      <4>2. CASE v = w
        BY <1>2, <2>6, <3>2, <4>2 DEF Sends, Unknown
      <4>. QED
        BY <4>1, <4>2
    <3>10. ASSUME NEW x \in Processes, x # v
           PROVE  d.jti \notin prog'[x].give /\ \A e \in Elems(prog'[x].todo) : e.jti # d.jti
      <4>1. CASE x # w
        BY <1>2, <3>2, <3>10, <4>1 DEF Sends, Cmds
      <4>2. CASE x = w
        <5>1. \A e \in Elems(r) : e.jti # d.jti
          BY <2>3, <2>o, <3>2, <3>3 DEF Unknown
        <5>2. \A e \in Elems(t) : e.jti # d.jti
          BY <2>1, <3>2, <3>10, <4>2
        <5>3. prog'[w].give \subseteq prog[w].give
          BY <1>2 DEF Sends
        <5>. QED
          BY <2>1, <3>2, <3>10, <4>2, <5>1, <5>2, <5>3
      <4>. QED
        BY <4>1, <4>2
    <3>. QED
      BY <3>4, <3>5, <3>7, <3>8, <3>9, <3>10
  <2>. QED
    BY <2>5, <2>6
<1>3. ASSUME Quiet
      PROVE  /\ Once(prog'[v].todo)
             /\ \A c \in Elems(prog'[v].todo) : c.op = "zadd" => UnknownN(c.jti) /\ Apart(v, c.jti)
  <2>1. Once(prog'[v].todo)
    <3>1. CASE prog'[v] = prog[v]
      BY <3>1 DEF StoredOnce
    <3>2. CASE prog'[v] = NoProg
      BY <3>2, NoKeyEmpty DEF Once
    <3>. QED
      BY <1>3, <3>1, <3>2 DEF Quiet
  <2>2. ASSUME NEW c \in Elems(prog'[v].todo), c.op = "zadd" PROVE UnknownN(c.jti) /\ Apart(v, c.jti)
    <3>1. c \in Cmds(v) /\ c.jti \in 1..Len(token) /\ c.jti \in Tokens
      BY <1>3, <1>m, QuietShrinks
    <3>2. /\ Unknown(c.jti)
          /\ \A x \in Processes : x # v => c.jti \notin prog[x].give /\ \A d \in Cmds(x) : d.jti # c.jti
      BY <2>2, <3>1 DEF StoredOnce
    <3>3. c.jti \notin held'
      BY <1>3, <1>t, <3>1, <3>2 DEF Quiet, Unknown
    <3>4. c.jti \notin revoked' /\ ~meta'[c.jti].there
      BY <1>3, <3>1, <3>2, QuietShrinks DEF Quiet, Unknown
    <3>5. \A u \in Users : c.jti \notin index'[u].mem
      BY <1>3, <3>2, QuietShrinks DEF Unknown
    <3>6. \A x \in Processes : c.jti \notin prog'[x].gone
      BY <1>3, <3>2, QuietShrinks DEF Unknown
    <3>7. Apart(v, c.jti)
      BY <1>3, <3>2, QuietShrinks
    <3>. QED
      BY <3>3, <3>4, <3>5, <3>6, <3>7
  <2>. QED
    BY <2>1, <2>2
<1>. QED
  BY <1>1, <1>2, <1>3, RegistryKinds

\* Every step keeps revoked tokens out of the index: a ZADD only adds tokens
\* nobody can have revoked, and a revocation removes before it completes.
LEMMA RevokedLeaveStep ==
    ASSUME RegistryInv, StoredOnce, RevokedLeave, [RegistryNext]_registryVars
    PROVE  RevokedLeave'
<1> DEFINE OutN(j) == \A u \in Users : j \notin index'[u].mem
           RevokingN(v, j) == \/ j \in prog'[v].gone
                              \/ \E c \in Elems(prog'[v].todo) :
                                    c.op \in {"hgetall", "sadd", "expire_black"} /\ c.jti = j
           RemovesN(c, j) == \/ c.op = "zrem" /\ c.jti = j
                             \/ c.op = "del_index" /\ token'[c.jti].user = token'[j].user
           Good == /\ \A j \in revoked' : OutN(j)
                   /\ \A v \in Processes : \A j \in 1..Len(token') :
                         RevokingN(v, j) => OutN(j) \/ \E c \in Elems(prog'[v].todo) : RemovesN(c, j)
<1>t. /\ Len(token) \in Nat /\ token \in Seq(Token)
  BY DEF RegistryInv, RegistryTypeOK
<1>s. SUFFICES Good
  BY DEF RevokedLeave, Revoking, Removes, Out, Owner, Cmds
<1>1. ASSUME NEW w \in Processes, Begun(w) PROVE Good
  <2>1. \A j \in revoked' : OutN(j)
    BY <1>1 DEF Begun, RevokedLeave, Out
  <2>2. ASSUME NEW v \in Processes, NEW j \in 1..Len(token'), RevokingN(v, j)
        PROVE  OutN(j) \/ \E c \in Elems(prog'[v].todo) : RemovesN(c, j)
    <3>1. CASE v = w
      BY <1>1, <2>2, <3>1 DEF Begun
    <3>2. CASE v # w
      <4>1. prog'[v] = prog[v] /\ Revoking(v, j)
        BY <1>1, <2>2, <3>2 DEF Begun, Revoking, Cmds
      <4>2. j \in 1..Len(token)
        BY <4>1 DEF Revoking, RegistryInv, Minted
      <4>3. Out(j) \/ \E c \in Cmds(v) : Removes(c, j)
        BY <4>1, <4>2 DEF RevokedLeave
      <4>4. \A c \in Cmds(v) : c.jti \in 1..Len(token)
        BY DEF RegistryInv, Minted
      <4>5. CASE Out(j)
        BY <1>1, <4>5 DEF Begun, Out
      <4>6. CASE \E c \in Cmds(v) : Removes(c, j)
        BY <1>1, <4>1, <4>2, <4>4, <4>6 DEF Begun, Removes, Owner, Cmds
      <4>. QED
        BY <4>3, <4>5, <4>6
    <3>. QED
      BY <3>1, <3>2
  <2>. QED
    BY <2>1, <2>2
<1>2. ASSUME NEW w \in Processes, NEW c, NEW r, NEW t, Sends(w, c, r, t) PROVE Good
  <2>1. /\ EffectOn(c) /\ c \in Command /\ c.jti \in 1..Len(token) /\ c \in Cmds(w)
        /\ ReplyOf(c, r) /\ Cmds(w) = {c} \cup Elems(t)
        /\ Elems(prog'[w].todo) = Elems(r) \cup Elems(t) /\ token' = token
        /\ \A v \in Processes : v # w => prog'[v] = prog[v]
    BY <1>2, EffectShape DEF Sends, RegistryInv
  <2>o. Owner(c.jti) \in Users
    <3>1. token[c.jti] \in Token
      BY <1>t, <2>1
    <3>. QED
      BY <3>1 DEF Token, Owner
  <2>p. c.op \in PlainOps \cup {"expire_black"}
    BY <2>1, CommandColumns
  <2>2. ASSUME NEW j, Out(j), ~OutN(j) PROVE c.op = "zadd" /\ j = c.jti
    BY <2>1, <2>2, <2>o DEF EffectOn, Out
  <2>3. ASSUME NEW j \in 1..Len(token), Removes(c, j) PROVE OutN(j)
    <3>1. \A u \in Users : j \in index[u].mem => u = Owner(j)
      BY DEF RegistryInv, Minted
    <3>. QED
      BY <2>1, <2>3, <2>o, <3>1 DEF EffectOn, Removes, Owner
  <2>4. ASSUME NEW j, c.op = "zadd", j = c.jti
        PROVE  j \notin revoked /\ \A v \in Processes : ~RevokingN(v, j)
    <3>1. /\ Unknown(j)
          /\ \A v \in Processes : v # w => \A d \in Cmds(v) : d.jti # j
      BY <2>1, <2>4 DEF StoredOnce
    <3>2. \A y \in Elems(t) : y.jti # j
      <4>1. prog[w].todo \in Seq(Command) /\ prog[w].todo # <<>> /\ Once(prog[w].todo)
            /\ c = Head(prog[w].todo) /\ t = Tail(prog[w].todo)
        BY <1>2 DEF Sends, StoredOnce, RegistryInv, RegistryTypeOK
      <4>. QED
        BY <2>4, <4>1, OnceTail
    <3>3. \A d \in Elems(r) : d.op \in {"expire_index", "hset", "expire_meta"}
      BY <2>1, <2>4 DEF ReplyOf
    <3>4. NowGone(c) = {}
      BY <2>4 DEF NowGone
    <3>5. \A v \in Processes : j \notin prog'[v].gone
      BY <1>2, <3>1, <3>4 DEF Sends, Unknown
    <3>6. \A v \in Processes : ~RevokingN(v, j)
      BY <2>1, <3>1, <3>2, <3>3, <3>5 DEF Cmds
    <3>. QED
      BY <3>1, <3>6 DEF Unknown
  <2>5. ASSUME NEW v \in Processes, NEW j \in 1..Len(token), RevokingN(v, j), Revoking(v, j)
        PROVE  OutN(j) \/ \E d \in Elems(prog'[v].todo) : RemovesN(d, j)
    <3>1. CASE Out(j)
      BY <2>2, <2>4, <2>5, <3>1
    <3>2. ASSUME NEW d \in Cmds(v), Removes(d, j)
          PROVE  OutN(j) \/ \E e \in Elems(prog'[v].todo) : RemovesN(e, j)
      <4>1. RemovesN(d, j)
        BY <2>1, <3>2 DEF Removes, Owner
      <4>2. CASE v = w /\ d = c
        BY <2>3, <3>2, <4>2
      <4>3. CASE v # w \/ d # c
        <5>1. d \in Elems(prog'[v].todo)
          BY <2>1, <3>2, <4>3 DEF Cmds
        <5>. QED
          BY <4>1, <5>1
      <4>. QED
        BY <4>2, <4>3
    <3>. QED
      BY <2>5, <3>1, <3>2 DEF RevokedLeave
  <2>6. ASSUME NEW v \in Processes, NEW j \in 1..Len(token), RevokingN(v, j), ~Revoking(v, j)
        PROVE  OutN(j) \/ \E d \in Elems(prog'[v].todo) : RemovesN(d, j)
    <3>1. v = w
      BY <2>1, <2>6 DEF Revoking, Cmds
    <3>2. c.op = "expire_black" => c.jti # j
      BY <2>1, <2>6, <3>1 DEF Revoking
    <3>3. j \notin prog'[w].gone
      BY <1>2, <2>6, <3>1, <3>2 DEF Sends, Revoking, NowGone
    <3>4. PICK d \in Elems(prog'[w].todo) : d.op \in {"hgetall", "sadd", "expire_black"} /\ d.jti = j
      BY <2>6, <3>1, <3>3
    <3>5. d \in Elems(r)
      BY <2>1, <2>6, <3>1, <3>4 DEF Revoking
    <3>6. c.op = "zrevrange"
      BY <2>1, <2>6, <2>p, <3>1, <3>4, <3>5 DEF ReplyOf, Revoking, PlainOps
    <3>7. j \in index[Owner(c.jti)].mem /\ \E e \in Elems(r) : e.op = "del_index" /\ e.jti = c.jti
      BY <2>1, <3>4, <3>5, <3>6 DEF ReplyOf
    <3>8. Owner(j) = Owner(c.jti)
      BY <2>o, <3>7 DEF RegistryInv, Minted
    <3>. QED
      BY <2>1, <3>1, <3>7, <3>8 DEF Owner
  <2>7. ASSUME NEW j \in revoked' PROVE OutN(j)
    <3>1. CASE j \in revoked
      <4>1. Out(j)
        BY <3>1 DEF RevokedLeave
      <4>. QED
        BY <2>2, <2>4, <3>1, <4>1
    <3>2. CASE j \notin revoked
      <4>1. /\ Elems(r) = {} /\ Elems(t) = {} /\ j \in prog[w].gone \cup NowGone(c)
        BY <1>2, <2>7, <3>2 DEF Sends
      <4>2. Revoking(w, j)
        BY <2>1, <4>1 DEF NowGone, Revoking
      <4>3. j \in 1..Len(token)
        BY <2>1, <4>1 DEF RegistryInv, Minted, NowGone
      <4>4. Out(j) \/ Removes(c, j)
        BY <2>1, <4>1, <4>2, <4>3 DEF RevokedLeave
      <4>5. CASE Out(j)
        <5>1. c.op # "zadd"
          BY <2>1, <4>1 DEF ReplyOf
        <5>. QED
          BY <2>2, <4>5, <5>1
      <4>. QED
        BY <2>3, <4>3, <4>4, <4>5
    <3>. QED
      BY <3>1, <3>2
  <2>. QED
    BY <2>1, <2>5, <2>6, <2>7
<1>3. ASSUME Quiet PROVE Good
  <2>1. \A j : Out(j) => OutN(j)
    BY <1>3, QuietShrinks DEF Out
  <2>2. \A j \in revoked' : OutN(j)
    BY <1>3, <2>1 DEF Quiet, RevokedLeave
  <2>3. ASSUME NEW v \in Processes, NEW j \in 1..Len(token'), RevokingN(v, j)
        PROVE  OutN(j) \/ \E c \in Elems(prog'[v].todo) : RemovesN(c, j)
    <3>1. prog'[v] = prog[v]
      <4>1. CASE prog'[v] = NoProg
        BY <2>3, <4>1, NoKeyEmpty, ElemsTuple
      <4>. QED
        BY <1>3, <4>1 DEF Quiet
    <3>2. Revoking(v, j)
      BY <2>3, <3>1 DEF Revoking, Cmds
    <3>3. j \in 1..Len(token)
      BY <3>2 DEF Revoking, RegistryInv, Minted
    <3>4. \A c \in Cmds(v) : c.jti \in 1..Len(token)
      BY DEF RegistryInv, Minted
    <3>5. Out(j) \/ \E c \in Cmds(v) : Removes(c, j)
      BY <3>2, <3>3 DEF RevokedLeave
    <3>6. CASE \E c \in Cmds(v) : Removes(c, j)
      BY <1>3, <3>1, <3>3, <3>4, <3>6 DEF Quiet, Removes, Owner, Cmds
    <3>. QED
      BY <2>1, <3>5, <3>6
  <2>. QED
    BY <2>2, <2>3
<1>. QED
  BY <1>1, <1>2, <1>3, RegistryKinds

-----------------------------------------------------------------------------
(***************************************************************************)
(* Keys without a TTL.                                                     *)
(***************************************************************************)
\* Every step keeps an EXPIRE under way for each key without a TTL, unless a
\* request was cut off.
LEMMA TtlsFollowStep ==
    ASSUME RegistryInv, TtlsFollow, [RegistryNext]_registryVars
    PROVE  TtlsFollow'
<1> DEFINE PendN(op, j) == \E w \in Processes : \E c \in Elems(prog'[w].todo) : c.op = op /\ c.jti = j
           PendOfN(op, u) == \E w \in Processes : \E c \in Elems(prog'[w].todo) :
                                c.op = op /\ token'[c.jti].user = u
           Keys == /\ \A u \in Users :
                         /\ black'[u].mem # {} /\ black'[u].until = Forever => PendOfN("expire_black", u)
                         /\ index'[u].mem # {} /\ index'[u].until = Forever => PendOfN("expire_index", u)
                   /\ \A j \in Tokens : meta'[j].there /\ meta'[j].until = Forever => PendN("expire_meta", j)
           Good == (\A w \in Processes : Follow(prog'[w].todo)) /\ (cuts' = 0 => Keys)
<1>t. /\ Len(token) \in Nat /\ token \in Seq(Token) /\ clock \in Nat /\ cuts \in Nat
      /\ \A v \in Processes : prog[v].todo \in Seq(Command)
      /\ \A v \in Processes : \A c \in Cmds(v) : c.jti \in 1..Len(token)
  BY DEF RegistryInv, RegistryTypeOK, Minted
<1>s. SUFFICES Good
  BY DEF TtlsFollow, Pending, PendingOf, Owner, Cmds
<1>1. ASSUME NEW w \in Processes, Begun(w) PROVE Good
  <2>1. \A v \in Processes : Follow(prog'[v].todo)
    <3>1. \A c \in Elems(prog'[w].todo) : c.op # "hset"
      BY <1>1 DEF Begun
    <3>2. Follow(prog'[w].todo)
      BY <3>1, FollowNoHset
    <3>. QED
      BY <1>1, <3>2 DEF Begun, TtlsFollow
  <2>2. \A v \in Processes : \A c \in Cmds(v) : c \in Elems(prog'[v].todo) /\ token'[c.jti] = token[c.jti]
    BY <1>1, <1>t DEF Begun, Cmds
  <2>3. \A u \in Users : /\ PendingOf("expire_black", u) => PendOfN("expire_black", u)
                         /\ PendingOf("expire_index", u) => PendOfN("expire_index", u)
    BY <2>2 DEF PendingOf, Owner
  <2>4. \A j \in Tokens : Pending("expire_meta", j) => PendN("expire_meta", j)
    BY <2>2 DEF Pending
  <2>5. cuts' = 0 => Keys
    BY <1>1, <2>3, <2>4 DEF Begun, TtlsFollow
  <2>. QED
    BY <2>1, <2>5
<1>2. ASSUME NEW w \in Processes, NEW c, NEW r, NEW t, Sends(w, c, r, t) PROVE Good
  <2>1. /\ EffectOn(c) /\ c \in Command /\ c.jti \in 1..Len(token) /\ c \in Cmds(w)
        /\ ReplyOf(c, r) /\ Cmds(w) = {c} \cup Elems(t) /\ prog'[w].todo = r \o t
        /\ Elems(prog'[w].todo) = Elems(r) \cup Elems(t) /\ token' = token /\ cuts' = cuts
        /\ \A v \in Processes : v # w => prog'[v] = prog[v]
        /\ r \in Seq(Command) /\ t \in Seq(Command) /\ Follow(r)
    BY <1>2, EffectShape DEF Sends, RegistryInv
  <2>o. Owner(c.jti) \in Users /\ c.n \in Nat
    <3>1. token[c.jti] \in Token
      BY <1>t, <2>1
    <3>. QED
      BY <2>1, <3>1, CommandColumns DEF Token, Owner
  <2>e. clock + c.n # Forever
    BY <1>t, <2>o DEF Forever
  <2>2. Follow(t) /\ (c.op = "hset" => \E d \in Elems(t) : d.op = "expire_meta" /\ d.jti = c.jti)
    <3>1. prog[w].todo \in Seq(Command) /\ prog[w].todo # <<>> /\ Follow(prog[w].todo)
          /\ c = Head(prog[w].todo) /\ t = Tail(prog[w].todo)
      BY <1>2, <1>t DEF Sends, TtlsFollow
    <3>. QED
      BY <3>1, FollowTail
  <2>3. \A v \in Processes : Follow(prog'[v].todo)
    <3>1. Follow(r \o t)
      BY <2>1, <2>2, FollowConcat
    <3>. QED
      BY <2>1, <3>1 DEF TtlsFollow
  <2>4. \A v \in Processes : \A d \in Cmds(v) : d # c => d \in Elems(prog'[v].todo)
    BY <2>1 DEF Cmds
  <2>5. ASSUME cuts = 0, NEW u \in Users, black'[u].mem # {}, black'[u].until = Forever
        PROVE  PendOfN("expire_black", u)
    <3>1. CASE c.op = "sadd" /\ u = Owner(c.jti)
      <4>1. \E d \in Elems(r) : d.op = "expire_black" /\ d.jti = c.jti
        BY <2>1, <3>1 DEF ReplyOf
      <4>. QED
        BY <2>1, <3>1, <4>1 DEF Owner
    <3>2. CASE c.op = "expire_black" /\ u = Owner(c.jti)
      <4>1. black[u].mem # {} /\ black'[u].until = clock + c.n
        BY <2>1, <2>5, <3>2 DEF EffectOn
      <4>. QED
        BY <2>5, <2>e, <4>1
    <3>3. CASE c.op \notin {"sadd", "expire_black"} \/ u # Owner(c.jti)
      <4>1. black[u].mem # {} /\ black[u].until = Forever
        BY <2>1, <2>5, <3>3 DEF EffectOn
      <4>a. PICK v \in Processes : \E d \in Cmds(v) : d.op = "expire_black" /\ Owner(d.jti) = u
        BY <2>5, <4>1 DEF TtlsFollow, PendingOf
      <4>2. PICK d \in Cmds(v) : d.op = "expire_black" /\ Owner(d.jti) = u
        BY <4>a
      <4>3. d # c
        BY <3>3, <4>2
      <4>4. d \in Elems(prog'[v].todo)
        BY <2>4, <4>2, <4>3
      <4>. QED
        BY <2>1, <4>2, <4>4 DEF Owner
    <3>. QED
      BY <3>1, <3>2, <3>3
  <2>6. ASSUME cuts = 0, NEW u \in Users, index'[u].mem # {}, index'[u].until = Forever
        PROVE  PendOfN("expire_index", u)
    <3>1. CASE c.op = "zadd" /\ u = Owner(c.jti)
      <4>1. \E d \in Elems(r) : d.op = "expire_index" /\ d.jti = c.jti
        BY <2>1, <3>1 DEF ReplyOf
      <4>. QED
        BY <2>1, <3>1, <4>1 DEF Owner
    <3>2. CASE c.op = "expire_index" /\ u = Owner(c.jti)
      <4>1. index'[u].until = clock + c.n
        BY <2>1, <2>6, <3>2 DEF EffectOn
      <4>. QED
        BY <2>6, <2>e, <4>1
    <3>3. CASE c.op \notin {"zadd", "expire_index"} \/ u # Owner(c.jti)
      <4>1. index[u].mem # {} /\ index[u].until = Forever
        <5>1. CASE u # Owner(c.jti)
          BY <2>1, <2>6, <5>1 DEF EffectOn
        <5>2. CASE u = Owner(c.jti)
          <6>1. index'[u].until = index[u].until
            BY <2>1, <2>6, <3>3, <5>2 DEF EffectOn
          <6>2. index'[u].mem \subseteq index[u].mem
            BY <2>1, <3>3, <5>2 DEF EffectOn
          <6>. QED
            BY <2>6, <6>1, <6>2
        <5>. QED
          BY <5>1, <5>2
      <4>a. PICK v \in Processes : \E d \in Cmds(v) : d.op = "expire_index" /\ Owner(d.jti) = u
        BY <2>6, <4>1 DEF TtlsFollow, PendingOf
      <4>2. PICK d \in Cmds(v) : d.op = "expire_index" /\ Owner(d.jti) = u
        BY <4>a
      <4>3. d # c
        BY <3>3, <4>2
      <4>4. d \in Elems(prog'[v].todo)
        BY <2>4, <4>2, <4>3
      <4>. QED
        BY <2>1, <4>2, <4>4 DEF Owner
    <3>. QED
      BY <3>1, <3>2, <3>3
  <2>7. ASSUME cuts = 0, NEW j \in Tokens, meta'[j].there, meta'[j].until = Forever
        PROVE  PendN("expire_meta", j)
    <3>1. CASE c.op = "hset" /\ j = c.jti
      BY <2>1, <2>2, <3>1
    <3>2. CASE c.op = "expire_meta" /\ j = c.jti
      <4>1. meta'[j].until = clock + c.n
        BY <2>1, <2>7, <3>2 DEF EffectOn
      <4>. QED
        BY <2>7, <2>e, <4>1
    <3>3. CASE c.op \notin {"hset", "expire_meta"} \/ j # c.jti
      <4>1. meta[j].there /\ meta[j].until = Forever
        BY <2>1, <2>7, <3>3 DEF EffectOn
      <4>a. PICK v \in Processes : \E d \in Cmds(v) : d.op = "expire_meta" /\ d.jti = j
        BY <2>7, <4>1 DEF TtlsFollow, Pending
      <4>2. PICK d \in Cmds(v) : d.op = "expire_meta" /\ d.jti = j
        BY <4>a
      <4>3. d # c
        BY <3>3, <4>2
      <4>. QED
        BY <2>4, <4>2, <4>3
    <3>. QED
      BY <3>1, <3>2, <3>3
  <2>. QED
    BY <2>1, <2>3, <2>5, <2>6, <2>7
<1>3. ASSUME Quiet PROVE Good
  <2>1. \A v \in Processes : Follow(prog'[v].todo)
    <3>1. Follow(<<>>)
      BY DEF Follow
    <3>. QED
      BY <1>3, <3>1, NoKeyEmpty DEF Quiet, TtlsFollow
  <2>2. ASSUME cuts' = 0 PROVE Keys
    <3>0. cuts = 0
      <4>1. cuts' >= cuts
        BY <1>3 DEF Quiet
      <4>. QED
        BY <1>t, <2>2, <4>1
    <3>1. \A v \in Processes : prog'[v] = prog[v]
      BY <1>3, <2>2 DEF Quiet
    <3>2. \A v \in Processes : \A c \in Cmds(v) : c \in Elems(prog'[v].todo) /\ token'[c.jti] = token[c.jti]
      BY <1>3, <1>t, <3>1 DEF Quiet, Cmds
    <3>3. \A u \in Users : /\ PendingOf("expire_black", u) => PendOfN("expire_black", u)
                           /\ PendingOf("expire_index", u) => PendOfN("expire_index", u)
      BY <3>2 DEF PendingOf, Owner
    <3>4. \A j \in Tokens : Pending("expire_meta", j) => PendN("expire_meta", j)
      BY <3>2 DEF Pending
    <3>5. \A u \in Users : /\ black'[u].mem # {} => black'[u] = black[u]
                           /\ index'[u].mem # {} => index'[u] = index[u]
      BY <1>3, NoKeyEmpty DEF Quiet
    <3>6. \A j \in Tokens : meta'[j].there => meta'[j] = meta[j]
      BY <1>3, NoKeyEmpty DEF Quiet
    <3>. QED
      BY <3>0, <3>3, <3>4, <3>5, <3>6 DEF TtlsFollow
  <2>. QED
    BY <2>1, <2>2
<1>. QED
  BY <1>1, <1>2, <1>3, RegistryKinds

-----------------------------------------------------------------------------
(***************************************************************************)
(* The theorems.                                                           *)
(***************************************************************************)
RegistryIInv ==
    RegistryInv /\ TtlsCover /\ LastCovered /\ StoredOnce /\ RevokedLeave /\ TtlsFollow

\* After the first login the invariants hold.
LEMMA RegistryInitInv ==
    ASSUME RegistryInit
    PROVE  RegistryIInv
<1>1. PICK u \in Users :
          /\ token = <<CreateAccess(u), CreateRefresh(u)>>
          /\ index = [x \in Users |->
                IF x = u THEN [mem |-> {1, 2}, until |-> Ttl(RefreshLife)] ELSE NoKey]
  BY DEF RegistryInit
<1>2. /\ clock = 0 /\ held = {1, 2} /\ revoked = {} /\ calls = 0 /\ cuts = 0
      /\ account = [x \in Users |-> "active"] /\ marker = [x \in Users |-> Null]
      /\ black = [x \in Users |-> NoKey] /\ last = [x \in Users |-> NoToken]
      /\ prog = [w \in Processes |-> NoProg]
      /\ meta = [j \in Tokens |-> IF j \in {1, 2}
            THEN [exp |-> token[j].exp, until |-> Ttl(token[j].exp), there |-> TRUE] ELSE NoMeta]
  BY DEF RegistryInit
<1> DEFINE t1 == CreateAccess(u)
           t2 == CreateRefresh(u)
<1>3. /\ t1 \in Token /\ t2 \in Token /\ t1.user = u /\ t2.user = u
      /\ t1.exp \in Nat /\ t2.exp \in Nat
  BY <1>2, TokenAssumption DEF CreateAccess, CreateRefresh, Mint, Token
<1>4. token = <<t1, t2>>
  BY <1>1
<1> HIDE DEF t1, t2
<1>5. /\ token \in Seq(Token) /\ Len(token) = 2 /\ token[1] = t1 /\ token[2] = t2
      /\ 1..Len(token) = {1, 2} /\ Len(token) <= MaxTokens
  BY <1>3, <1>4, TokenAssumption
<1>6. \A j \in {1, 2} : token[j].exp \in Nat /\ token[j].user = u
  BY <1>3, <1>5
<1>7. \A e \in Nat : Ttl(e) \in Nat \ {0}
  BY <1>2, TtlBounds
<1>8. /\ NoKey \in [mem : SUBSET Nat, until : Int]
      /\ NoKey \in [mem : SUBSET [jti : Nat, exp : Nat], until : Int]
      /\ NoMeta \in [exp : Nat, until : Int, there : BOOLEAN]
      /\ NoProg \in [todo : Seq(Command), give : SUBSET Nat, gone : SUBSET Nat]
      /\ NoToken \in [user : Nat \cup {Null}, iat : Nat, exp : Nat]
  BY DEF NoKey, NoMeta, NoProg, NoToken, Forever
<1>9. /\ index \in [Users -> [mem : SUBSET Nat, until : Int]]
      /\ index[u].mem = {1, 2} /\ index[u].until # Forever
      /\ \A x \in Users : x # u => index[x] = NoKey
  <2> DEFINE k == [mem |-> {1, 2}, until |-> Ttl(RefreshLife)]
  <2>1. Ttl(RefreshLife) \in Nat
    BY <1>7, TokenAssumption
  <2>2. k \in [mem : SUBSET Nat, until : Int] /\ k.mem = {1, 2} /\ k.until = Ttl(RefreshLife)
    BY <2>1
  <2>3. index = [x \in Users |-> IF x = u THEN k ELSE NoKey]
    BY <1>1
  <2> HIDE DEF k
  <2>. QED
    BY <1>8, <2>1, <2>2, <2>3 DEF Forever
<1>10. /\ meta \in [Tokens -> [exp : Nat, until : Int, there : BOOLEAN]]
       /\ \A j \in Tokens : meta[j].there => j \in {1, 2} /\ meta[j].until # Forever
  <2> DEFINE m(j) == IF j \in {1, 2}
            THEN [exp |-> token[j].exp, until |-> Ttl(token[j].exp), there |-> TRUE] ELSE NoMeta
  <2>1. ASSUME NEW j \in {1, 2} PROVE m(j) \in [exp : Nat, until : Int, there : BOOLEAN] /\ m(j).until # Forever
    <3>1. token[j].exp \in Nat /\ Ttl(token[j].exp) \in Nat
      BY <1>6, <1>7
    <3>. QED
      BY <3>1 DEF Forever
  <2>2. ASSUME NEW j, j \notin {1, 2} PROVE m(j) = NoMeta
    BY <2>2
  <2>3. meta = [j \in Tokens |-> m(j)]
    BY <1>2
  <2> HIDE DEF m
  <2>. QED
    BY <1>8, <2>1, <2>2, <2>3, NoKeyEmpty
<1>11. RegistryTypeOK
  BY <1>2, <1>5, <1>8, <1>9, <1>10 DEF RegistryTypeOK
<1>12. \A w \in Processes : prog[w].todo = <<>> /\ prog[w].give = {} /\ prog[w].gone = {} /\ Cmds(w) = {}
  BY <1>2, NoKeyEmpty, ElemsTuple DEF Cmds
<1>13. Minted
  <2>1. \A x \in Users : \A j \in index[x].mem : j \in 1..Len(token) /\ Owner(j) = x
    BY <1>5, <1>6, <1>9, NoKeyEmpty DEF Owner
  <2>2. \A j \in Tokens : meta[j].there => j <= Len(token)
    BY <1>5, <1>10
  <2>. QED
    BY <1>2, <1>12, <2>1, <2>2 DEF Minted
<1>14. TtlsCover
  BY <1>12 DEF TtlsCover
<1>15. LastCovered
  <2>1. \A x \in Users : Until(last[x]) = 0
    BY <1>2, TokenAssumption DEF Until, NoToken, Smaller
  <2>. QED
    BY <1>2, <2>1 DEF LastCovered
<1>16. StoredOnce
  BY <1>12 DEF StoredOnce, Once
<1>17. RevokedLeave
  BY <1>2, <1>12 DEF RevokedLeave, Revoking
<1>18. TtlsFollow
  <2>1. \A x \in Users : black[x].mem = {}
    BY <1>2, NoKeyEmpty
  <2>2. \A x \in Users : index[x].mem # {} => index[x].until # Forever
    BY <1>9, NoKeyEmpty
  <2>3. \A w \in Processes : Follow(prog[w].todo)
    BY <1>12 DEF Follow
  <2>. QED
    BY <1>10, <2>1, <2>2, <2>3 DEF TtlsFollow
<1>. QED
  BY <1>11, <1>13, <1>14, <1>15, <1>16, <1>17, <1>18 DEF RegistryIInv, RegistryInv

\* The invariants hold throughout, for any number of users, processes, tokens,
\* requests and cut-off requests, and any lifetimes and TTLs.
THEOREM RegistryInvariant == RegistrySpec => []RegistryIInv
<1>1. RegistryInit => RegistryIInv
  BY RegistryInitInv
<1>2. RegistryIInv /\ [RegistryNext]_registryVars => RegistryIInv'
  <2>1. SUFFICES ASSUME RegistryIInv, [RegistryNext]_registryVars PROVE RegistryIInv'
    OBVIOUS
  <2>2. RegistryInv'
    BY <2>1, RegistryKinds DEF RegistryIInv
  <2>3. TtlsCover' /\ LastCovered'
    BY <2>1, TtlsCoverStep, LastCoveredStep DEF RegistryIInv
  <2>4. StoredOnce' /\ RevokedLeave'
    BY <2>1, StoredOnceStep, RevokedLeaveStep DEF RegistryIInv
  <2>5. TtlsFollow'
    BY <2>1, TtlsFollowStep DEF RegistryIInv
  <2>. QED
    BY <2>2, <2>3, <2>4, <2>5 DEF RegistryIInv
<1>. QED
  BY <1>1, <1>2, PTL DEF RegistrySpec

\* The keys, tokens and programs of the registry keep their types.
THEOREM RegistryTypes == RegistrySpec => []RegistryTypeOK
<1>1. RegistryIInv => RegistryTypeOK
  BY DEF RegistryIInv, RegistryInv
<1>. QED
  BY <1>1, RegistryInvariant, PTL

\* blacklist_token: the token whose revocation has set the TTL of the shared
\* blacklist key last is refused until it expires or the longest TTL is over.
THEOREM RevocationHolds == RegistrySpec => []LastRevocationHolds
<1>1. RegistryIInv => LastRevocationHolds
  <2>1. SUFFICES ASSUME RegistryIInv, NEW u \in Users, last[u].user # Null,
                        clock < last[u].exp, clock < last[u].iat + BlacklistTtl
                 PROVE  Blacklisted(last[u].user)
    BY DEF LastRevocationHolds
  <2>2. clock \in Nat /\ last[u].exp \in Nat /\ last[u].iat \in Nat /\ BlacklistTtl \in Nat
    BY <2>1, TokenAssumption DEF RegistryIInv, RegistryInv, RegistryTypeOK
  <2>3. clock < Until(last[u])
    BY <2>1, <2>2 DEF Until, Smaller
  <2>4. /\ token[last[u].user].user = u
        /\ [jti |-> last[u].user, exp |-> last[u].exp] \in black[u].mem
    BY <2>1, <2>3 DEF RegistryIInv, LastCovered, Owner
  <2> DEFINE m == [jti |-> last[u].user, exp |-> last[u].exp]
  <2>5. m \in black[token[last[u].user].user].mem /\ m.jti = last[u].user /\ m.exp >= clock
    BY <2>1, <2>2, <2>4
  <2> HIDE DEF m
  <2>. QED
    BY <2>5 DEF Blacklisted
<1>. QED
  BY <1>1, RegistryInvariant, PTL

\* revoke_session, revoke_all_user_sessions: a token that a completed request
\* has revoked is never listed as a session again.
THEOREM RevokedStayOut == RegistrySpec => []RevokedNotListed
<1>1. RegistryIInv => RevokedNotListed
  BY DEF RegistryIInv, RevokedLeave, Out, RevokedNotListed, Listed
<1>. QED
  BY <1>1, RegistryInvariant, PTL

\* store_session, blacklist_token: when all requests are over and none was cut
\* off, every key has a TTL.
THEOREM KeysExpire == RegistrySpec => []NoImmortalKeys
<1>1. RegistryIInv => NoImmortalKeys
  <2>1. SUFFICES ASSUME RegistryIInv, cuts = 0, \A w \in Processes : Resting(w)
                 PROVE  /\ \A u \in Users : /\ black[u].mem # {} => black[u].until # Forever
                                            /\ index[u].mem # {} => index[u].until # Forever
                        /\ \A j \in Tokens : meta[j].there => meta[j].until # Forever
    BY DEF NoImmortalKeys
  <2>2. \A w \in Processes : Cmds(w) = {}
    BY <2>1, RestingEmpty
  <2>. QED
    BY <2>1, <2>2 DEF RegistryIInv, TtlsFollow, Pending, PendingOf
<1>. QED
  BY <1>1, RegistryInvariant, PTL

=============================================================================
