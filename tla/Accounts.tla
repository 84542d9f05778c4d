------------------------------ MODULE Accounts ------------------------------
(***************************************************************************)
(* Customer accounts: the guest account of a checkout, registration and    *)
(* the claim of a guest account, e-mail codes, password reset, sessions.   *)
(*                                                                         *)
(* A request is one transaction.  Its plain reads come from the snapshot   *)
(* of its first read; its writes take the rows of the address and become   *)
(* visible when it commits.  Registration and resend mail the code after   *)
(* their writes and before the commit, so they hold the rows while the     *)
(* mail goes out ("sent"); the other requests write and commit in one      *)
(* step, since nobody sees what lies between.                              *)
(*                                                                         *)
(* Left out: names and phones, the hashes, how sessions are encoded.  Two  *)
(* codes drawn at random are taken to differ; they are numbered in the     *)
(* order in which they are drawn.                                          *)
(***************************************************************************)
EXTENDS Naturals

CONSTANTS
  Emails,     \* normalized addresses
  Visitors,   \* requests that run at a time
  Passwords,
  MaxCodes,   \* bound: codes and reset tokens ever drawn
  Nobody      \* no row, no password

Roles  == {"guest", "customer", "admin"}
Kinds  == {"register", "resend", "verify", "checkout", "forgot", "reset"}
Codes  == 1..MaxCodes

Account == [password : Passwords \cup {Nobody}, role : Roles, verified : BOOLEAN]
Token   == [number : Codes, fresh : BOOLEAN]
Form    == [kind : Kinds, email : Emails, password : Passwords \cup {Nobody},
            seen : Account \cup {Nobody}, seenToken : Token \cup {Nobody},
            code : Codes \cup {Nobody}]

ASSUME AccountsAssumption ==
  /\ MaxCodes \in Nat
  /\ Nobody \notin Passwords \cup Account \cup Token \cup Form \cup Codes

VARIABLES
  account,  \* users, by e-mail (a unique column)
  vcode,    \* email_verification_tokens, by e-mail
  reset,    \* password_reset_tokens, by e-mail
  orphan,   \* addresses with bookings that belong to no user
  session,  \* addresses with a signed-in browser
  stage,    \* where each request stands
  form,     \* what it was sent and what it read
  drawn,    \* how many codes and tokens were drawn
  mailed,   \* codes that went to the mail server, by e-mail
  lost      \* history: codes whose request did not commit

accountVars == <<account, vcode, reset, orphan, session, stage, form, drawn, mailed, lost>>
rowVars     == <<account, vcode, reset, orphan, session>>

AccountsTypeOK ==
  /\ account \in [Emails -> Account \cup {Nobody}]
  /\ vcode \in [Emails -> Token \cup {Nobody}]
  /\ reset \in [Emails -> Token \cup {Nobody}]
  /\ orphan \subseteq Emails
  /\ session \subseteq Emails
  /\ stage \in [Visitors -> {"idle", "read", "sent"}]
  /\ form \in [Visitors -> Form \cup {Nobody}]
  /\ \A r \in Visitors : stage[r] # "idle" => form[r] # Nobody
  /\ drawn \in 0..MaxCodes
  /\ mailed \in [Emails -> SUBSET Codes]
  /\ lost \subseteq Codes

HasPassword(a) == a # Nobody /\ a.password # Nobody
IsVerified(a)  == a # Nobody /\ a.verified

\* Accounts from before the codes existed are verified (migration 0005).
AccountsInit ==
  /\ account \in [Emails -> {Nobody} \cup
       [password : Passwords, role : {"customer", "admin"}, verified : {TRUE}]]
  /\ vcode = [e \in Emails |-> Nobody]
  /\ reset = [e \in Emails |-> Nobody]
  /\ orphan \in SUBSET Emails
  /\ session = {}
  /\ stage = [r \in Visitors |-> "idle"]
  /\ form = [r \in Visitors |-> Nobody]
  /\ drawn = 0
  /\ mailed = [e \in Emails |-> {}]
  /\ lost = {}

-----------------------------------------------------------------------------
\* A request begins: it reads the account and the token its kind looks at.
Begins(r, kind, e, p, token, code) ==
  /\ stage[r] = "idle"
  /\ stage' = [stage EXCEPT ![r] = "read"]
  /\ form' = [form EXCEPT ![r] = [kind |-> kind, email |-> e, password |-> p,
                                  seen |-> account[e], seenToken |-> token, code |-> code]]
  /\ UNCHANGED <<rowVars, drawn, mailed, lost>>

\* The request ends: what it keeps of itself is gone.
Ends(r) ==
  /\ stage' = [stage EXCEPT ![r] = "idle"]
  /\ form' = [form EXCEPT ![r] = Nobody]

\* Mutant of RowsFree: the mail goes out before the writes.
RowsNeverHeld(e) == TRUE

\* Nobody holds the rows of an address between its writes and its commit.
RowsFree(e) == \A s \in Visitors : stage[s] = "sent" => form[s].email # e

Is(r, kind) == form[r] # Nobody /\ form[r].kind = kind

\* An insert fails when the row is there, an update when it is gone; both are
\* known once the row is free.
TokenWritable(r) == (form[r].seenToken = Nobody) <=> (vcode[form[r].email] = Nobody)
AccountWritable(r) ==
  form[r].seen = Nobody => account[form[r].email] = Nobody

-----------------------------------------------------------------------------
(* Registration, claim and resend.                                         *)

\* Mutant of BeginRegister: an account that is verified may register again.
BeginRegisterAnew(r, e, p) == Begins(r, "register", e, p, vcode[e], Nobody)

\* register: 422 for an account that is verified.
BeginRegister(r, e, p) ==
  /\ ~(HasPassword(account[e]) /\ IsVerified(account[e]))
  /\ Begins(r, "register", e, p, vcode[e], Nobody)

\* resend_verification: the same answer, and no code, for anybody else.
BeginResend(r, e) ==
  /\ HasPassword(account[e]) /\ ~IsVerified(account[e])
  /\ Begins(r, "resend", e, Nobody, vcode[e], Nobody)

\* The writes are flushed, which takes the rows, and the code is mailed.  A
\* mail that fails changes nothing else.
SendCode(r) == LET e == form[r].email IN
  /\ stage[r] = "read" /\ (Is(r, "register") \/ Is(r, "resend"))
  /\ drawn < MaxCodes
  /\ RowsFree(e)
  /\ TokenWritable(r)
  /\ Is(r, "register") => AccountWritable(r)
  /\ drawn' = drawn + 1
  /\ form' = [form EXCEPT ![r].code = drawn + 1]
  /\ stage' = [stage EXCEPT ![r] = "sent"]
  /\ mailed' = [mailed EXCEPT ![e] = @ \cup {drawn + 1}]
  /\ UNCHANGED <<rowVars, lost>>

\* The account a registration writes.  email_verified_at = None on a row that
\* was read without a date is no change, so the column is not written.
Registered(r, a) ==
  [password |-> form[r].password, role |-> "customer",
   verified |-> form[r].seen # Nobody /\ a.verified]

CommitRegister(r) == LET e == form[r].email IN
  /\ stage[r] = "sent" /\ Is(r, "register")
  /\ account' = [account EXCEPT ![e] = Registered(r, account[e])]
  /\ vcode' = [vcode EXCEPT ![e] = [number |-> form[r].code, fresh |-> TRUE]]
  /\ orphan' = orphan \ {e}
  /\ Ends(r)
  /\ UNCHANGED <<reset, session, drawn, mailed, lost>>

CommitResend(r) == LET e == form[r].email IN
  /\ stage[r] = "sent" /\ Is(r, "resend")
  /\ vcode' = [vcode EXCEPT ![e] = [number |-> form[r].code, fresh |-> TRUE]]
  /\ Ends(r)
  /\ UNCHANGED <<account, reset, orphan, session, drawn, mailed, lost>>

-----------------------------------------------------------------------------
(* Verification, login, logout.                                            *)

\* verify_email, verify_code: a code that was mailed to the address and is
\* the one on file, less than fifteen minutes old.
BeginVerify(r, e, n) ==
  /\ n \in mailed[e]
  /\ HasPassword(account[e])
  /\ vcode[e] # Nobody /\ vcode[e].number = n /\ vcode[e].fresh
  /\ Begins(r, "verify", e, Nobody, vcode[e], n)

\* consume_verification: the token goes by its key, whatever code it holds by
\* now; the answer signs the customer in.
CommitVerify(r) == LET e == form[r].email IN
  /\ stage[r] = "read" /\ Is(r, "verify")
  /\ RowsFree(e)
  /\ account' = [account EXCEPT ![e].verified = TRUE]
  /\ vcode' = [vcode EXCEPT ![e] = Nobody]
  /\ session' = session \cup {e}
  /\ Ends(r)
  /\ UNCHANGED <<reset, orphan, drawn, mailed, lost>>

\* Mutant of Login: the password is enough.
LoginUnverified(e, p) ==
  /\ HasPassword(account[e]) /\ account[e].password = p
  /\ session' = session \cup {e}
  /\ UNCHANGED <<account, vcode, reset, orphan, stage, form, drawn, mailed, lost>>

Login(e, p) ==
  /\ HasPassword(account[e]) /\ account[e].password = p
  /\ account[e].verified
  /\ session' = session \cup {e}
  /\ UNCHANGED <<account, vcode, reset, orphan, stage, form, drawn, mailed, lost>>

AdminLogin(e, p) ==
  /\ HasPassword(account[e]) /\ account[e].password = p
  /\ account[e].role = "admin"
  /\ session' = session \cup {e}
  /\ UNCHANGED <<account, vcode, reset, orphan, stage, form, drawn, mailed, lost>>

Logout(e) ==
  /\ session' = session \ {e}
  /\ UNCHANGED <<account, vcode, reset, orphan, stage, form, drawn, mailed, lost>>

-----------------------------------------------------------------------------
(* Guest checkout.                                                         *)

BeginCheckout(r, e) == Begins(r, "checkout", e, Nobody, Nobody, Nobody)

\* Mutant of GuestOf: every column is written, from the copy.
GuestOfCopy(r, a) ==
  IF form[r].seen = Nobody
  THEN [password |-> Nobody, role |-> "guest", verified |-> FALSE]
  ELSE form[r].seen

\* ensure_customer_user: an account that was not there is inserted as a guest;
\* of one without password only name and phone are refreshed, for the role is
\* written only if it is none of the three.
GuestOf(r, a) ==
  IF form[r].seen = Nobody
  THEN [password |-> Nobody, role |-> "guest", verified |-> FALSE]
  ELSE a

CommitCheckout(r) == LET e == form[r].email IN
  /\ stage[r] = "read" /\ Is(r, "checkout")
  /\ RowsFree(e)
  /\ AccountWritable(r)
  /\ account' = [account EXCEPT ![e] = GuestOf(r, @)]
  /\ Ends(r)
  /\ UNCHANGED <<vcode, reset, orphan, session, drawn, mailed, lost>>

-----------------------------------------------------------------------------
(* Password reset.                                                         *)

BeginForgot(r, e) ==
  /\ account[e] # Nobody
  /\ Begins(r, "forgot", e, Nobody, reset[e], Nobody)

CommitForgot(r) == LET e == form[r].email IN
  /\ stage[r] = "read" /\ Is(r, "forgot")
  /\ drawn < MaxCodes
  /\ (form[r].seenToken = Nobody) <=> (reset[e] = Nobody)
  /\ drawn' = drawn + 1
  /\ reset' = [reset EXCEPT ![e] = [number |-> drawn + 1, fresh |-> TRUE]]
  /\ Ends(r)
  /\ UNCHANGED <<account, vcode, orphan, session, mailed, lost>>

\* reset_password: the token on file, less than an hour old.
BeginReset(r, e, p) ==
  /\ reset[e] # Nobody /\ reset[e].fresh
  /\ account[e] # Nobody
  /\ Begins(r, "reset", e, p, reset[e], reset[e].number)

CommitReset(r) == LET e == form[r].email IN
  /\ stage[r] = "read" /\ Is(r, "reset")
  /\ RowsFree(e)
  /\ account' = [account EXCEPT ![e].password = form[r].password]
  /\ reset' = [reset EXCEPT ![e] = Nobody]
  /\ Ends(r)
  /\ UNCHANGED <<vcode, orphan, session, drawn, mailed, lost>>

-----------------------------------------------------------------------------
\* Time passes: 15 minutes for a code, 60 for a reset token.
CodeExpires(e) ==
  /\ vcode[e] # Nobody /\ vcode[e].fresh
  /\ vcode' = [vcode EXCEPT ![e].fresh = FALSE]
  /\ UNCHANGED <<account, reset, orphan, session, stage, form, drawn, mailed, lost>>

ResetExpires(e) ==
  /\ reset[e] # Nobody /\ reset[e].fresh
  /\ reset' = [reset EXCEPT ![e].fresh = FALSE]
  /\ UNCHANGED <<account, vcode, orphan, session, stage, form, drawn, mailed, lost>>

\* The transaction is rolled back: a duplicate key, an update that matches no
\* row, an error of the booking, a lost client, a deadlock.  A mail that went
\* out stays out.
AccountAbort(r) ==
  /\ stage[r] # "idle"
  /\ lost' = IF stage[r] = "sent" THEN lost \cup {form[r].code} ELSE lost
  /\ Ends(r)
  /\ UNCHANGED <<rowVars, drawn, mailed>>

VisitorStep(r) ==
  \/ \E e \in Emails :
       \/ \E p \in Passwords : BeginRegister(r, e, p) \/ BeginReset(r, e, p)
       \/ BeginResend(r, e) \/ BeginCheckout(r, e) \/ BeginForgot(r, e)
       \/ \E n \in Codes : BeginVerify(r, e, n)
  \/ SendCode(r) \/ CommitRegister(r) \/ CommitResend(r)
  \/ CommitVerify(r) \/ CommitCheckout(r) \/ CommitForgot(r) \/ CommitReset(r)
  \/ AccountAbort(r)

AccountsNext ==
  \/ \E r \in Visitors : VisitorStep(r)
  \/ \E e \in Emails :
       \/ \E p \in Passwords : Login(e, p) \/ AdminLogin(e, p)
       \/ Logout(e) \/ CodeExpires(e) \/ ResetExpires(e)

AccountsSpec == AccountsInit /\ [][AccountsNext]_accountVars

-----------------------------------------------------------------------------
\* An account stays, with some password if it had one, its verification and
\* its rank, whatever stale copies of it are in flight: a checkout clears no
\* password ("never overwrite a real password", customer_accounts.py:37) and
\* makes no customer a guest, and a second registration, which sets role and
\* email_verified_at, unverifies nobody (session.py:157) and takes no admin's
\* role.  Whose password it is, PasswordChanges says.
AccountKept == [][\A e \in Emails : account[e] # Nobody =>
  /\ account'[e] # Nobody
  /\ HasPassword(account[e]) => HasPassword(account'[e])
  /\ account[e].verified => account'[e].verified
  /\ account[e].role # "guest" => account'[e].role # "guest"
  /\ account[e].role = "admin" <=> account'[e].role = "admin"]_accountVars

\* The password of a verified account changes in two ways: by a reset, with the
\* token that was mailed, or by a registration that read the account before it
\* was verified and commits after.  The second goes round the guard of
\* session.py:148: who verified is left with the password of whoever registered
\* (session.py:149-157).  A registration that reads the account verified, a
\* checkout or a verification never replaces it.
PasswordChanges == [][\A e \in Emails :
  (IsVerified(account[e]) /\ account'[e].password # account[e].password) =>
    \E r \in Visitors : form[r] # Nobody /\ form[r].email = e /\
      \/ CommitReset(r)
      \/ CommitRegister(r) /\ form[r].seen # Nobody /\ ~form[r].seen.verified]_accountVars

\* The code on file is the newest of those that were mailed for good: of two
\* registrations or resends for one address, the one that mails last stores
\* last, because the mail goes out while the row is held
\* (email_verification.py:36-74).
NewestCodeStands == \A e \in Emails :
  (vcode[e] # Nobody /\ RowsFree(e)) =>
    \A n \in mailed[e] \ lost : n <= vcode[e].number

\* Codes exist only for accounts with a password, and who is signed in has a
\* verified account or an admin's (session.py:70-82, 104-118, 209-222).
SessionsSound == \A e \in Emails :
  /\ vcode[e] # Nobody => HasPassword(account[e])
  /\ IsVerified(account[e]) => HasPassword(account[e])
  /\ e \in session => (IsVerified(account[e]) \/ account[e].role = "admin")

=============================================================================
