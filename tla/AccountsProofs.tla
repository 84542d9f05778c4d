--------------------------- MODULE AccountsProofs ---------------------------
(***************************************************************************)
(* What holds of the accounts for any addresses, visitors and passwords.   *)
(***************************************************************************)
EXTENDS Accounts, TLAPS

-----------------------------------------------------------------------------
(* The inductive invariant.                                                *)

\* What a request knows of its address stays true until it ends; one that has
\* mailed its code holds the rows, and its code is the newest.
FormSound(r) == LET f == form[r] IN stage[r] # "idle" =>
  /\ f.kind \in {"register", "reset"} => f.password \in Passwords
  /\ f.seen # Nobody => account[f.email] # Nobody
  /\ f.kind = "register" /\ f.seen # Nobody =>
       ~f.seen.verified /\ account[f.email].role # "admin"
  /\ f.kind \in {"verify", "resend"} => HasPassword(account[f.email])
  /\ f.kind = "reset" => account[f.email] # Nobody
  /\ stage[r] = "sent" =>
       /\ f.kind \in {"register", "resend"}
       /\ f.code \in Codes
       /\ \A n \in mailed[f.email] : n <= f.code
       /\ f.kind = "register" /\ f.seen = Nobody => account[f.email] = Nobody

OneHolder == \A r, s \in Visitors :
  stage[r] = "sent" /\ stage[s] = "sent" /\ form[r].email = form[s].email => r = s

Carries(r, e, n) == stage[r] = "sent" /\ form[r].email = e /\ form[r].code = n

\* Codes that were mailed for good are no newer than the one on file, but for
\* the one whose request still holds the row.
CodeSound(e) ==
  /\ \A n \in mailed[e] : n <= drawn
  /\ vcode[e] # Nobody => \A n \in mailed[e] \ lost :
       n <= vcode[e].number \/ \E r \in Visitors : Carries(r, e, n)

AccountSound(e) ==
  /\ vcode[e] # Nobody => HasPassword(account[e])
  /\ IsVerified(account[e]) => HasPassword(account[e])
  /\ account[e] # Nobody /\ account[e].role = "admin" => account[e].verified
  /\ e \in session => IsVerified(account[e])

AccountsInv ==
  /\ AccountsTypeOK
  /\ OneHolder
  /\ \A r \in Visitors : FormSound(r)
  /\ \A e \in Emails : CodeSound(e) /\ AccountSound(e)

-----------------------------------------------------------------------------
(* What every step leaves of an account, of a request, of a code.          *)

\* AccountKept, of one address.
Kept(e) == account[e] # Nobody =>
  /\ account'[e] # Nobody
  /\ HasPassword(account[e]) => HasPassword(account'[e])
  /\ account[e].verified => account'[e].verified
  /\ account[e].role # "guest" => account'[e].role # "guest"
  /\ account[e].role = "admin" <=> account'[e].role = "admin"

LEMMA NobodyApart ==
  /\ Nobody \notin Passwords /\ Nobody \notin Account /\ Nobody \notin Token
  /\ Nobody \notin Form /\ Nobody \notin Codes
BY AccountsAssumption

LEMMA InForm ==
  ASSUME AccountsTypeOK, NEW r \in Visitors, stage[r] # "idle"
  PROVE  /\ form[r] \in Form /\ form[r].email \in Emails
         /\ form[r].kind \in Kinds /\ form[r] # Nobody
<1>1. form[r] # Nobody
  BY DEF AccountsTypeOK
<1>2. form[r] \in Form
  BY <1>1 DEF AccountsTypeOK
<1> QED
  BY <1>1, <1>2 DEF Form

\* A request that the step passes by keeps what it knows, as long as accounts
\* are kept and the rows it holds are left alone.
LEMMA FormStays ==
  ASSUME AccountsTypeOK, NEW s \in Visitors, FormSound(s),
         stage'[s] = stage[s], form'[s] = form[s], mailed' = mailed,
         \A e \in Emails : Kept(e),
         stage[s] = "sent" => account'[form[s].email] = account[form[s].email]
  PROVE  FormSound(s)'
<1> SUFFICES ASSUME stage[s] # "idle"
             PROVE  FormSound(s)'
  BY DEF FormSound
<1>1. form[s].email \in Emails
  BY InForm
<1> QED
  BY <1>1 DEF FormSound, Kept, HasPassword

LEMMA IdleSound ==
  ASSUME NEW s, stage'[s] = "idle"
  PROVE  FormSound(s)'
BY DEF FormSound

\* The rows of a request that has mailed are its own.
LEMMA HoldsRow ==
  ASSUME OneHolder, NEW r \in Visitors, NEW s \in Visitors, s # r,
         stage[s] = "sent", stage[r] = "sent" \/ RowsFree(form[r].email)
  PROVE  form[s].email # form[r].email
BY DEF OneHolder, RowsFree

LEMMA CodeStays ==
  ASSUME NEW e \in Emails, CodeSound(e), mailed' = mailed, lost' = lost, drawn' = drawn,
         vcode'[e] = Nobody \/
           (vcode[e] # Nobody /\ vcode'[e] # Nobody /\ vcode'[e].number = vcode[e].number),
         \A r \in Visitors : stage[r] = "sent" => stage'[r] = "sent" /\ form'[r] = form[r]
  PROVE  CodeSound(e)'
BY DEF CodeSound, Carries

\* What one address is left with when neither its rows nor its requests change.
LEMMA AccountStays ==
  ASSUME NEW e \in Emails, AccountSound(e), account'[e] = account[e],
         vcode[e] = Nobody => vcode'[e] = Nobody,
         e \in session' => e \in session
  PROVE  AccountSound(e)'
BY DEF AccountSound

LEMMA Together ==
  ASSUME AccountsTypeOK', OneHolder', \A r \in Visitors : FormSound(r)',
         \A e \in Emails : CodeSound(e)' /\ AccountSound(e)'
  PROVE  AccountsInv'
<1>1. (\A r \in Visitors : FormSound(r))'
  BY Zenon
<1>2. (\A e \in Emails : CodeSound(e) /\ AccountSound(e))'
  BY Zenon
<1> QED
  BY <1>1, <1>2 DEF AccountsInv

\* A request that ends or starts holds no rows after.
LEMMA HolderStays ==
  ASSUME OneHolder,
         \A r \in Visitors : stage'[r] = "sent" => stage[r] = "sent" /\ form'[r] = form[r]
  PROVE  OneHolder'
BY DEF OneHolder

LEMMA EndsOne ==
  ASSUME AccountsTypeOK, NEW r \in Visitors, Ends(r)
  PROVE  /\ stage'[r] = "idle"
         /\ \A s \in Visitors : s # r => stage'[s] = stage[s] /\ form'[s] = form[s]
         /\ \A s \in Visitors : stage'[s] = "sent" => stage[s] = "sent" /\ form'[s] = form[s]
         /\ stage' \in [Visitors -> {"idle", "read", "sent"}]
         /\ form' \in [Visitors -> Form \cup {Nobody}]
         /\ \A s \in Visitors : stage'[s] # "idle" => form'[s] # Nobody
BY DEF Ends, AccountsTypeOK

-----------------------------------------------------------------------------
(* The steps.                                                              *)

LEMMA BeginsInv ==
  ASSUME AccountsInv, NEW r \in Visitors, NEW kind \in Kinds, NEW e \in Emails,
         NEW p \in Passwords \cup {Nobody}, NEW token \in Token \cup {Nobody},
         NEW code \in Codes \cup {Nobody},
         Begins(r, kind, e, p, token, code),
         kind \in {"register", "reset"} => p \in Passwords,
         kind \in {"verify", "resend"} => HasPassword(account[e]),
         kind = "reset" => account[e] # Nobody,
         kind = "register" => ~IsVerified(account[e])
  PROVE  AccountsInv' /\ \A x \in Emails : Kept(x)
<1> DEFINE f == [kind |-> kind, email |-> e, password |-> p, seen |-> account[e],
                 seenToken |-> token, code |-> code]
<1>0. AccountsTypeOK /\ OneHolder
  BY DEF AccountsInv
<1>1. f \in Form
  BY <1>0 DEF AccountsTypeOK, Form
<1>2. /\ stage[r] = "idle" /\ stage' = [stage EXCEPT ![r] = "read"]
      /\ form' = [form EXCEPT ![r] = f] /\ UNCHANGED <<rowVars, drawn, mailed, lost>>
  BY DEF Begins
<1>f. /\ f.kind = kind /\ f.email = e /\ f.password = p /\ f.seen = account[e]
  OBVIOUS
<1> HIDE DEF f
<1>3. \A x \in Emails : Kept(x)
  BY <1>2 DEF rowVars, Kept
<1>4. AccountsTypeOK'
  BY <1>0, <1>1, <1>2, NobodyApart DEF AccountsTypeOK, rowVars
<1>5. /\ stage'[r] = "read" /\ form'[r] = f
      /\ \A s \in Visitors : s # r => stage'[s] = stage[s] /\ form'[s] = form[s]
  BY <1>0, <1>2 DEF AccountsTypeOK
<1>6. OneHolder'
  BY <1>0, <1>5, HolderStays
<1>7. ASSUME NEW s \in Visitors
      PROVE  FormSound(s)'
  <2>1. CASE s = r
    <3>1. stage'[s] # "sent"
      BY <1>5, <2>1
    <3>2. /\ f.kind \in {"register", "reset"} => f.password \in Passwords
          /\ f.seen # Nobody => account'[f.email] # Nobody
          /\ f.kind \in {"verify", "resend"} => HasPassword(account'[f.email])
          /\ f.kind = "reset" => account'[f.email] # Nobody
          /\ f.kind = "register" /\ f.seen # Nobody =>
               ~f.seen.verified /\ account'[f.email].role # "admin"
      BY <1>2, <1>f DEF rowVars, IsVerified, AccountsInv, AccountSound
    <3> QED
      BY <1>5, <2>1, <3>1, <3>2 DEF FormSound
  <2>2. CASE s # r
    BY <1>0, <1>2, <1>3, <1>5, <2>2, FormStays DEF AccountsInv, rowVars
  <2> QED
    BY <2>1, <2>2
<1>8. ASSUME NEW x \in Emails
      PROVE  CodeSound(x)' /\ AccountSound(x)'
  <2>1. CodeSound(x)'
    BY <1>2, <1>5, CodeStays DEF AccountsInv, CodeSound, Carries, rowVars
  <2>2. AccountSound(x)'
    BY <1>2, AccountStays DEF AccountsInv, rowVars
  <2> QED
    BY <2>1, <2>2
<1> QED
  BY <1>3, <1>4, <1>6, <1>7, <1>8, Together

LEMMA SendCodeInv ==
  ASSUME AccountsInv, NEW r \in Visitors, SendCode(r)
  PROVE  AccountsInv' /\ \A x \in Emails : Kept(x)
<1> DEFINE e == form[r].email
           c == drawn + 1
<1>0. AccountsTypeOK /\ OneHolder /\ FormSound(r)
  BY DEF AccountsInv
<1>1. /\ stage[r] = "read" /\ form[r].kind \in {"register", "resend"} /\ drawn < MaxCodes
      /\ RowsFree(e)
      /\ form[r].kind = "register" => AccountWritable(r)
      /\ drawn' = c /\ form' = [form EXCEPT ![r].code = c]
      /\ stage' = [stage EXCEPT ![r] = "sent"]
      /\ mailed' = [mailed EXCEPT ![e] = @ \cup {c}]
      /\ UNCHANGED <<account, vcode, reset, orphan, session, lost>>
  BY <1>0, InForm DEF SendCode, Is, rowVars, AccountsTypeOK
<1>2. form[r] \in Form /\ e \in Emails
  BY <1>1, <1>0, InForm
<1>3. c \in Codes /\ c \in 0..MaxCodes /\ drawn \in Nat /\ c \in Nat /\ drawn <= c
  BY <1>0, <1>1, AccountsAssumption DEF AccountsTypeOK, Codes
<1>4. \A x \in Emails : \A n \in mailed[x] : n <= drawn /\ n <= c /\ n \in Nat
  <2>1. ASSUME NEW x \in Emails, NEW n \in mailed[x]
        PROVE  n <= drawn /\ n \in Nat
    BY <1>0, <2>1 DEF AccountsInv, CodeSound, AccountsTypeOK, Codes
  <2> QED
    BY <2>1, <1>3
<1> HIDE DEF c
<1>5. /\ stage'[r] = "sent" /\ form'[r].email = e /\ form'[r].kind = form[r].kind
      /\ form'[r].seen = form[r].seen /\ form'[r].password = form[r].password
      /\ form'[r].code = c /\ form'[r] \in Form
      /\ \A s \in Visitors : s # r => stage'[s] = stage[s] /\ form'[s] = form[s]
      /\ mailed'[e] = mailed[e] \cup {c}
      /\ \A x \in Emails : x # e => mailed'[x] = mailed[x]
  BY <1>0, <1>1, <1>2, <1>3 DEF AccountsTypeOK, Form
<1>6. AccountsTypeOK'
  <2>1. form' \in [Visitors -> Form \cup {Nobody}]
    BY <1>0, <1>1, <1>5 DEF AccountsTypeOK
  <2>2. \A s \in Visitors : stage'[s] # "idle" => form'[s] # Nobody
    BY <1>0, <1>5, NobodyApart DEF AccountsTypeOK
  <2>3. mailed' \in [Emails -> SUBSET Codes]
    BY <1>0, <1>1, <1>3 DEF AccountsTypeOK
  <2> QED
    BY <1>0, <1>1, <1>3, <2>1, <2>2, <2>3 DEF AccountsTypeOK
<1>7. OneHolder'
  <2> SUFFICES ASSUME NEW s \in Visitors, s # r, stage[s] = "sent"
               PROVE  form[s].email # e
    BY <1>0, <1>5 DEF OneHolder
  <2> QED
    BY <1>1 DEF RowsFree
<1>8. ASSUME NEW s \in Visitors
      PROVE  FormSound(s)'
  <2>1. CASE s = r
    <3>1. \A n \in mailed'[e] : n <= c
      BY <1>2, <1>3, <1>4, <1>5
    <3>2. form[r].kind = "register" /\ form[r].seen = Nobody => account'[e] = Nobody
      BY <1>1 DEF AccountWritable
    <3> QED
      BY <1>0, <1>1, <1>3, <1>5, <2>1, <3>1, <3>2 DEF FormSound
  <2>2. CASE s # r
    <3> SUFFICES ASSUME stage[s] # "idle"
                 PROVE  FormSound(s)'
      BY <1>5, <2>2 DEF FormSound
    <3>1. form[s].email \in Emails
      BY <1>0, InForm
    <3>2. stage[s] = "sent" => mailed'[form[s].email] = mailed[form[s].email]
      BY <1>1, <1>5, <3>1 DEF RowsFree
    <3> QED
      BY <1>1, <1>5, <2>2, <3>1, <3>2 DEF AccountsInv, FormSound
  <2> QED
    BY <2>1, <2>2
<1>9. ASSUME NEW x \in Emails
      PROVE  CodeSound(x)' /\ AccountSound(x)'
  <2>1. \A n \in mailed'[x] : n <= drawn'
    BY <1>1, <1>2, <1>3, <1>4, <1>5
  <2>2. ASSUME NEW n \in mailed'[x] \ lost', vcode'[x] # Nobody
        PROVE  n <= vcode'[x].number \/ \E s \in Visitors : Carries(s, x, n)'
    <3>1. CASE n \in mailed[x]
      <4>1. n <= vcode[x].number \/ \E s \in Visitors : Carries(s, x, n)
        BY <1>1, <2>2, <3>1 DEF AccountsInv, CodeSound
      <4>2. ASSUME NEW s \in Visitors, Carries(s, x, n)
            PROVE  Carries(s, x, n)'
        BY <1>1, <1>5, <4>2 DEF Carries
      <4> QED
        BY <1>1, <4>1, <4>2
    <3>2. CASE n \notin mailed[x]
      <4>1. x = e /\ n = c
        BY <1>2, <1>5, <2>2, <3>2
      <4> QED
        BY <1>5, <4>1 DEF Carries
    <3> QED
      BY <3>1, <3>2
  <2>3. AccountSound(x)'
    BY <1>1, AccountStays DEF AccountsInv
  <2>4. CodeSound(x)'
    BY <2>1, <2>2 DEF CodeSound
  <2> QED
    BY <2>3, <2>4
<1> QED
  BY <1>1, <1>6, <1>7, <1>8, <1>9, Together DEF Kept

\* The code a request stores is the newest that was mailed to the address.
LEMMA StoredCode ==
  ASSUME AccountsInv, NEW r \in Visitors, stage[r] = "sent", Ends(r),
         vcode' = [vcode EXCEPT ![form[r].email] = [number |-> form[r].code, fresh |-> TRUE]],
         UNCHANGED <<drawn, mailed, lost>>, NEW x \in Emails
  PROVE  CodeSound(x)'
<1> DEFINE e == form[r].email
<1>1. AccountsTypeOK /\ FormSound(r) /\ CodeSound(x)
  BY DEF AccountsInv
<1>2. e \in Emails
  BY <1>1, InForm
<1>3. CASE x = e
  <2>1. vcode'[x].number = form[r].code
    BY <1>1, <1>2, <1>3 DEF AccountsTypeOK
  <2>2. \A n \in mailed[x] : n <= form[r].code
    BY <1>1, <1>3 DEF FormSound
  <2> QED
    BY <1>1, <2>1, <2>2 DEF CodeSound
<1>4. CASE x # e
  <2>1. vcode'[x] = vcode[x]
    BY <1>1, <1>4 DEF AccountsTypeOK
  <2>2. ASSUME NEW n, NEW s \in Visitors, Carries(s, x, n)
        PROVE  Carries(s, x, n)'
    BY <1>1, <1>4, <2>2, EndsOne DEF Carries
  <2> QED
    BY <1>1, <2>1, <2>2 DEF CodeSound
<1> QED
  BY <1>3, <1>4

\* A request that ends, having written at most the account of its address and
\* only if nobody else holds that row, leaves the others sound.
LEMMA EndsSound ==
  ASSUME AccountsInv, NEW r \in Visitors, stage[r] # "idle", Ends(r), mailed' = mailed,
         \A x \in Emails : Kept(x),
         \A x \in Emails : x # form[r].email => account'[x] = account[x],
         account' = account \/ stage[r] = "sent" \/ RowsFree(form[r].email)
  PROVE  OneHolder' /\ \A s \in Visitors : FormSound(s)'
<1>1. AccountsTypeOK /\ OneHolder
  BY DEF AccountsInv
<1>2. OneHolder'
  BY <1>1, EndsOne, HolderStays
<1>3. ASSUME NEW s \in Visitors
      PROVE  FormSound(s)'
  <2>1. CASE s = r
    BY <1>1, <2>1, EndsOne, IdleSound
  <2>2. CASE s # r
    <3>1. stage[s] = "sent" => account'[form[s].email] = account[form[s].email]
      <4> SUFFICES ASSUME stage[s] = "sent"
                   PROVE  account'[form[s].email] = account[form[s].email]
        OBVIOUS
      <4>1. CASE account' = account
        BY <4>1
      <4>2. CASE stage[r] = "sent" \/ RowsFree(form[r].email)
        <5>1. form[s].email # form[r].email
          BY <1>1, <2>2, <4>2, HoldsRow
        <5>2. form[s].email \in Emails
          BY <1>1, InForm
        <5> QED
          BY <5>1, <5>2
      <4> QED
        BY <4>1, <4>2
    <3> QED
      BY <1>1, <2>2, <3>1, EndsOne, FormStays DEF AccountsInv
  <2> QED
    BY <2>1, <2>2
<1> QED
  BY <1>2, <1>3

LEMMA EndsType ==
  ASSUME AccountsTypeOK, NEW r \in Visitors, Ends(r),
         account' \in [Emails -> Account \cup {Nobody}],
         vcode' \in [Emails -> Token \cup {Nobody}],
         reset' \in [Emails -> Token \cup {Nobody}],
         orphan' \subseteq Emails, session' \subseteq Emails,
         drawn' \in 0..MaxCodes, mailed' = mailed, lost' \subseteq Codes
  PROVE  AccountsTypeOK'
BY EndsOne DEF AccountsTypeOK

LEMMA CommitRegisterInv ==
  ASSUME AccountsInv, NEW r \in Visitors, CommitRegister(r)
  PROVE  AccountsInv' /\ \A x \in Emails : Kept(x)
<1> DEFINE e == form[r].email
           a == Registered(r, account[e])
           t == [number |-> form[r].code, fresh |-> TRUE]
<1>0. AccountsTypeOK /\ FormSound(r)
  BY DEF AccountsInv
<1>1. /\ stage[r] = "sent" /\ form[r].kind = "register" /\ Ends(r)
      /\ account' = [account EXCEPT ![e] = a] /\ vcode' = [vcode EXCEPT ![e] = t]
      /\ orphan' = orphan \ {e} /\ UNCHANGED <<reset, session, drawn, mailed, lost>>
  BY DEF CommitRegister, Is
<1>2. e \in Emails /\ form[r].password \in Passwords /\ form[r].code \in Codes
  BY <1>0, <1>1, InForm DEF FormSound
<1>3. account[e] \in Account \/ account[e] = Nobody
  BY <1>0, <1>2 DEF AccountsTypeOK
<1>4. form[r].seen # Nobody => account[e] \in Account
  BY <1>0, <1>1, <1>3 DEF FormSound
<1>5. a \in Account /\ t \in Token
  BY <1>2, <1>4 DEF Registered, Account, Roles, Token
<1>6. /\ HasPassword(a) /\ a.role = "customer"
      /\ account[e] # Nobody /\ account[e].verified => a.verified
      /\ account[e] # Nobody => account[e].role # "admin"
  BY <1>0, <1>1, <1>2, <1>5, NobodyApart DEF HasPassword, Registered, FormSound
<1> HIDE DEF a, t
<1>7. /\ account'[e] = a /\ vcode'[e] = t
      /\ \A x \in Emails : x # e => account'[x] = account[x] /\ vcode'[x] = vcode[x]
  BY <1>0, <1>1, <1>2 DEF AccountsTypeOK
<1>8. \A x \in Emails : Kept(x)
  BY <1>6, <1>7 DEF Kept, HasPassword
<1>9. AccountsTypeOK'
  BY <1>0, <1>1, <1>5, EndsType DEF AccountsTypeOK
<1>10. OneHolder' /\ \A s \in Visitors : FormSound(s)'
  BY <1>1, <1>7, <1>8, EndsSound
<1>11. ASSUME NEW x \in Emails
       PROVE  CodeSound(x)' /\ AccountSound(x)'
  <2>1. CodeSound(x)'
    BY <1>1, StoredCode DEF t
  <2>2. CASE x = e
    <3>1. x \in session => IsVerified(account[x])
      BY DEF AccountsInv, AccountSound
    <3>2. x \in session' => IsVerified(account'[x])
      BY <1>1, <1>6, <1>7, <2>2, <3>1 DEF IsVerified, HasPassword
    <3> QED
      BY <1>6, <1>7, <2>1, <2>2, <3>2 DEF AccountSound
  <2>3. CASE x # e
    BY <1>1, <1>7, <2>1, <2>3, AccountStays DEF AccountsInv
  <2> QED
    BY <2>2, <2>3
<1> QED
  BY <1>8, <1>9, <1>10, <1>11, Together

LEMMA CommitResendInv ==
  ASSUME AccountsInv, NEW r \in Visitors, CommitResend(r)
  PROVE  AccountsInv' /\ \A x \in Emails : Kept(x)
<1> DEFINE e == form[r].email
           t == [number |-> form[r].code, fresh |-> TRUE]
<1>0. AccountsTypeOK /\ FormSound(r)
  BY DEF AccountsInv
<1>1. /\ stage[r] = "sent" /\ form[r].kind = "resend" /\ Ends(r)
      /\ vcode' = [vcode EXCEPT ![e] = t]
      /\ UNCHANGED <<account, reset, orphan, session, drawn, mailed, lost>>
  BY DEF CommitResend, Is
<1>2. e \in Emails /\ form[r].code \in Codes /\ HasPassword(account[e])
  BY <1>0, <1>1, InForm DEF FormSound
<1>3. t \in Token
  BY <1>2 DEF Token
<1> HIDE DEF t
<1>4. \A x \in Emails : Kept(x)
  BY <1>1 DEF Kept
<1>5. AccountsTypeOK'
  BY <1>0, <1>1, <1>3, EndsType DEF AccountsTypeOK
<1>6. OneHolder' /\ \A s \in Visitors : FormSound(s)'
  BY <1>1, <1>4, EndsSound
<1>7. ASSUME NEW x \in Emails
      PROVE  CodeSound(x)' /\ AccountSound(x)'
  <2>1. CodeSound(x)'
    BY <1>1, StoredCode DEF t
  <2>2. vcode'[x] # Nobody => vcode[x] # Nobody \/ x = e
    BY <1>0, <1>1 DEF AccountsTypeOK
  <2>3. AccountSound(x)'
    BY <1>1, <1>2, <2>2 DEF AccountsInv, AccountSound
  <2> QED
    BY <2>1, <2>3
<1> QED
  BY <1>4, <1>5, <1>6, <1>7, Together

LEMMA CommitVerifyInv ==
  ASSUME AccountsInv, NEW r \in Visitors, CommitVerify(r)
  PROVE  AccountsInv' /\ \A x \in Emails : Kept(x)
<1> DEFINE e == form[r].email
           a == [account[e] EXCEPT !.verified = TRUE]
<1>0. AccountsTypeOK /\ FormSound(r)
  BY DEF AccountsInv
<1>1. /\ stage[r] = "read" /\ form[r].kind = "verify" /\ Ends(r) /\ RowsFree(e)
      /\ account' = [account EXCEPT ![e].verified = TRUE]
      /\ vcode' = [vcode EXCEPT ![e] = Nobody]
      /\ session' = session \cup {e} /\ UNCHANGED <<reset, orphan, drawn, mailed, lost>>
  BY DEF CommitVerify, Is
<1>2. e \in Emails /\ HasPassword(account[e]) /\ account[e] \in Account
  BY <1>0, <1>1, InForm DEF FormSound, HasPassword, AccountsTypeOK
<1>3. /\ a \in Account /\ a.verified /\ a.password = account[e].password
      /\ a.role = account[e].role
  BY <1>2 DEF Account
<1>4. /\ account'[e] = a /\ vcode'[e] = Nobody
      /\ \A x \in Emails : x # e => account'[x] = account[x] /\ vcode'[x] = vcode[x]
      /\ account' \in [Emails -> Account \cup {Nobody}]
      /\ vcode' \in [Emails -> Token \cup {Nobody}]
  BY <1>0, <1>1, <1>2, <1>3 DEF AccountsTypeOK
<1> HIDE DEF a
<1>5. a # Nobody
  BY <1>3, NobodyApart
<1>6. \A x \in Emails : Kept(x)
  BY <1>3, <1>4, <1>5 DEF Kept, HasPassword
<1>7. AccountsTypeOK'
  BY <1>0, <1>1, <1>2, <1>4, EndsType DEF AccountsTypeOK
<1>8. OneHolder' /\ \A s \in Visitors : FormSound(s)'
  BY <1>1, <1>4, <1>6, EndsSound
<1>9. ASSUME NEW x \in Emails
      PROVE  CodeSound(x)' /\ AccountSound(x)'
  <2>1. vcode'[x] = Nobody \/ vcode'[x] = vcode[x]
    BY <1>4
  <2>2. \A s \in Visitors : stage[s] = "sent" => stage'[s] = "sent" /\ form'[s] = form[s]
    BY <1>0, <1>1, EndsOne
  <2>3. CodeSound(x)'
    BY <1>1, <2>1, <2>2, CodeStays DEF AccountsInv
  <2>4. CASE x = e
    BY <1>2, <1>3, <1>4, <1>5, <2>3, <2>4 DEF AccountSound, HasPassword, IsVerified
  <2>5. CASE x # e
    BY <1>1, <1>4, <2>3, <2>5, AccountStays DEF AccountsInv
  <2> QED
    BY <2>4, <2>5
<1> QED
  BY <1>6, <1>7, <1>8, <1>9, Together

LEMMA CommitCheckoutInv ==
  ASSUME AccountsInv, NEW r \in Visitors, CommitCheckout(r)
  PROVE  AccountsInv' /\ \A x \in Emails : Kept(x)
<1> DEFINE e == form[r].email
           a == GuestOf(r, account[e])
<1>0. AccountsTypeOK /\ FormSound(r)
  BY DEF AccountsInv
<1>1. /\ stage[r] = "read" /\ Ends(r) /\ RowsFree(e) /\ AccountWritable(r)
      /\ account' = [account EXCEPT ![e] = a]
      /\ UNCHANGED <<vcode, reset, orphan, session, drawn, mailed, lost>>
  BY DEF CommitCheckout
<1>2. e \in Emails
  BY <1>0, <1>1, InForm
<1>3. /\ form[r].seen = Nobody => account[e] = Nobody
      /\ form[r].seen # Nobody => account[e] # Nobody
  BY <1>0, <1>1 DEF FormSound, AccountWritable
<1>4. /\ a \in Account
      /\ account[e] # Nobody => a = account[e]
      /\ account[e] = Nobody => ~a.verified /\ a.role = "guest"
  BY <1>0, <1>2, <1>3 DEF GuestOf, Account, Roles, AccountsTypeOK
<1> HIDE DEF a
<1>5. /\ account'[e] = a
      /\ \A x \in Emails : x # e => account'[x] = account[x]
      /\ account' \in [Emails -> Account \cup {Nobody}]
  BY <1>0, <1>1, <1>2, <1>4 DEF AccountsTypeOK
<1>6. a # Nobody
  BY <1>4, NobodyApart
<1>7. \A x \in Emails : Kept(x)
  BY <1>4, <1>5, <1>6 DEF Kept
<1>8. AccountsTypeOK'
  BY <1>0, <1>1, <1>5, EndsType DEF AccountsTypeOK
<1>9. OneHolder' /\ \A s \in Visitors : FormSound(s)'
  BY <1>1, <1>5, <1>7, EndsSound
<1>10. ASSUME NEW x \in Emails
       PROVE  CodeSound(x)' /\ AccountSound(x)'
  <2>1. \A s \in Visitors : stage[s] = "sent" => stage'[s] = "sent" /\ form'[s] = form[s]
    BY <1>0, <1>1, EndsOne
  <2>2. CodeSound(x)'
    BY <1>1, <2>1, CodeStays DEF AccountsInv, CodeSound
  <2>3. CASE x = e /\ account[e] = Nobody
    <3>1. vcode[x] = Nobody /\ x \notin session
      BY <2>3 DEF AccountsInv, AccountSound, HasPassword, IsVerified
    <3> QED
      BY <1>1, <1>4, <1>5, <2>2, <2>3, <3>1 DEF AccountSound, IsVerified
  <2>4. CASE ~(x = e /\ account[e] = Nobody)
    BY <1>1, <1>4, <1>5, <2>2, <2>4, AccountStays DEF AccountsInv
  <2> QED
    BY <2>3, <2>4
<1> QED
  BY <1>7, <1>8, <1>9, <1>10, Together

LEMMA CommitForgotInv ==
  ASSUME AccountsInv, NEW r \in Visitors, CommitForgot(r)
  PROVE  AccountsInv' /\ \A x \in Emails : Kept(x)
<1> DEFINE e == form[r].email
           t == [number |-> drawn + 1, fresh |-> TRUE]
<1>0. AccountsTypeOK
  BY DEF AccountsInv
<1>1. /\ stage[r] = "read" /\ Ends(r) /\ drawn < MaxCodes /\ drawn' = drawn + 1
      /\ reset' = [reset EXCEPT ![e] = t]
      /\ UNCHANGED <<account, vcode, orphan, session, mailed, lost>>
  BY DEF CommitForgot
<1>2. e \in Emails
  BY <1>0, <1>1, InForm
<1>3. drawn + 1 \in Codes /\ drawn + 1 \in 0..MaxCodes /\ drawn \in Nat
  BY <1>0, <1>1, AccountsAssumption DEF AccountsTypeOK, Codes
<1>4. t \in Token
  BY <1>3 DEF Token
<1> HIDE DEF t
<1>5. \A x \in Emails : Kept(x)
  BY <1>1 DEF Kept
<1>6. AccountsTypeOK'
  BY <1>0, <1>1, <1>3, <1>4, EndsType DEF AccountsTypeOK
<1>7. OneHolder' /\ \A s \in Visitors : FormSound(s)'
  BY <1>1, <1>5, EndsSound
<1>8. ASSUME NEW x \in Emails
      PROVE  CodeSound(x)' /\ AccountSound(x)'
  <2>1. \A s \in Visitors : stage[s] = "sent" => stage'[s] = "sent" /\ form'[s] = form[s]
    BY <1>0, <1>1, EndsOne
  <2>2. ASSUME NEW n \in mailed[x]
        PROVE  n <= drawn'
    <3>1. n <= drawn /\ n \in Nat
      BY <1>0, <2>2 DEF AccountsInv, CodeSound, AccountsTypeOK, Codes
    <3> QED
      BY <1>1, <1>3, <3>1
  <2>3. CodeSound(x)'
    BY <1>1, <2>1, <2>2 DEF AccountsInv, CodeSound, Carries
  <2> QED
    BY <1>1, <2>3, AccountStays DEF AccountsInv
<1> QED
  BY <1>5, <1>6, <1>7, <1>8, Together

LEMMA CommitResetInv ==
  ASSUME AccountsInv, NEW r \in Visitors, CommitReset(r)
  PROVE  AccountsInv' /\ \A x \in Emails : Kept(x)
<1> DEFINE e == form[r].email
           a == [account[e] EXCEPT !.password = form[r].password]
<1>0. AccountsTypeOK /\ FormSound(r)
  BY DEF AccountsInv
<1>1. /\ stage[r] = "read" /\ form[r].kind = "reset" /\ Ends(r) /\ RowsFree(e)
      /\ account' = [account EXCEPT ![e].password = form[r].password]
      /\ reset' = [reset EXCEPT ![e] = Nobody]
      /\ UNCHANGED <<vcode, orphan, session, drawn, mailed, lost>>
  BY DEF CommitReset, Is
<1>2. e \in Emails /\ form[r].password \in Passwords /\ account[e] \in Account
  BY <1>0, <1>1, InForm DEF FormSound, AccountsTypeOK
<1>3. /\ a \in Account /\ a.password \in Passwords /\ a.verified = account[e].verified
      /\ a.role = account[e].role
  BY <1>2 DEF Account
<1>4. /\ account'[e] = a
      /\ \A x \in Emails : x # e => account'[x] = account[x]
      /\ account' \in [Emails -> Account \cup {Nobody}]
      /\ reset' \in [Emails -> Token \cup {Nobody}]
  BY <1>0, <1>1, <1>2, <1>3 DEF AccountsTypeOK
<1> HIDE DEF a
<1>5. a # Nobody /\ HasPassword(a) /\ account[e] # Nobody
  BY <1>2, <1>3, NobodyApart DEF HasPassword
<1>6. \A x \in Emails : Kept(x)
  BY <1>3, <1>4, <1>5 DEF Kept
<1>7. AccountsTypeOK'
  BY <1>0, <1>1, <1>4, EndsType DEF AccountsTypeOK
<1>8. OneHolder' /\ \A s \in Visitors : FormSound(s)'
  BY <1>1, <1>4, <1>6, EndsSound
<1>9. ASSUME NEW x \in Emails
      PROVE  CodeSound(x)' /\ AccountSound(x)'
  <2>1. \A s \in Visitors : stage[s] = "sent" => stage'[s] = "sent" /\ form'[s] = form[s]
    BY <1>0, <1>1, EndsOne
  <2>2. CodeSound(x)'
    BY <1>1, <2>1, CodeStays DEF AccountsInv, CodeSound
  <2>3. CASE x = e
    BY <1>1, <1>3, <1>4, <1>5, <2>2, <2>3 DEF AccountsInv, AccountSound, IsVerified
  <2>4. CASE x # e
    BY <1>1, <1>4, <2>2, <2>4, AccountStays DEF AccountsInv
  <2> QED
    BY <2>3, <2>4
<1> QED
  BY <1>6, <1>7, <1>8, <1>9, Together

\* A request that is given up leaves a code behind only as lost.
LEMMA AbortInv ==
  ASSUME AccountsInv, NEW r \in Visitors, AccountAbort(r)
  PROVE  AccountsInv' /\ \A x \in Emails : Kept(x)
<1>0. AccountsTypeOK /\ FormSound(r)
  BY DEF AccountsInv
<1>1. /\ stage[r] # "idle" /\ Ends(r) /\ UNCHANGED <<account, vcode, reset, orphan, session>>
      /\ drawn' = drawn /\ mailed' = mailed
      /\ lost' = IF stage[r] = "sent" THEN lost \cup {form[r].code} ELSE lost
  BY DEF AccountAbort, rowVars
<1>2. lost' \subseteq Codes
  BY <1>0, <1>1 DEF FormSound, AccountsTypeOK
<1>3. \A x \in Emails : Kept(x)
  BY <1>1 DEF Kept
<1>4. AccountsTypeOK'
  BY <1>0, <1>1, <1>2, EndsType DEF AccountsTypeOK
<1>5. OneHolder' /\ \A s \in Visitors : FormSound(s)'
  BY <1>1, <1>3, EndsSound
<1>6. ASSUME NEW x \in Emails
      PROVE  CodeSound(x)' /\ AccountSound(x)'
  <2>1. ASSUME NEW n \in mailed[x] \ lost', NEW s \in Visitors, Carries(s, x, n)
        PROVE  Carries(s, x, n)'
    <3>1. s # r
      BY <1>1, <2>1 DEF Carries
    <3> QED
      BY <1>0, <1>1, <2>1, <3>1, EndsOne DEF Carries
  <2>2. CodeSound(x)'
    BY <1>1, <2>1 DEF AccountsInv, CodeSound
  <2> QED
    BY <1>1, <2>2, AccountStays DEF AccountsInv
<1> QED
  BY <1>3, <1>4, <1>5, <1>6, Together

\* Steps that touch no request: sessions come and go, codes and tokens age.
LEMMA OtherInv ==
  ASSUME AccountsInv, UNCHANGED <<account, orphan, stage, form, drawn, mailed, lost>>,
         vcode' \in [Emails -> Token \cup {Nobody}],
         reset' \in [Emails -> Token \cup {Nobody}],
         session' \subseteq Emails,
         \A x \in Emails :
           /\ vcode'[x] = Nobody <=> vcode[x] = Nobody
           /\ vcode[x] # Nobody => vcode'[x].number = vcode[x].number
           /\ x \in session' => x \in session \/ IsVerified(account[x])
  PROVE  AccountsInv' /\ \A x \in Emails : Kept(x)
<1>0. AccountsTypeOK /\ OneHolder
  BY DEF AccountsInv
<1>1. \A x \in Emails : Kept(x)
  BY DEF Kept
<1>2. AccountsTypeOK'
  BY <1>0 DEF AccountsTypeOK
<1>3. OneHolder'
  BY <1>0, HolderStays
<1>4. \A s \in Visitors : FormSound(s)'
  BY <1>0, <1>1, FormStays DEF AccountsInv
<1>5. ASSUME NEW x \in Emails
      PROVE  CodeSound(x)' /\ AccountSound(x)'
  <2>1. CodeSound(x)'
    BY CodeStays DEF AccountsInv
  <2> QED
    BY <2>1 DEF AccountsInv, AccountSound
<1> QED
  BY <1>1, <1>2, <1>3, <1>4, <1>5, Together

LEMMA LoginInv ==
  ASSUME AccountsInv, NEW e \in Emails, NEW p \in Passwords,
         Login(e, p) \/ AdminLogin(e, p)
  PROVE  AccountsInv' /\ \A x \in Emails : Kept(x)
<1>0. AccountsTypeOK
  BY DEF AccountsInv
<1>1. IsVerified(account[e])
  BY DEF AccountsInv, AccountSound, Login, AdminLogin, HasPassword, IsVerified
<1>2. /\ UNCHANGED <<account, vcode, reset, orphan, stage, form, drawn, mailed, lost>>
      /\ session' = session \cup {e}
  BY DEF Login, AdminLogin
<1> QED
  BY <1>0, <1>1, <1>2, OtherInv DEF AccountsTypeOK

LEMMA ExpiryInv ==
  ASSUME AccountsInv, NEW e \in Emails, CodeExpires(e) \/ ResetExpires(e)
  PROVE  AccountsInv' /\ \A x \in Emails : Kept(x)
<1>0. AccountsTypeOK
  BY DEF AccountsInv
<1>1. CASE CodeExpires(e)
  <2> DEFINE t == [vcode[e] EXCEPT !.fresh = FALSE]
  <2>1. vcode[e] \in Token
    BY <1>0, <1>1 DEF CodeExpires, AccountsTypeOK
  <2>2. t \in Token /\ t.number = vcode[e].number
    BY <2>1 DEF Token
  <2>3. vcode' = [vcode EXCEPT ![e] = t]
    BY <1>0, <1>1 DEF CodeExpires, AccountsTypeOK
  <2> HIDE DEF t
  <2>4. vcode' \in [Emails -> Token \cup {Nobody}]
    BY <1>0, <2>2, <2>3 DEF AccountsTypeOK
  <2>5. \A x \in Emails :
          /\ vcode'[x] = Nobody <=> vcode[x] = Nobody
          /\ vcode[x] # Nobody => vcode'[x].number = vcode[x].number
    BY <1>0, <1>1, <2>2, <2>3, NobodyApart DEF CodeExpires, AccountsTypeOK
  <2> QED
    BY <1>0, <1>1, <2>4, <2>5, OtherInv DEF CodeExpires, AccountsTypeOK
<1>2. CASE ResetExpires(e)
  <2> DEFINE t == [reset[e] EXCEPT !.fresh = FALSE]
  <2>1. reset[e] \in Token
    BY <1>0, <1>2 DEF ResetExpires, AccountsTypeOK
  <2>2. t \in Token
    BY <2>1 DEF Token
  <2>3. reset' = [reset EXCEPT ![e] = t]
    BY <1>0, <1>2 DEF ResetExpires, AccountsTypeOK
  <2> HIDE DEF t
  <2>4. reset' \in [Emails -> Token \cup {Nobody}]
    BY <1>0, <2>2, <2>3 DEF AccountsTypeOK
  <2> QED
    BY <1>0, <1>2, <2>4, OtherInv DEF ResetExpires, AccountsTypeOK
<1> QED
  BY <1>1, <1>2

\* The six ways in which a request begins.
LEMMA StartsInv ==
  ASSUME AccountsInv, NEW r \in Visitors, NEW e \in Emails,
         \/ \E p \in Passwords : BeginRegister(r, e, p) \/ BeginReset(r, e, p)
         \/ BeginResend(r, e) \/ BeginCheckout(r, e) \/ BeginForgot(r, e)
         \/ \E n \in Codes : BeginVerify(r, e, n)
  PROVE  AccountsInv' /\ \A x \in Emails : Kept(x)
<1>0. vcode[e] \in Token \cup {Nobody} /\ reset[e] \in Token \cup {Nobody}
  BY DEF AccountsInv, AccountsTypeOK
<1>k. {"register", "resend", "verify", "checkout", "forgot", "reset"} \subseteq Kinds
  BY DEF Kinds
<1>1. ASSUME NEW p \in Passwords, BeginRegister(r, e, p)
      PROVE  AccountsInv' /\ \A x \in Emails : Kept(x)
  <2>1. ~IsVerified(account[e])
    BY <1>1 DEF BeginRegister, AccountsInv, AccountSound
  <2> QED
    BY <1>0, <1>k, <1>1, <2>1, BeginsInv DEF BeginRegister
<1>2. ASSUME NEW p \in Passwords, BeginReset(r, e, p)
      PROVE  AccountsInv' /\ \A x \in Emails : Kept(x)
  <2>1. reset[e].number \in Codes
    BY <1>0, <1>2 DEF BeginReset, Token
  <2> QED
    BY <1>0, <1>k, <1>2, <2>1, BeginsInv DEF BeginReset
<1>3. CASE BeginResend(r, e)
  BY <1>0, <1>k, <1>3, BeginsInv DEF BeginResend
<1>4. CASE BeginCheckout(r, e)
  BY <1>k, <1>4, BeginsInv DEF BeginCheckout
<1>5. CASE BeginForgot(r, e)
  BY <1>0, <1>k, <1>5, BeginsInv DEF BeginForgot
<1>6. ASSUME NEW n \in Codes, BeginVerify(r, e, n)
      PROVE  AccountsInv' /\ \A x \in Emails : Kept(x)
  BY <1>0, <1>k, <1>6, BeginsInv DEF BeginVerify
<1> QED
  BY <1>1, <1>2, <1>3, <1>4, <1>5, <1>6

LEMMA AccountsStep ==
  ASSUME AccountsInv, [AccountsNext]_accountVars
  PROVE  AccountsInv' /\ \A x \in Emails : Kept(x)
<1>1. CASE UNCHANGED accountVars
  <2>1. UNCHANGED <<account, vcode, reset, orphan, session, stage, form, drawn, mailed, lost>>
    BY <1>1 DEF accountVars
  <2> QED
    BY <2>1, OtherInv DEF AccountsInv, AccountsTypeOK
<1>2. ASSUME NEW r \in Visitors, VisitorStep(r)
      PROVE  AccountsInv' /\ \A x \in Emails : Kept(x)
  BY <1>2, StartsInv, SendCodeInv, CommitRegisterInv, CommitResendInv, CommitVerifyInv,
     CommitCheckoutInv, CommitForgotInv, CommitResetInv, AbortInv DEF VisitorStep
<1>3. ASSUME NEW e \in Emails,
             \/ \E p \in Passwords : Login(e, p) \/ AdminLogin(e, p)
             \/ CodeExpires(e) \/ ResetExpires(e)
      PROVE  AccountsInv' /\ \A x \in Emails : Kept(x)
  BY <1>3, LoginInv, ExpiryInv
<1>4. ASSUME NEW e \in Emails, Logout(e)
      PROVE  AccountsInv' /\ \A x \in Emails : Kept(x)
  BY <1>4, OtherInv DEF Logout, AccountsInv, AccountsTypeOK
<1> QED
  BY <1>1, <1>2, <1>3, <1>4 DEF AccountsNext

LEMMA AccountsStart ==
  ASSUME AccountsInit
  PROVE  AccountsInv
<1> DEFINE Old == [password : Passwords, role : {"customer", "admin"}, verified : {TRUE}]
<1>1. \A a \in Old : a \in Account /\ a.password \in Passwords /\ a.verified = TRUE
  BY DEF Account, Roles
<1>2. account \in [Emails -> {Nobody} \cup Old]
  BY DEF AccountsInit
<1> HIDE DEF Old
<1>3. \A e \in Emails : account[e] = Nobody \/
        (account[e] \in Account /\ account[e].password \in Passwords /\ account[e].verified = TRUE)
  BY <1>1, <1>2
<1>4. 0 \in 0..MaxCodes
  BY AccountsAssumption
<1>5. AccountsTypeOK
  BY <1>2, <1>3, <1>4 DEF AccountsInit, AccountsTypeOK
<1>6. OneHolder /\ \A r \in Visitors : FormSound(r)
  BY DEF AccountsInit, OneHolder, FormSound
<1>7. ASSUME NEW e \in Emails
      PROVE  CodeSound(e) /\ AccountSound(e)
  <2>1. CodeSound(e)
    BY DEF AccountsInit, CodeSound
  <2>2. AccountSound(e)
    BY <1>3, NobodyApart DEF AccountsInit, AccountSound, HasPassword, IsVerified
  <2> QED
    BY <2>1, <2>2
<1> QED
  BY <1>5, <1>6, <1>7 DEF AccountsInv

-----------------------------------------------------------------------------
(* The theorems.                                                           *)

\* What requests know, who holds which rows and which code is on file stays
\* sound through every interleaving of registrations, resends, verifications,
\* checkouts and resets (customer_accounts.py, email_verification.py).
THEOREM AccountsInductive == AccountsSpec => []AccountsInv
<1>1. AccountsInit => AccountsInv
  BY AccountsStart
<1>2. AccountsInv /\ [AccountsNext]_accountVars => AccountsInv'
  BY AccountsStep
<1> QED
  BY <1>1, <1>2, PTL DEF AccountsSpec

\* The code on file is the newest one that was mailed for good, for any number
\* of concurrent registrations and resends (email_verification.py:36-74).
THEOREM NewestCodeKept == AccountsSpec => []NewestCodeStands
<1>1. AccountsInv => NewestCodeStands
  <2> SUFFICES ASSUME AccountsInv, NEW e \in Emails, vcode[e] # Nobody, RowsFree(e),
                      NEW n \in mailed[e] \ lost
               PROVE  n <= vcode[e].number
    BY DEF NewestCodeStands
  <2>1. \A r \in Visitors : ~Carries(r, e, n)
    BY DEF RowsFree, Carries
  <2> QED
    BY <2>1 DEF AccountsInv, CodeSound
<1> QED
  BY <1>1, AccountsInductive, PTL

\* Codes and sessions belong to accounts that may have them (session.py:70-82,
\* 104-118, 209-222).
THEOREM SessionsStaySound == AccountsSpec => []SessionsSound
<1>1. AccountsInv => SessionsSound
  BY DEF AccountsInv, AccountSound, SessionsSound
<1> QED
  BY <1>1, AccountsInductive, PTL

\* No stale copy leaves an account without a password, unverifies it or takes an
\* admin's role or a customer's (customer_accounts.py:29-62, session.py:149-157).
THEOREM AccountsKept == AccountsSpec => AccountKept
<1> DEFINE AllKept == \A e \in Emails : Kept(e)
<1>1. AccountsInv /\ [AccountsNext]_accountVars => [AllKept]_accountVars
  BY AccountsStep
<1>2. AccountKept <=> [][AllKept]_accountVars
  BY DEF AccountKept, Kept
<1> QED
  BY <1>1, <1>2, AccountsInductive, PTL DEF AccountsSpec

\* A step that changes an address's account is that of a request for it.
LEMMA PasswordStep ==
  ASSUME AccountsInv, [AccountsNext]_accountVars, NEW e \in Emails, IsVerified(account[e]),
         account'[e].password # account[e].password
  PROVE  \E r \in Visitors : form[r] # Nobody /\ form[r].email = e /\
           \/ CommitReset(r)
           \/ CommitRegister(r) /\ form[r].seen # Nobody /\ ~form[r].seen.verified
<1>0. AccountsTypeOK /\ account[e] # Nobody
  BY DEF AccountsInv, IsVerified
<1>1. account' # account
  OBVIOUS
<1>2. PICK r \in Visitors : VisitorStep(r)
  BY <1>1 DEF AccountsNext, Login, AdminLogin, Logout, CodeExpires, ResetExpires, accountVars
<1>3. \/ CommitRegister(r) \/ CommitVerify(r) \/ CommitCheckout(r) \/ CommitReset(r)
  BY <1>1, <1>2
     DEF VisitorStep, BeginRegister, BeginReset, BeginResend, BeginCheckout, BeginForgot,
         BeginVerify, Begins, SendCode, CommitResend, CommitForgot, AccountAbort, rowVars
<1>4. stage[r] # "idle"
  BY <1>3 DEF CommitRegister, CommitVerify, CommitCheckout, CommitReset
<1>5. form[r] # Nobody /\ form[r].email \in Emails /\ FormSound(r)
  BY <1>0, <1>4, InForm DEF AccountsInv
<1>6. form[r].email = e
  <2> SUFFICES ASSUME form[r].email # e
               PROVE  FALSE
    OBVIOUS
  <2>1. account'[e] = account[e]
    BY <1>0, <1>3, <1>5 DEF CommitRegister, CommitVerify, CommitCheckout, CommitReset,
       AccountsTypeOK
  <2> QED
    BY <2>1
<1>7. CASE CommitRegister(r)
  <2>1. form[r].kind = "register" /\ stage[r] = "sent"
    BY <1>7 DEF CommitRegister, Is
  <2>2. form[r].seen # Nobody /\ ~form[r].seen.verified
    BY <1>0, <1>5, <1>6, <2>1 DEF FormSound
  <2> QED
    BY <1>5, <1>6, <1>7, <2>2
<1>8. CASE CommitReset(r)
  BY <1>5, <1>6, <1>8
<1>9. account[e] \in Account
  BY <1>0 DEF AccountsTypeOK
<1>10. CASE CommitVerify(r)
  <2>1. account'[e].password = account[e].password
    BY <1>0, <1>6, <1>9, <1>10 DEF CommitVerify, AccountsTypeOK, Account
  <2> QED
    BY <2>1
<1>11. CASE CommitCheckout(r)
  <2>1. account'[e] = account[e]
    BY <1>0, <1>6, <1>11 DEF CommitCheckout, GuestOf, AccountWritable, AccountsTypeOK
  <2> QED
    BY <2>1
<1> QED
  BY <1>3, <1>7, <1>8, <1>10, <1>11

\* The password of a verified account is replaced by a reset, or by a registration
\* that had read it unverified, and in no other way (session.py:147-157).
THEOREM PasswordsChange == AccountsSpec => PasswordChanges
<1> DEFINE Known == \A e \in Emails :
             (IsVerified(account[e]) /\ account'[e].password # account[e].password) =>
               \E r \in Visitors : form[r] # Nobody /\ form[r].email = e /\
                 \/ CommitReset(r)
                 \/ CommitRegister(r) /\ form[r].seen # Nobody /\ ~form[r].seen.verified
<1>1. AccountsInv /\ [AccountsNext]_accountVars => [Known]_accountVars
  BY PasswordStep
<1>2. PasswordChanges <=> [][Known]_accountVars
  BY DEF PasswordChanges
<1> QED
  BY <1>1, <1>2, AccountsInductive, PTL DEF AccountsSpec

=============================================================================
