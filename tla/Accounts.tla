------------------------------ MODULE Accounts ------------------------------
(***************************************************************************)
(* api-gateway: the accounts of auth/email.go and auth/oauth.go, and the   *)
(* administrator's writes to them (admin/admin_handler.go). The users and  *)
(* kyc_applications tables are in Postgres, verification codes in Redis.   *)
(*                                                                         *)
(* A handler runs one statement at a time, in no transaction: other        *)
(* handlers run between its statements, and any statement may fail, which  *)
(* ends the request. A user's row is named by its email, which nothing     *)
(* changes. Passwords are compared, so a hash is its password. Names and   *)
(* pictures decide nothing and are left out.                               *)
(***************************************************************************)
EXTENDS Naturals

CONSTANTS
  Emails,          \* spellings of addresses
  Lower,           \* the spelling strings.ToLower gives to each
  GoogleEmails,    \* the spellings Google has for its users
  Usernames, Passwords, Roles, Codes,
  Registrations,   \* the sign-ups that may arrive, already lower-cased
  Handlers,        \* requests served at the same time
  None

Registration == [email : Emails, username : Usernames, password : Passwords]

ASSUME AccountsAssumption ==
  /\ Lower \in [Emails -> Emails]
  /\ \A e \in Emails : Lower[Lower[e]] = Lower[e]
  /\ GoogleEmails \subseteq Emails /\ Emails # {}
  /\ Registrations \subseteq Registration
  /\ \A r \in Registrations : Lower[r.email] = r.email

VARIABLES
  user,      \* table users
  applied,   \* table kyc_applications: who applied for which role
  code,      \* Redis: the verification code of each address
  mail,      \* codes delivered to each address
  job,       \* what each handler is doing
  told       \* history: addresses told "registered" or "verified"

vars == <<user, applied, code, mail, job, told>>

-----------------------------------------------------------------------------
KycStatus == {"none", "pending", "approved", "rejected"}

Row ==
  [exists : BOOLEAN, username : Usernames \cup {None},
   password : Passwords \cup {None}, verified : BOOLEAN,
   provider : {"email", "google"},
   kyc : KycStatus, requested : Roles \cup {None}]

NoRow ==
  [exists |-> FALSE, username |-> None, password |-> None, verified |-> FALSE,
   provider |-> "email", kyc |-> "none", requested |-> None]

Step == {"idle", "updating", "inserting", "coding", "mailing", "confirming",
         "clearing", "applied"}

(* email, username, password: the request; found: the row Register read;   *)
(* code: the one to mail; role: the one applied for; signup: whether the   *)
(* handler is Register, which reports success, or Login, which does not.   *)
Job ==
  [at : Step, email : Emails, username : Usernames \cup {None},
   password : Passwords \cup {None}, found : Emails, code : Codes \cup {None},
   role : Roles \cup {None}, signup : BOOLEAN]

Fresh(e) ==
  [at |-> "idle", email |-> e, username |-> None, password |-> None,
   found |-> e, code |-> None, role |-> None, signup |-> FALSE]
NoJob == Fresh(CHOOSE e \in Emails : TRUE)

Init ==
  /\ user = [e \in Emails |-> NoRow]
  /\ applied = {}
  /\ code = [e \in Emails |-> None]
  /\ mail = [e \in Emails |-> {}]
  /\ job = [h \in Handlers |-> NoJob]
  /\ told = {}

-----------------------------------------------------------------------------
Idle(h) == job[h].at = "idle"
Take(h, j) == job' = [job EXCEPT ![h] = j]
Goto(h, l) == job' = [job EXCEPT ![h].at = l]
Finish(h) == job' = [job EXCEPT ![h] = NoJob]

(* A registration with its row in place: what is left is to send a code.   *)
SignUpCoding(j) == [Fresh(j.email) EXCEPT !.at = "coding", !.signup = TRUE]

Taken(u, e) == \E x \in Emails \ {e} : user[x].exists /\ user[x].username = u

(* Any statement of a handler may fail; the request ends with an error.    *)
(* An error of the final DEL is ignored.                                   *)
StatementFails(h) ==
  /\ ~Idle(h)
  /\ Finish(h)
  /\ UNCHANGED <<user, applied, code, mail, told>>

(* Register reads one of the rows with this email or username.             *)
RegisterRead(h, r) ==
  LET matches == {x \in Emails : user[x].exists /\
                    (Lower[x] = r.email \/ user[x].username = r.username)}
      start(x, l) == [Fresh(r.email) EXCEPT !.at = l, !.found = x,
                        !.username = r.username, !.password = r.password]
  IN /\ Idle(h)
     /\ \/ matches = {} /\ Take(h, start(r.email, "inserting"))
        \/ \E x \in matches : ~user[x].verified /\ Take(h, start(x, "updating"))
     /\ UNCHANGED <<user, applied, code, mail, told>>

(* Mutant: the whole row is rewritten as a new registration.               *)
UpdateAll(h) ==
  LET j == job[h] IN
  /\ j.at = "updating"
  /\ ~Taken(j.username, j.found)
  /\ user' = [user EXCEPT ![j.found].password = j.password,
                          ![j.found].username = j.username,
                          ![j.found].verified = FALSE]
  /\ Take(h, SignUpCoding(j))
  /\ UNCHANGED <<applied, code, mail, told>>

(* The row read is updated by its id. The username is UNIQUE.              *)
RegisterUpdate(h) ==
  LET j == job[h] IN
  /\ j.at = "updating"
  /\ ~Taken(j.username, j.found)
  /\ user' = [user EXCEPT ![j.found].password = j.password,
                          ![j.found].username = j.username]
  /\ Take(h, SignUpCoding(j))
  /\ UNCHANGED <<applied, code, mail, told>>

(* A failed INSERT is retried with an id of its own. If the first one took *)
(* effect all the same, the second is a duplicate and the client is told   *)
(* 409; a duplicate fails both times.                                      *)
RegisterInsert(h) ==
  LET j == job[h] IN
  /\ j.at = "inserting"
  /\ ~user[j.email].exists /\ ~Taken(j.username, j.email)
  /\ user' = [user EXCEPT ![j.email] =
                [NoRow EXCEPT !.exists = TRUE, !.username = j.username,
                              !.password = j.password]]
  /\ \/ Take(h, SignUpCoding(j))
     \/ Finish(h)
  /\ UNCHANGED <<applied, code, mail, told>>

(* sendVerificationEmail stores a code for the address of the request ...  *)
StoreCode(h, c) ==
  /\ job[h].at = "coding"
  /\ code' = [code EXCEPT ![job[h].email] = c]
  /\ job' = [job EXCEPT ![h].at = "mailing", ![h].code = c]
  /\ UNCHANGED <<user, applied, mail, told>>

(* ... and mails it. Register then reports success.                        *)
SendMail(h) ==
  LET j == job[h] IN
  /\ j.at = "mailing"
  /\ mail' = [mail EXCEPT ![j.email] = @ \cup {j.code}]
  /\ told' = IF j.signup THEN told \cup {<<"registered", j.email>>} ELSE told
  /\ Finish(h)
  /\ UNCHANGED <<user, applied, code>>

(* A user enters a code from the mail. It must be the stored one.          *)
VerifyRead(h, e) ==
  /\ Idle(h)
  /\ code[e] \in mail[e]
  /\ Take(h, [Fresh(e) EXCEPT !.at = "confirming"])
  /\ UNCHANGED <<user, applied, code, mail, told>>

VerifyConfirm(h) ==
  LET e == job[h].email IN
  /\ job[h].at = "confirming"
  /\ user[e].exists
  /\ user' = [user EXCEPT ![e].verified = TRUE]
  /\ Goto(h, "clearing")
  /\ UNCHANGED <<applied, code, mail, told>>

VerifyClear(h) ==
  LET e == job[h].email IN
  /\ job[h].at = "clearing"
  /\ code' \in {code, [code EXCEPT ![e] = None]}
  /\ told' = told \cup {<<"verified", e>>}
  /\ Finish(h)
  /\ UNCHANGED <<user, applied, mail>>

(* Login of an unverified account sends a new code. (Any other outcome of  *)
(* a login changes nothing; is_suspended is not looked at.)                *)
LoginUnverified(h, e) ==
  /\ Idle(h)
  /\ user[e].exists /\ user[e].provider = "email" /\ ~user[e].verified
  /\ user[e].password # None
  /\ Take(h, [Fresh(e) EXCEPT !.at = "coding"])
  /\ UNCHANGED <<user, applied, code, mail, told>>

(* Mutant: the provider is whatever the path says.                         *)
OAuthByPath(e) ==
  /\ ~user[e].exists
  /\ user' = [user EXCEPT ![e] = [NoRow EXCEPT !.exists = TRUE, !.provider = "facebook"]]
  /\ UNCHANGED <<applied, code, mail, job, told>>

(* Callback and TokenCallback: find or create, with Google's spelling of   *)
(* the address and no verification.                                        *)
OAuth(e) ==
  /\ ~user[e].exists
  /\ user' = [user EXCEPT ![e] = [NoRow EXCEPT !.exists = TRUE, !.provider = "google"]]
  /\ UNCHANGED <<applied, code, mail, job, told>>

(* Mutant: SubmitKyc marks the user before the application is on file.     *)
KycUserFirst(h, e, role) ==
  /\ Idle(h) /\ user[e].exists
  /\ user' = [user EXCEPT ![e].kyc = "pending", ![e].requested = role]
  /\ Take(h, [Fresh(e) EXCEPT !.at = "applied", !.role = role])
  /\ UNCHANGED <<applied, code, mail, told>>

KycInsert(h, e, role) ==
  /\ Idle(h) /\ user[e].exists
  /\ applied' = applied \cup {<<e, role>>}
  /\ Take(h, [Fresh(e) EXCEPT !.at = "applied", !.role = role])
  /\ UNCHANGED <<user, code, mail, told>>

KycUpdate(h) ==
  LET j == job[h] IN
  /\ j.at = "applied"
  /\ user' = [user EXCEPT ![j.email].kyc = "pending", ![j.email].requested = j.role]
  /\ Finish(h)
  /\ UNCHANGED <<applied, code, mail, told>>

(* VerifyKYC looks neither at the status nor at the application.           *)
VerifyKYC(e, status) ==
  /\ user[e].exists
  /\ user' = [user EXCEPT ![e].kyc = status]
  /\ UNCHANGED <<applied, code, mail, job, told>>

(* A code lives fifteen minutes.                                           *)
Expire(e) ==
  /\ code[e] # None
  /\ code' = [code EXCEPT ![e] = None]
  /\ UNCHANGED <<user, applied, mail, job, told>>

Serve(h) ==
  \/ RegisterUpdate(h) \/ RegisterInsert(h)
  \/ \E c \in Codes : StoreCode(h, c)
  \/ SendMail(h)
  \/ VerifyConfirm(h) \/ VerifyClear(h)
  \/ KycUpdate(h)
  \/ StatementFails(h)

Next ==
  \/ \E h \in Handlers :
       \/ \E r \in Registrations : RegisterRead(h, r)
       \/ \E e \in Emails : VerifyRead(h, Lower[e]) \/ LoginUnverified(h, Lower[e])
       \/ \E e \in Emails, role \in Roles : KycInsert(h, e, role)
       \/ Serve(h)
  \/ \E e \in GoogleEmails : OAuth(e)
  \/ \E e \in Emails : Expire(e) \/ \E s \in {"approved", "rejected"} : VerifyKYC(e, s)

Spec == Init /\ [][Next]_vars
-----------------------------------------------------------------------------
(* Every variable has its type.                                            *)
TypeOK ==
  /\ user \in [Emails -> Row]
  /\ applied \subseteq Emails \X Roles
  /\ code \in [Emails -> Codes \cup {None}]
  /\ mail \in [Emails -> SUBSET Codes]
  /\ job \in [Handlers -> Job]
  /\ told \subseteq {"registered", "verified"} \X Emails

(* An address told "Email verified successfully" stays verified, although  *)
(* a registration that read its row before may still update it.            *)
VerifiedStays ==
  \A e \in Emails : <<"verified", e>> \in told => user[e].exists /\ user[e].verified

(* An application an administrator sees as pending is on file, whichever   *)
(* statement of which submission failed, and whatever was decided between. *)
PendingIsOnFile ==
  \A e \in Emails : user[e].kyc = "pending" => <<e, user[e].requested>> \in applied

(* email.go:198 tells the client "User registered successfully": there is  *)
(* then an account with that address, to which the code belongs.           *)
RegisteredHasAccount ==
  \A e \in Emails : <<"registered", e>> \in told =>
    \E x \in Emails : user[x].exists /\ Lower[x] = e
=============================================================================
