-------------------------- MODULE ApiGatewayProofs --------------------------
(***************************************************************************)
(* Proofs about api-gateway: about Accounts, for any users, requests and   *)
(* number of handlers, and about the rate limiter of Gateway, for any      *)
(* clients, limit and window. The two share no state.                      *)
(***************************************************************************)
EXTENDS Accounts, Gateway, TLAPS

(* A handler past its UPDATE has a verified row; one past its INSERT has   *)
(* an application on file (nothing later takes either away); one about to  *)
(* mail has a code.                                                        *)
JobInv ==
  \A h \in Handlers :
    /\ job[h].at = "clearing" =>
         user[job[h].email].exists /\ user[job[h].email].verified
    /\ job[h].at = "applied" => <<job[h].email, job[h].role>> \in applied
    /\ job[h].at = "mailing" => job[h].code \in Codes

AccountsInv == TypeOK /\ JobInv /\ VerifiedStays /\ PendingIsOnFile

(* What a step may do to the users and the applications.                   *)
Monotone ==
  /\ \A e \in Emails : user[e].exists /\ user[e].verified
                         => user'[e].exists /\ user'[e].verified
  /\ applied \subseteq applied'

-----------------------------------------------------------------------------
(* An idle handler's job has its type.                                     *)
LEMMA JobTypes ==
  /\ NoJob \in Job /\ NoJob.at = "idle"
  /\ \A e \in Emails : Fresh(e) \in Job
<1>1. \A e \in Emails : Fresh(e) \in Job
  BY DEF Fresh, Job, Step
<1>2. (CHOOSE e \in Emails : TRUE) \in Emails
  BY AccountsAssumption
<1> QED
  BY <1>1, <1>2 DEF NoJob, Fresh

(* The empty database satisfies the invariant.                             *)
LEMMA InitInv == Init => AccountsInv
BY JobTypes DEF Init, AccountsInv, TypeOK, JobInv, VerifiedStays,
   PendingIsOnFile, NoRow, Row, KycStatus

(* A step that gives handler h a new job, keeps verified rows and          *)
(* applications, and tells nobody anything, keeps what is known of jobs.   *)
LEMMA KeepJobs ==
  ASSUME AccountsInv, Monotone, NEW h \in Handlers, NEW j \in Job, Take(h, j),
         j.at = "clearing" => user'[j.email].exists /\ user'[j.email].verified,
         j.at = "applied" => <<j.email, j.role>> \in applied',
         j.at = "mailing" => j.code \in Codes
  PROVE  JobInv' /\ job' \in [Handlers -> Job]
<1>1. job' = [job EXCEPT ![h] = j] /\ job \in [Handlers -> Job]
  BY DEF Take, AccountsInv, TypeOK
<1>2. \A g \in Handlers : job'[g] = IF g = h THEN j ELSE job[g]
  BY <1>1
<1>3. \A g \in Handlers : job[g].email \in Emails
  BY <1>1 DEF Job
<1> QED
  BY <1>1, <1>2, <1>3 DEF AccountsInv, JobInv, Monotone

(* A step that changes no row keeps the rest, whatever is told.            *)
LEMMA KeepRows ==
  ASSUME AccountsInv, UNCHANGED user, applied \subseteq applied', UNCHANGED told
  PROVE  Monotone /\ VerifiedStays' /\ PendingIsOnFile'
BY DEF AccountsInv, Monotone, VerifiedStays, PendingIsOnFile

-----------------------------------------------------------------------------
(* The steps, one by one.                                                  *)

(* A new job that neither clears nor has applied, in a step that changes   *)
(* no row.                                                                 *)
LEMMA NewJob ==
  ASSUME AccountsInv, NEW h \in Handlers, NEW j \in Job, Take(h, j),
         UNCHANGED user, applied \subseteq applied', applied' \subseteq Emails \X Roles,
         UNCHANGED told, code' \in [Emails -> Codes \cup {None}],
         mail' \in [Emails -> SUBSET Codes],
         j.at # "clearing", j.at = "applied" => <<j.email, j.role>> \in applied',
         j.at = "mailing" => j.code \in Codes
  PROVE  AccountsInv'
<1>1. Monotone /\ VerifiedStays' /\ PendingIsOnFile'
  BY KeepRows
<1>2. JobInv' /\ job' \in [Handlers -> Job]
  BY <1>1, KeepJobs
<1> QED
  BY <1>1, <1>2 DEF AccountsInv, TypeOK

(* A request ends, after a statement that changed no row.                  *)
LEMMA StatementFailsStep ==
  ASSUME AccountsInv, NEW h \in Handlers, StatementFails(h)
  PROVE  AccountsInv'
<1>1. Take(h, NoJob)
  BY DEF StatementFails, Finish, Take
<1> QED
  BY <1>1, NewJob, JobTypes DEF StatementFails, AccountsInv, TypeOK

(* Register begins.                                                        *)
LEMMA RegisterReadStep ==
  ASSUME AccountsInv, NEW h \in Handlers, NEW r \in Registrations,
         RegisterRead(h, r)
  PROVE  AccountsInv'
<1> DEFINE start(x, l) == [Fresh(r.email) EXCEPT !.at = l, !.found = x,
                             !.username = r.username, !.password = r.password]
<1>1. r.email \in Emails /\ r.username \in Usernames /\ r.password \in Passwords
  BY AccountsAssumption DEF Registration
<1>2. \A x \in Emails, l \in {"inserting", "updating"} :
        start(x, l) \in Job /\ start(x, l).at = l
  BY <1>1 DEF Fresh, Job, Step
<1>3. PICK x \in Emails, l \in {"inserting", "updating"} : Take(h, start(x, l))
  BY <1>1 DEF RegisterRead
<1> HIDE DEF start
<1> QED
  BY <1>2, <1>3, NewJob DEF RegisterRead, AccountsInv, TypeOK

(* A code is stored.                                                       *)
LEMMA StoreCodeStep ==
  ASSUME AccountsInv, NEW h \in Handlers, NEW c \in Codes, StoreCode(h, c)
  PROVE  AccountsInv'
<1> DEFINE j == [job[h] EXCEPT !.at = "mailing", !.code = c]
<1>1. job[h] \in Job
  BY DEF AccountsInv, TypeOK
<1>2. j \in Job /\ j.at = "mailing" /\ j.code \in Codes
  BY <1>1 DEF Job, Step
<1>3. Take(h, j)
  BY DEF StoreCode, Take, AccountsInv, TypeOK
<1>4. code' \in [Emails -> Codes \cup {None}]
  BY <1>1 DEF StoreCode, AccountsInv, TypeOK, Job
<1> HIDE DEF j
<1> QED
  BY <1>2, <1>3, <1>4, NewJob DEF StoreCode, AccountsInv, TypeOK

(* A code is entered, a login refused, an application filed.               *)
LEMMA OtherReadStep ==
  ASSUME AccountsInv, NEW h \in Handlers, NEW e \in Emails,
         \/ VerifyRead(h, e)
         \/ LoginUnverified(h, e)
         \/ \E role \in Roles : KycInsert(h, e, role)
  PROVE  AccountsInv'
<1> DEFINE at(l) == [Fresh(e) EXCEPT !.at = l]
           filed(role) == [Fresh(e) EXCEPT !.at = "applied", !.role = role]
<1>1. \A l \in {"confirming", "coding"} : at(l) \in Job /\ at(l).at = l
  BY DEF Fresh, Job, Step
<1>2. \A role \in Roles :
        /\ filed(role) \in Job /\ filed(role).at = "applied"
        /\ filed(role).email = e /\ filed(role).role = role
  BY DEF Fresh, Job, Step
<1>3. VerifyRead(h, e) => Take(h, at("confirming"))
  BY DEF VerifyRead
<1>4. LoginUnverified(h, e) => Take(h, at("coding"))
  BY DEF LoginUnverified
<1>5. \A role \in Roles : KycInsert(h, e, role) => Take(h, filed(role))
  BY DEF KycInsert
<1> HIDE DEF at, filed
<1>6. CASE VerifyRead(h, e)
  BY <1>1, <1>3, <1>6, NewJob DEF VerifyRead, AccountsInv, TypeOK
<1>7. CASE LoginUnverified(h, e)
  BY <1>1, <1>4, <1>7, NewJob DEF LoginUnverified, AccountsInv, TypeOK
<1>8. ASSUME NEW role \in Roles, KycInsert(h, e, role) PROVE AccountsInv'
  <2>1. PICK j : /\ j \in Job /\ j.at = "applied" /\ j.email = e
                 /\ j.role = role /\ Take(h, j)
    BY <1>2, <1>5, <1>8
  <2>2. /\ applied' = applied \cup {<<e, role>>}
        /\ UNCHANGED <<user, code, mail, told>>
    BY <1>8 DEF KycInsert
  <2>3. /\ applied \subseteq applied' /\ applied' \subseteq Emails \X Roles
        /\ <<j.email, j.role>> \in applied'
    BY <1>8, <2>1, <2>2 DEF AccountsInv, TypeOK
  <2> QED
    BY <2>1, <2>2, <2>3, NewJob DEF AccountsInv, TypeOK
<1> QED
  BY <1>6, <1>7, <1>8

(* Rows change, jobs as well: what is left to show.                        *)
LEMMA RowsStep ==
  ASSUME AccountsInv, NEW h \in Handlers, NEW j \in Job, Take(h, j),
         user' \in [Emails -> Row], Monotone, applied' = applied,
         code' = code, mail' = mail, told' = told, PendingIsOnFile',
         j.at = "clearing" => user'[j.email].exists /\ user'[j.email].verified,
         j.at \notin {"applied", "mailing"}
  PROVE  AccountsInv'
<1>1. JobInv' /\ job' \in [Handlers -> Job]
  BY KeepJobs
<1>2. VerifiedStays'
  BY DEF AccountsInv, VerifiedStays, Monotone
<1> QED
  BY <1>1, <1>2 DEF AccountsInv, TypeOK

(* The job of a sign-up whose row is in place.                             *)
LEMMA SignUpJob ==
  ASSUME NEW j \in Job
  PROVE  SignUpCoding(j) \in Job /\ SignUpCoding(j).at = "coding"
BY DEF SignUpCoding, Fresh, Job, Step

(* A registration updates the row it read: verified or not, it stays so.   *)
LEMMA RegisterUpdateStep ==
  ASSUME AccountsInv, NEW h \in Handlers, RegisterUpdate(h)
  PROVE  AccountsInv'
<1>1. job[h] \in Job /\ user \in [Emails -> Row]
  BY DEF AccountsInv, TypeOK
<1>2. job[h].at = "updating"
  BY DEF RegisterUpdate
<1>3. /\ user' \in [Emails -> Row]
      /\ \A e \in Emails :
           /\ user'[e].exists = user[e].exists
           /\ user'[e].verified = user[e].verified
           /\ user'[e].kyc = user[e].kyc
           /\ user'[e].requested = user[e].requested
  <2> DEFINE f == job[h].found
             row == [user[f] EXCEPT !.password = job[h].password,
                                    !.username = job[h].username]
  <2>1. f \in Emails /\ row \in Row
    <3>1. /\ f \in Emails /\ user[f] \in Row
          /\ job[h].password \in Passwords \cup {None}
          /\ job[h].username \in Usernames \cup {None}
      BY <1>1 DEF Job
    <3> QED
      BY <3>1 DEF Row
  <2>2. user' = [user EXCEPT ![f] = row]
    BY <1>1, <2>1 DEF RegisterUpdate
  <2>3. /\ row.exists = user[f].exists /\ row.verified = user[f].verified
        /\ row.kyc = user[f].kyc /\ row.requested = user[f].requested
    BY <1>1, <2>1 DEF Row
  <2> HIDE DEF row, f
  <2> QED
    BY <1>1, <2>1, <2>2, <2>3
<1>4. UNCHANGED <<applied, code, mail, told>> /\ Take(h, SignUpCoding(job[h]))
  BY DEF RegisterUpdate
<1>5. Monotone /\ PendingIsOnFile'
  BY <1>3, <1>4 DEF Monotone, AccountsInv, PendingIsOnFile
<1> QED
  BY <1>1, <1>3, <1>4, <1>5, RowsStep, SignUpJob

(* A registration inserts a row where there was none.                      *)
LEMMA RegisterInsertStep ==
  ASSUME AccountsInv, NEW h \in Handlers, RegisterInsert(h)
  PROVE  AccountsInv'
<1> DEFINE e == job[h].email
           row == [NoRow EXCEPT !.exists = TRUE, !.username = job[h].username,
                                !.password = job[h].password]
<1>1. job[h] \in Job /\ user \in [Emails -> Row] /\ e \in Emails
  BY DEF AccountsInv, TypeOK, Job
<1>2. row \in Row /\ row.kyc = "none"
  BY <1>1 DEF Row, NoRow, Job, KycStatus
<1>3. ~user[e].exists /\ user' = [user EXCEPT ![e] = row]
  BY DEF RegisterInsert
<1>4. PICK j \in {SignUpCoding(job[h]), NoJob} : Take(h, j)
  BY DEF RegisterInsert, Finish, Take
<1>5. j \in Job /\ j.at \notin {"clearing", "applied", "mailing"}
  BY <1>1, <1>4, SignUpJob, JobTypes
<1>6. UNCHANGED <<applied, code, mail, told>>
  BY DEF RegisterInsert
<1> HIDE DEF row, e
<1>7. Monotone /\ PendingIsOnFile' /\ user' \in [Emails -> Row]
  BY <1>1, <1>2, <1>3, <1>6 DEF Monotone, AccountsInv, PendingIsOnFile
<1> QED
  BY <1>4, <1>5, <1>6, <1>7, RowsStep

(* A handler ends, having told only what is so.                            *)
LEMMA EndStep ==
  ASSUME AccountsInv, NEW h \in Handlers, Finish(h), UNCHANGED <<user, applied>>,
         code' \in [Emails -> Codes \cup {None}], mail' \in [Emails -> SUBSET Codes],
         told' \subseteq {"registered", "verified"} \X Emails,
         \A e \in Emails : <<"verified", e>> \in told' \ told =>
            user[e].exists /\ user[e].verified
  PROVE  AccountsInv'
<1>1. Monotone
  BY DEF Monotone
<1>2. Take(h, NoJob)
  BY DEF Finish, Take
<1>3. JobInv' /\ job' \in [Handlers -> Job]
  BY <1>1, <1>2, KeepJobs, JobTypes
<1>4. VerifiedStays' /\ PendingIsOnFile'
  BY DEF AccountsInv, VerifiedStays, PendingIsOnFile
<1> QED
  BY <1>3, <1>4 DEF AccountsInv, TypeOK

(* The code is mailed.                                                     *)
LEMMA SendMailStep ==
  ASSUME AccountsInv, NEW h \in Handlers, SendMail(h)
  PROVE  AccountsInv'
<1> DEFINE e == job[h].email
<1>1. e \in Emails /\ job[h].code \in Codes
  BY DEF SendMail, AccountsInv, TypeOK, JobInv, Job
<1>2. told' \subseteq {"registered", "verified"} \X Emails
  BY <1>1 DEF SendMail, AccountsInv, TypeOK
<1>3. \A x \in Emails : <<"verified", x>> \notin told' \ told
  BY DEF SendMail
<1> HIDE DEF e
<1> QED
  BY <1>1, <1>2, <1>3, EndStep DEF SendMail, AccountsInv, TypeOK

(* The code is cleared, or not; the address is verified all the same.      *)
LEMMA VerifyClearStep ==
  ASSUME AccountsInv, NEW h \in Handlers, VerifyClear(h)
  PROVE  AccountsInv'
<1> DEFINE e == job[h].email
<1>1. e \in Emails /\ user[e].exists /\ user[e].verified
  BY DEF VerifyClear, AccountsInv, TypeOK, JobInv, Job
<1>2. /\ told' = told \cup {<<"verified", e>>}
      /\ Finish(h) /\ UNCHANGED <<user, applied>> /\ mail' = mail
      /\ code' \in {code, [code EXCEPT ![e] = None]}
  BY DEF VerifyClear
<1> HIDE DEF e
<1>3. \A x \in Emails : <<"verified", x>> \in told' \ told => x = e
  BY <1>2
<1> QED
  BY <1>1, <1>2, <1>3, EndStep DEF AccountsInv, TypeOK

(* The row is verified.                                                    *)
LEMMA VerifyConfirmStep ==
  ASSUME AccountsInv, NEW h \in Handlers, VerifyConfirm(h)
  PROVE  AccountsInv'
<1> DEFINE e == job[h].email
           j == [job[h] EXCEPT !.at = "clearing"]
           row == [user[e] EXCEPT !.verified = TRUE]
<1>1. job[h] \in Job /\ user \in [Emails -> Row] /\ e \in Emails
  BY DEF AccountsInv, TypeOK, Job
<1>2. j \in Job /\ j.at = "clearing" /\ j.email = e
  BY <1>1 DEF Job, Step
<1>3. row \in Row /\ row.verified /\ row.exists = user[e].exists
      /\ row.kyc = user[e].kyc /\ row.requested = user[e].requested
  <2>1. user[e] \in Row
    BY <1>1
  <2> HIDE DEF e, j
  <2> QED
    BY <2>1 DEF Row
<1>4. /\ user[e].exists /\ user' = [user EXCEPT ![e] = row]
      /\ UNCHANGED <<applied, code, mail, told>>
  BY <1>1 DEF VerifyConfirm
<1>5. Take(h, j)
  BY <1>1 DEF VerifyConfirm, Goto, Take, AccountsInv, TypeOK
<1> HIDE DEF e, j, row
<1>6. Monotone /\ PendingIsOnFile' /\ user' \in [Emails -> Row]
  BY <1>1, <1>3, <1>4 DEF Monotone, AccountsInv, PendingIsOnFile
<1>7. user'[j.email].exists /\ user'[j.email].verified
  BY <1>1, <1>2, <1>3, <1>4
<1> QED
  BY <1>2, <1>4, <1>5, <1>6, <1>7, RowsStep

(* An application on file is marked pending.                               *)
LEMMA KycUpdateStep ==
  ASSUME AccountsInv, NEW h \in Handlers, KycUpdate(h)
  PROVE  AccountsInv'
<1> DEFINE e == job[h].email
           role == job[h].role
           row == [user[e] EXCEPT !.kyc = "pending", !.requested = role]
<1>1. job[h] \in Job /\ user \in [Emails -> Row]
      /\ e \in Emails /\ role \in Roles \cup {None}
  BY DEF AccountsInv, TypeOK, Job
<1>2. user[e] \in Row
  BY <1>1
<1>3. row \in Row /\ row.verified = user[e].verified
      /\ row.exists = user[e].exists /\ row.requested = role
  BY <1>1, <1>2 DEF Row, KycStatus
<1>4. /\ <<e, role>> \in applied /\ user' = [user EXCEPT ![e] = row]
      /\ UNCHANGED <<applied, code, mail, told>> /\ Finish(h)
  BY <1>1 DEF KycUpdate, AccountsInv, JobInv
<1>5. Take(h, NoJob)
  BY <1>4 DEF Finish, Take
<1> HIDE DEF e, role, row
<1>6. Monotone /\ PendingIsOnFile' /\ user' \in [Emails -> Row]
  BY <1>1, <1>3, <1>4 DEF Monotone, AccountsInv, PendingIsOnFile
<1> QED
  BY <1>4, <1>5, <1>6, RowsStep, JobTypes

-----------------------------------------------------------------------------
(* Steps of no handler.                                                    *)

(* Only rows change.                                                       *)
LEMMA OutsideStep ==
  ASSUME AccountsInv, user' \in [Emails -> Row], Monotone, PendingIsOnFile',
         UNCHANGED <<applied, mail, job, told>>,
         code' \in [Emails -> Codes \cup {None}]
  PROVE  AccountsInv'
<1>1. VerifiedStays'
  BY DEF AccountsInv, VerifiedStays, Monotone
<1>2. \A h \in Handlers : job[h].email \in Emails
  BY DEF AccountsInv, TypeOK, Job
<1>3. JobInv'
  BY <1>2 DEF AccountsInv, JobInv, Monotone
<1> QED
  BY <1>1, <1>3 DEF AccountsInv, TypeOK

(* Google's user is found, or created.                                     *)
LEMMA OAuthStep ==
  ASSUME AccountsInv, NEW e \in Emails, OAuth(e)
  PROVE  AccountsInv'
<1> DEFINE row == [NoRow EXCEPT !.exists = TRUE, !.provider = "google"]
<1>1. row \in Row /\ row.kyc = "none"
  BY DEF Row, NoRow, KycStatus
<1>2. /\ ~user[e].exists /\ user' = [user EXCEPT ![e] = row]
      /\ UNCHANGED <<applied, code, mail, job, told>>
  BY DEF OAuth
<1> HIDE DEF row
<1>3. Monotone /\ PendingIsOnFile' /\ user' \in [Emails -> Row]
  BY <1>1, <1>2 DEF Monotone, AccountsInv, TypeOK, PendingIsOnFile
<1> QED
  BY <1>2, <1>3, OutsideStep DEF AccountsInv, TypeOK

(* An administrator decides.                                               *)
LEMMA VerifyKYCStep ==
  ASSUME AccountsInv, NEW e \in Emails, NEW s \in {"approved", "rejected"},
         VerifyKYC(e, s)
  PROVE  AccountsInv'
<1> DEFINE row == [user[e] EXCEPT !.kyc = s]
<1>1. user[e] \in Row
  BY DEF AccountsInv, TypeOK
<1>2. row \in Row /\ row.verified = user[e].verified
      /\ row.exists = user[e].exists /\ row.kyc = s
  BY <1>1 DEF Row, KycStatus
<1>3. /\ user' = [user EXCEPT ![e] = row]
      /\ UNCHANGED <<applied, code, mail, job, told>>
  BY DEF VerifyKYC, AccountsInv, TypeOK
<1> HIDE DEF row
<1>4. Monotone /\ PendingIsOnFile' /\ user' \in [Emails -> Row]
  BY <1>2, <1>3 DEF Monotone, AccountsInv, TypeOK, PendingIsOnFile
<1> QED
  BY <1>3, <1>4, OutsideStep DEF AccountsInv, TypeOK

(* A code expires.                                                         *)
LEMMA ExpireStep ==
  ASSUME AccountsInv, NEW e \in Emails, Expire(e)
  PROVE  AccountsInv'
<1>1. Monotone /\ PendingIsOnFile'
  BY DEF Expire, Monotone, AccountsInv, PendingIsOnFile
<1> QED
  BY <1>1, OutsideStep DEF Expire, AccountsInv, TypeOK

-----------------------------------------------------------------------------
(* Every step keeps the invariant.                                         *)
LEMMA Inductive ==
  ASSUME AccountsInv, [Next]_vars
  PROVE  AccountsInv'
<1>1. CASE UNCHANGED vars
  BY <1>1 DEF vars, AccountsInv, TypeOK, JobInv, VerifiedStays, PendingIsOnFile
<1>2. ASSUME NEW h \in Handlers, NEW r \in Registrations, RegisterRead(h, r)
      PROVE  AccountsInv'
  BY <1>2, RegisterReadStep
<1>3. ASSUME NEW h \in Handlers, NEW e \in Emails,
             VerifyRead(h, Lower[e]) \/ LoginUnverified(h, Lower[e])
      PROVE  AccountsInv'
  BY <1>3, OtherReadStep, AccountsAssumption
<1>4. ASSUME NEW h \in Handlers, NEW e \in Emails, NEW role \in Roles,
             KycInsert(h, e, role)
      PROVE  AccountsInv'
  BY <1>4, OtherReadStep
<1>5. ASSUME NEW h \in Handlers, Serve(h) PROVE AccountsInv'
  BY <1>5, RegisterUpdateStep, RegisterInsertStep, StoreCodeStep, SendMailStep,
     VerifyConfirmStep, VerifyClearStep, KycUpdateStep, StatementFailsStep
  DEF Serve
<1>6. ASSUME NEW e \in GoogleEmails, OAuth(e) PROVE AccountsInv'
  BY <1>6, OAuthStep, AccountsAssumption
<1>7. ASSUME NEW e \in Emails,
             Expire(e) \/ \E s \in {"approved", "rejected"} : VerifyKYC(e, s)
      PROVE  AccountsInv'
  BY <1>7, ExpireStep, VerifyKYCStep
<1> QED
  BY <1>1, <1>2, <1>3, <1>4, <1>5, <1>6, <1>7 DEF Next

(* The invariant holds of every reachable state.                           *)
LEMMA Invariance == Spec => []AccountsInv
BY InitInv, Inductive, PTL DEF Spec

(* Every variable has its type.                                            *)
THEOREM TypeCorrect == Spec => []TypeOK
<1>1. AccountsInv => TypeOK
  BY DEF AccountsInv
<1> QED
  BY <1>1, Invariance, PTL

(* An address told that it is verified stays verified.                     *)
THEOREM StaysVerified == Spec => []VerifiedStays
<1>1. AccountsInv => VerifiedStays
  BY DEF AccountsInv
<1> QED
  BY <1>1, Invariance, PTL

(* An application shown as pending is on file.                             *)
THEOREM PendingFiled == Spec => []PendingIsOnFile
<1>1. AccountsInv => PendingIsOnFile
  BY DEF AccountsInv
<1> QED
  BY <1>1, Invariance, PTL

-----------------------------------------------------------------------------
(* The limiter. A counter is never below the requests let through in the   *)
(* window: each adds one to it, and it goes only when its time to live has *)
(* run out, a whole window after the last of them.                         *)
LimiterInv ==
  /\ count \in [Clients -> Nat] /\ ttl \in [Clients -> 0..Window]
  /\ admitted \in [Clients -> [L!Ages -> 0..MaxRequests]]
  /\ \A c \in Clients : \A i \in L!Ages :
       /\ admitted[c][i] <= count[c]
       /\ i < Window - ttl[c] => admitted[c][i] = 0

LEMMA InitLimiter == GatewayInit => LimiterInv
BY GatewayAssumption DEF GatewayInit, L!Init, LimiterInv, L!Ages

LEMMA AgesType == Window \in Nat \ {0} /\ MaxRequests \in Nat /\ L!Ages \subseteq Nat
BY GatewayAssumption DEF L!Ages

LEMMA IncrGrows ==
  ASSUME LimiterInv, NEW c \in Clients, L!Incr(c)
  PROVE  /\ count' \in [Clients -> Nat]
         /\ \A d \in Clients : count[d] <= count'[d]
         /\ count[c] <= MaxRequests => count'[c] = count[c] + 1
BY AgesType DEF LimiterInv, L!Incr, L!Counted

LEMMA AdmitStep == ASSUME LimiterInv, NEW c \in Clients, L!Admit(c) PROVE LimiterInv'
<1>1. /\ count' \in [Clients -> Nat] /\ \A d \in Clients : count[d] <= count'[d]
      /\ count[c] <= MaxRequests => count'[c] = count[c] + 1
  BY IncrGrows DEF L!Admit
<1>2. count[c] + 1 <= MaxRequests
  BY AgesType DEF L!Admit, L!Counted, LimiterInv
<1>3. /\ ttl' = [ttl EXCEPT ![c] = Window]
      /\ admitted' = [admitted EXCEPT ![c] = [i \in L!Ages |-> admitted[c][i] + 1]]
  BY DEF L!Admit, L!Expire
<1>4. ttl' \in [Clients -> 0..Window] /\ ttl'[c] = Window
  BY <1>3, AgesType DEF LimiterInv
<1>5. ASSUME NEW i \in L!Ages
      PROVE  /\ admitted[c][i] + 1 \in 0..MaxRequests
             /\ admitted[c][i] + 1 <= count'[c] /\ ~(i < Window - ttl'[c])
  <2>1. admitted[c][i] \in Nat /\ admitted[c][i] <= count[c] /\ count[c] \in Nat
    BY AgesType DEF LimiterInv
  <2> QED
    BY <1>1, <1>2, <1>4, <2>1, AgesType
<1>6. admitted' \in [Clients -> [L!Ages -> 0..MaxRequests]]
  BY <1>3, <1>5 DEF LimiterInv
<1>7. ASSUME NEW d \in Clients, NEW i \in L!Ages
      PROVE  /\ admitted'[d][i] <= count'[d]
             /\ i < Window - ttl'[d] => admitted'[d][i] = 0
  <2>1. CASE d = c
    BY <1>3, <1>5, <2>1 DEF LimiterInv
  <2>2. CASE d # c
    <3>1. admitted'[d] = admitted[d] /\ ttl'[d] = ttl[d] /\ count[d] <= count'[d]
      BY <1>1, <1>3, <2>2 DEF LimiterInv
    <3>2. admitted[d][i] \in Nat /\ count[d] \in Nat /\ count'[d] \in Nat
      BY <1>1, AgesType DEF LimiterInv
    <3> QED
      BY <3>1, <3>2 DEF LimiterInv
  <2> QED
    BY <2>1, <2>2
<1> QED
  BY <1>1, <1>4, <1>6, <1>7 DEF LimiterInv

(* A step that lets nobody through on Redis's word.                        *)
LEMMA UncountedStep ==
  ASSUME LimiterInv, NEW c \in Clients, L!Refuse(c) \/ L!FailOpen(c)
  PROVE  LimiterInv'
<1>1. /\ admitted' = admitted
      /\ L!Incr(c) \/ count' = count
      /\ ttl' = ttl \/ ttl' = [ttl EXCEPT ![c] = Window]
  BY DEF L!Refuse, L!FailOpen, L!Expire
<1>2. count' \in [Clients -> Nat] /\ \A d \in Clients : count[d] <= count'[d]
  BY <1>1, IncrGrows DEF LimiterInv
<1>3. /\ ttl' \in [Clients -> 0..Window]
      /\ \A d \in Clients : ttl'[d] = ttl[d] \/ ttl'[d] = Window
  BY <1>1, AgesType DEF LimiterInv
<1>4. ASSUME NEW d \in Clients, NEW i \in L!Ages
      PROVE  /\ admitted'[d][i] <= count'[d]
             /\ i < Window - ttl'[d] => admitted'[d][i] = 0
  <2>1. /\ admitted[d][i] \in Nat /\ count[d] \in Nat /\ count'[d] \in Nat
        /\ admitted[d][i] <= count[d] /\ (i < Window - ttl[d] => admitted[d][i] = 0)
        /\ i \in Nat
    BY <1>2, AgesType DEF LimiterInv
  <2> QED
    BY <1>1, <1>2, <1>3, <2>1, AgesType
<1> QED
  BY <1>1, <1>2, <1>3, <1>4 DEF LimiterInv

LEMMA LimiterTick == ASSUME LimiterInv, L!Tick PROVE LimiterInv'
<1>1. /\ count' = [c \in Clients |-> IF ttl[c] = 1 THEN 0 ELSE count[c]]
      /\ ttl' = [c \in Clients |-> IF ttl[c] = 0 THEN 0 ELSE ttl[c] - 1]
      /\ admitted' = [c \in Clients |->
           [i \in L!Ages |-> IF i = 0 THEN 0 ELSE admitted[c][i - 1]]]
  BY DEF L!Tick
<1>2. ASSUME NEW c \in Clients
      PROVE  count'[c] \in Nat /\ ttl'[c] \in 0..Window
  BY <1>1, AgesType DEF LimiterInv
<1>3. ASSUME NEW c \in Clients, NEW i \in L!Ages
      PROVE  /\ admitted'[c][i] \in 0..MaxRequests /\ admitted'[c][i] <= count'[c]
             /\ i < Window - ttl'[c] => admitted'[c][i] = 0
  <2>1. CASE i = 0
    BY <1>1, <1>2, <2>1, AgesType
  <2>2. CASE i # 0
    <3>1. i - 1 \in L!Ages /\ i \in Nat /\ i <= Window - 1
      BY <2>2, AgesType DEF L!Ages
    <3>2. /\ admitted'[c][i] = admitted[c][i - 1] /\ admitted[c][i - 1] \in 0..MaxRequests
          /\ admitted[c][i - 1] <= count[c] /\ count[c] \in Nat /\ ttl[c] \in 0..Window
          /\ i - 1 < Window - ttl[c] => admitted[c][i - 1] = 0
      BY <1>1, <2>2, <3>1 DEF LimiterInv
    <3>3. /\ count'[c] = IF ttl[c] = 1 THEN 0 ELSE count[c]
          /\ ttl'[c] = IF ttl[c] = 0 THEN 0 ELSE ttl[c] - 1
      BY <1>1
    <3> QED
      BY <3>1, <3>2, <3>3, AgesType
  <2> QED
    BY <2>1, <2>2
<1> QED
  BY <1>1, <1>2, <1>3 DEF LimiterInv

LEMMA NextLimiter == LimiterInv /\ [GatewayNext]_gateway => LimiterInv'
<1> SUFFICES ASSUME LimiterInv, [GatewayNext]_gateway PROVE LimiterInv'
  OBVIOUS
<1>1. ASSUME UNCHANGED limiter PROVE LimiterInv'
  BY <1>1 DEF limiter, LimiterInv
<1>2. ASSUME NEW c \in Clients, NEW h \in Goroutines, Request(c, h) PROVE LimiterInv'
  BY <1>2, AdmitStep, UncountedStep DEF Request
<1>3. ASSUME NEW c \in Clients, Limited(c) PROVE LimiterInv'
  BY <1>3, UncountedStep DEF Limited
<1>4. ASSUME NEW h \in Goroutines, Answer(h) PROVE LimiterInv'
  BY <1>1, <1>4 DEF Answer
<1>5. CASE Tick
  BY <1>5, LimiterTick DEF Tick
<1>6. CASE UNCHANGED gateway
  BY <1>1, <1>6 DEF gateway, limiter
<1> QED
  BY <1>2, <1>3, <1>4, <1>5, <1>6 DEF GatewayNext

(* No window of time, wherever it starts, lets through more requests of a  *)
(* client than its limit, on Redis's word.                                 *)
THEOREM WindowIsBounded == GatewaySpec => []SlidingWindowBound
<1>1. LimiterInv => SlidingWindowBound
  <2> SUFFICES ASSUME LimiterInv, NEW c \in Clients PROVE L!Recent(c) <= MaxRequests
    BY DEF SlidingWindowBound
  <2>1. Window - 1 \in L!Ages
    BY AgesType DEF L!Ages
  <2> QED
    BY <2>1, AgesType DEF LimiterInv, L!Recent
<1> QED
  BY <1>1, InitLimiter, NextLimiter, PTL DEF GatewaySpec
=============================================================================
