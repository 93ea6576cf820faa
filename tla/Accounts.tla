------------------------------ MODULE Accounts ------------------------------
(***************************************************************************)
(* The account of one customer: signing up, the mailed link that verifies  *)
(* the address, the profile form, changing the password by a mailed link,  *)
(* and verifying a phone number by a code (modules/auth, modules/users,    *)
(* internal/sms/verification_service.go and their handlers).               *)
(*                                                                         *)
(* Hardly any of these requests is one transaction: each is a call that    *)
(* reads, and then writes in further statements, with other calls between. *)
(* The passwords are numbers: 0 is the one of the sign-up, n the one of    *)
(* the n-th change asked for, which is also the number of its link.  A     *)
(* link or a code is open while it can be used: no query tells the rows    *)
(* that are used, expired or deleted apart.                                *)
(***************************************************************************)
EXTENDS Integers, FiniteSets

CONSTANTS
  Calls,       \* requests that may be on the server together
  Phones,
  NoPhone,     \* phone_e164 is NULL
  NoUser,      \* there is no such row in users
  SendLimit,   \* codes a user may ask for within one window
  MaxChanges,  \* bound: password changes asked for
  MaxCodes,    \* bound: codes asked for
  MaxAsked,    \* bound: both together
  MaxStops     \* bound: calls that a crash or a failing statement cuts short

Changes == 1 .. MaxChanges
Codes == 1 .. MaxCodes
Row == [password : 0 .. MaxChanges, active : BOOLEAN, emailVerified : BOOLEAN,
        phoneVerified : BOOLEAN, phone : Phones \cup {NoPhone}]

ASSUME AccountsAssumption ==
  /\ IsFiniteSet(Calls)
  /\ NoPhone \notin Phones /\ NoUser \notin Row
  /\ SendLimit \in Nat \ {0} /\ MaxChanges \in Nat /\ MaxCodes \in Nat
  /\ MaxAsked \in Nat /\ MaxStops \in Nat

VARIABLES
  user,        \* the row in users, or NoUser
  token,       \* whether the user's row in email_verifications is open
  changes,     \* the open rows of password_changes
  codes,       \* sms_verifications: the number an open code was sent to
  limit,       \* sms_rate_limits: a count of 0 is no row
  call,        \* where each call is and what it has read
  asked,       \* how many changes and codes there are; calls cut short
  meant,       \* history: the row had no profile form been open meanwhile
  overrun,     \* history: the columns written while a form was open
  links,       \* history: what happened to the links of password changes
  window       \* history: codes sent since the limit expired; those whose
               \* calls overlapped others or were cut short

accountsVars == <<user, token, changes, codes, limit, call, asked,
                  meant, overrun, links, window>>
-----------------------------------------------------------------------------
(* A row as SignupPost inserts it: status is "pending".                    *)
NewRow == [password |-> 0, active |-> FALSE, emailVerified |-> FALSE,
           phoneVerified |-> FALSE, phone |-> NoPhone]

Idle == [pc |-> "idle", read |-> NewRow, phone |-> NoPhone, number |-> 0]

Places == {"idle", "create", "mail", "edit", "apply", "mark", "delete", "insert",
           "send", "record", "first", "verify", "phone"}
CallStates == [pc : Places, read : Row, phone : Phones \cup {NoPhone},
               number : 0 .. MaxChanges + MaxCodes]

AccountsTypeOK ==
  /\ user \in Row \cup {NoUser}
  /\ token \in BOOLEAN
  /\ changes \subseteq Changes
  /\ codes \in [Codes -> Phones \cup {NoPhone}]
  /\ limit \in [count : 0 .. MaxCodes, expired : BOOLEAN]
  /\ call \in [Calls -> CallStates]
  /\ asked \in [changes : 0 .. MaxChanges, codes : 0 .. MaxCodes, stops : 0 .. MaxStops]
  /\ meant \in Row
  /\ overrun \subseteq {"password", "active"}
  /\ links \in [followed : SUBSET Changes, applied : SUBSET Changes,
                withdrawn : SUBSET Changes, overtaken : SUBSET Changes]
  /\ window \in [sent : SUBSET Codes, extra : SUBSET Codes]

AccountsInit ==
  /\ user = NoUser
  /\ token = FALSE
  /\ changes = {}
  /\ codes = [c \in Codes |-> NoPhone]
  /\ limit = [count |-> 0, expired |-> FALSE]
  /\ call = [k \in Calls |-> Idle]
  /\ asked = [changes |-> 0, codes |-> 0, stops |-> 0]
  /\ meant = NewRow
  /\ overrun = {}
  /\ links = [followed |-> {}, applied |-> {}, withdrawn |-> {}, overtaken |-> {}]
  /\ window = [sent |-> {}, extra |-> {}]
-----------------------------------------------------------------------------
At(k, pc) == call[k].pc = pc
Goto(k, pc) == call' = [call EXCEPT ![k].pc = pc]
Start(k, pc, read, phone, number) ==
  /\ At(k, "idle")
  /\ call' = [call EXCEPT ![k] = [pc |-> pc, read |-> read, phone |-> phone,
                                  number |-> number]]
Finish(k) == call' = [call EXCEPT ![k] = Idle]

Editing == \E k \in Calls : At(k, "edit")

(* Statements that set these columns of the row.  A profile form that was  *)
(* read before will write the password and the status back.                *)
Write(columns, Changed(_)) ==
  /\ user' = Changed(user)
  /\ meant' = Changed(meant)
  /\ overrun' = IF Editing THEN overrun \cup (columns \cap {"password", "active"})
                           ELSE overrun \ columns
-----------------------------------------------------------------------------
(* Sign-up: the address is looked up, the row inserted (the loser of two   *)
(* meets the unique key), and the mail asked for in a transaction of its   *)
(* own: if that fails the user stays pending and asks for another.         *)
SignUp(k) ==
  /\ user = NoUser
  /\ Start(k, "create", NewRow, NoPhone, 0)
  /\ UNCHANGED <<user, token, changes, codes, limit, asked, meant, overrun, links, window>>

CreateUser(k) ==
  /\ At(k, "create")
  /\ IF user = NoUser THEN user' = NewRow /\ Goto(k, "mail")
                      ELSE Finish(k) /\ UNCHANGED user
  /\ UNCHANGED <<token, changes, codes, limit, asked, meant, overrun, links, window>>

(* The account page asks for another mail.                                 *)
SendVerificationEmail(k) == user # NoUser /\ At(k, "idle") /\ UNCHANGED call

(* StartEmailVerification replaces every earlier link.                     *)
StartEmailVerification(k) ==
  /\ (At(k, "mail") /\ Finish(k)) \/ SendVerificationEmail(k)
  /\ token' = TRUE
  /\ UNCHANGED <<user, changes, codes, limit, asked, meant, overrun, links, window>>

(* The link in the mail, in one transaction with the row locked.           *)
VerifyEmail ==
  /\ token
  /\ token' = FALSE
  /\ Write({"active", "emailVerified"},
           LAMBDA row : [row EXCEPT !.active = TRUE, !.emailVerified = TRUE])
  /\ UNCHANGED <<changes, codes, limit, call, asked, links, window>>

TokenExpires ==
  /\ token
  /\ token' = FALSE
  /\ UNCHANGED <<user, changes, codes, limit, call, asked, meant, overrun, links, window>>
-----------------------------------------------------------------------------
(* The profile form: the row is read, and Updates(user) writes back every  *)
(* column that is not zero, those the form does not show included.  An     *)
(* emptied phone number is such a zero and stays.                          *)
EditRead(k, phone) ==
  /\ user # NoUser
  /\ Start(k, "edit", user, phone, 0)
  /\ UNCHANGED <<user, token, changes, codes, limit, asked, meant, overrun, links, window>>

(* A faulty WrittenBack that writes all columns: Save for Updates.         *)
WrittenBackWhole(read) == read

WrittenBack(read) ==
  [user EXCEPT !.password = read.password, !.active = read.active,
               !.emailVerified = @ \/ read.emailVerified,
               !.phoneVerified = @ \/ read.phoneVerified]

UpdateUser(k) ==
  /\ At(k, "edit")
  /\ LET phone == IF call[k].phone = NoPhone THEN user.phone ELSE call[k].phone
     IN /\ user' = [WrittenBack(call[k].read) EXCEPT !.phone = phone]
        /\ meant' = [meant EXCEPT !.phone = phone]
  /\ Finish(k)
  /\ UNCHANGED <<token, changes, codes, limit, asked, overrun, links, window>>

(* The SMS settings: only the columns of the form are written (of which    *)
(* sms_opt_in and its log sms_consents are read by nothing).               *)
SaveSMS(phone) ==
  /\ user # NoUser
  /\ Write({"phone"}, LAMBDA row : [row EXCEPT !.phone = phone])
  /\ UNCHANGED <<token, changes, codes, limit, call, asked, links, window>>
-----------------------------------------------------------------------------
(* A password change.  Asking for one deletes those not used yet; the link *)
(* is read, the password written and the link marked as used in three      *)
(* statements; cancelling marks it as used, and so, in effect, does time   *)
(* (a link that is not open any more is cancelled without effect).         *)
StartPasswordChange ==
  /\ asked.changes < MaxChanges /\ asked.changes + asked.codes < MaxAsked
  /\ LET n == asked.changes + 1 IN
     /\ asked' = [asked EXCEPT !.changes = n]
     /\ changes' = {n}
  /\ links' = [links EXCEPT
       !.withdrawn = @ \cup (changes \ links.followed),
       !.overtaken = @ \cup {call[k].number : k \in {k \in Calls : At(k, "apply")}}]
  /\ UNCHANGED <<user, token, codes, limit, call, meant, overrun, window>>

(* The form on the account page, with the current password.                *)
ChangePassword == user # NoUser /\ StartPasswordChange

(* A faulty ConfirmPasswordChange that looks the link up by its hash only. *)
ConfirmAnyChange(k, c) ==
  /\ c <= asked.changes
  /\ Start(k, "apply", NewRow, NoPhone, c)
  /\ links' = [links EXCEPT !.followed = @ \cup {c}]
  /\ UNCHANGED <<user, token, changes, codes, limit, asked, meant, overrun, window>>

ConfirmPasswordChange(k, c) ==
  /\ c \in changes
  /\ Start(k, "apply", NewRow, NoPhone, c)
  /\ links' = [links EXCEPT !.followed = @ \cup {c}]
  /\ UNCHANGED <<user, token, changes, codes, limit, asked, meant, overrun, window>>

UpdatePassword(k) ==
  /\ At(k, "apply")
  /\ Write({"password"}, LAMBDA row : [row EXCEPT !.password = call[k].number])
  /\ links' = [links EXCEPT !.applied = @ \cup {call[k].number}]
  /\ Goto(k, "mark")
  /\ UNCHANGED <<token, changes, codes, limit, asked, window>>

MarkUsed(c) == changes' = changes \ {c}

ApplyPasswordChange(k) ==
  /\ At(k, "mark")
  /\ MarkUsed(call[k].number)
  /\ Finish(k)
  /\ UNCHANGED <<user, token, codes, limit, asked, meant, overrun, links, window>>

CancelPasswordChange(c) ==
  /\ c \in changes
  /\ MarkUsed(c)
  /\ links' = [links EXCEPT !.withdrawn = @ \cup ({c} \ links.followed)]
  /\ UNCHANGED <<user, token, codes, limit, call, asked, meant, overrun, window>>

ChangeExpires(c) == CancelPasswordChange(c)
-----------------------------------------------------------------------------
(* StartPhoneVerification: the limit is checked, the user's unverified     *)
(* codes are deleted, a new one is stored and sent, and the attempt is     *)
(* counted, each in a statement of its own.                                *)
RateLimited == limit.count >= SendLimit /\ ~ limit.expired
SendingPlaces == {"delete", "insert", "send", "record", "first"}
Sending == {k \in Calls : call[k].pc \in SendingPlaces}

CheckLimit(k) ==
  /\ user # NoUser /\ user.phone # NoPhone
  /\ asked.codes < MaxCodes /\ asked.changes + asked.codes < MaxAsked
  /\ ~ RateLimited
  /\ LET n == asked.codes + 1 IN
     /\ asked' = [asked EXCEPT !.codes = n]
     /\ Start(k, "delete", NewRow, user.phone, n)
     /\ window' = [window EXCEPT !.extra = IF Sending = {} THEN @ ELSE @ \cup {n}]
  /\ UNCHANGED <<user, token, changes, codes, limit, meant, overrun, links>>

DeleteCodes(k) ==
  /\ At(k, "delete")
  /\ codes' = [c \in Codes |-> NoPhone]
  /\ Goto(k, "insert")
  /\ UNCHANGED <<user, token, changes, limit, asked, meant, overrun, links, window>>

InsertCode(k) ==
  /\ At(k, "insert")
  /\ codes' = [codes EXCEPT ![call[k].number] = call[k].phone]
  /\ Goto(k, "send")
  /\ UNCHANGED <<user, token, changes, limit, asked, meant, overrun, links, window>>

(* The provider takes the message or refuses it: the attempt counts.       *)
SendCode(k, taken) ==
  /\ At(k, "send")
  /\ window' = [window EXCEPT !.sent = IF taken THEN @ \cup {call[k].number} ELSE @]
  /\ Goto(k, "record")
  /\ UNCHANGED <<user, token, changes, codes, limit, asked, meant, overrun, links>>

(* recordAttempt: an UPDATE, and an INSERT if there was no row to update;  *)
(* the INSERT fails in silence when another call was first.                *)
(* Two faulty variants of Counted: by two, and from the start.             *)
CountedTwice == [count |-> limit.count + 2, expired |-> FALSE]
CountedAnew == [count |-> 1, expired |-> FALSE]
Counted == [count |-> limit.count + 1, expired |-> FALSE]

RecordAttempt(k) ==
  /\ At(k, "record")
  /\ IF limit.count > 0 THEN limit' = Counted /\ Finish(k)
                        ELSE Goto(k, "first") /\ UNCHANGED limit
  /\ UNCHANGED <<user, token, changes, codes, asked, meant, overrun, links, window>>

RecordFirst(k) ==
  /\ At(k, "first")
  /\ limit' = IF limit.count = 0 THEN Counted ELSE limit
  /\ Finish(k)
  /\ UNCHANGED <<user, token, changes, codes, asked, meant, overrun, links, window>>

LimitExpires ==
  /\ limit.count > 0 /\ ~ limit.expired
  /\ limit' = [limit EXCEPT !.expired = TRUE]
  /\ window' = [sent |-> {}, extra |-> window.extra \cup {call[k].number : k \in Sending}]
  /\ UNCHANGED <<user, token, changes, codes, call, asked, meant, overrun, links>>

(* VerifyPhoneCode looks the code up and marks it, and its handler writes  *)
(* the number it was sent to into the user's row.                          *)
EnterCode(k, c) ==
  /\ codes[c] # NoPhone
  /\ Start(k, "verify", NewRow, codes[c], c)
  /\ UNCHANGED <<user, token, changes, codes, limit, asked, meant, overrun, links, window>>

MarkVerified(k) ==
  /\ At(k, "verify")
  /\ codes' = [codes EXCEPT ![call[k].number] = NoPhone]
  /\ Goto(k, "phone")
  /\ UNCHANGED <<user, token, changes, limit, asked, meant, overrun, links, window>>

WritePhone(k) ==
  /\ At(k, "phone")
  /\ Write({"phone", "phoneVerified"},
           LAMBDA row : [row EXCEPT !.phone = call[k].phone, !.phoneVerified = TRUE])
  /\ Finish(k)
  /\ UNCHANGED <<token, changes, codes, limit, asked, links, window>>

CodeExpires(c) ==
  /\ codes[c] # NoPhone
  /\ codes' = [codes EXCEPT ![c] = NoPhone]
  /\ UNCHANGED <<user, token, changes, limit, call, asked, meant, overrun, links, window>>
-----------------------------------------------------------------------------
(* A crash, or a statement that fails and makes the handler return.        *)
Stop(k) ==
  /\ ~ At(k, "idle")
  /\ asked.stops < MaxStops
  /\ asked' = [asked EXCEPT !.stops = @ + 1]
  /\ window' = [window EXCEPT !.extra = IF k \in Sending THEN @ \cup {call[k].number}
                                                        ELSE @]
  /\ Finish(k)
  /\ UNCHANGED <<user, token, changes, codes, limit, meant, overrun, links>>

CallStep(k) ==
  \/ SignUp(k) \/ CreateUser(k) \/ StartEmailVerification(k)
  \/ \E p \in Phones \cup {NoPhone} : EditRead(k, p)
  \/ UpdateUser(k)
  \/ \E c \in Changes : ConfirmPasswordChange(k, c)
  \/ UpdatePassword(k) \/ ApplyPasswordChange(k)
  \/ CheckLimit(k) \/ DeleteCodes(k) \/ InsertCode(k)
  \/ \E taken \in BOOLEAN : SendCode(k, taken)
  \/ RecordAttempt(k) \/ RecordFirst(k)
  \/ \E c \in Codes : EnterCode(k, c)
  \/ MarkVerified(k) \/ WritePhone(k)
  \/ Stop(k)

AccountsNext ==
  \/ \E k \in Calls : CallStep(k)
  \/ VerifyEmail \/ TokenExpires
  \/ \E p \in Phones : SaveSMS(p)
  \/ ChangePassword
  \/ \E c \in Changes : CancelPasswordChange(c) \/ ChangeExpires(c)
  \/ LimitExpires
  \/ \E c \in Codes : CodeExpires(c)

AccountsSpec == AccountsInit /\ [][AccountsNext]_accountsVars
-----------------------------------------------------------------------------
(* The password in force was the one of the sign-up or its link has been   *)
(* followed while it was valid: a change that was cancelled, replaced or   *)
(* left to expire before that never takes effect, whatever overlaps.  Nor  *)
(* does an older change replace a newer one, unless its link was just      *)
(* being followed when the newer one was asked for.                        *)
PasswordAsConfirmed ==
  /\ user # NoUser => user.password \in {0} \cup links.followed
  /\ links.followed \cap links.withdrawn = {}
  /\ \A c \in links.applied : c > meant.password => meant.password \in links.overtaken

(* The row says what the last request meant it to say: a profile form      *)
(* takes back nothing but a password or status that changed while it was   *)
(* open, and never the verification of the address or of the number.       *)
RowAsMeant ==
  user # NoUser =>
    /\ "password" \notin overrun => user.password = meant.password
    /\ "active" \notin overrun => user.active = meant.active
    /\ user.emailVerified = meant.emailVerified
    /\ user.phoneVerified = meant.phoneVerified /\ user.phone = meant.phone

(* "3 attempts in 5 minutes = rate limited" (verification_service.go:196): *)
(* no more codes are sent before the limit expires, not counting those     *)
(* whose calls overlapped another, the expiry, or a crash.                 *)
CodesLimited == Cardinality(window.sent \ window.extra) <= SendLimit
=============================================================================
