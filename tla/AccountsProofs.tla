--------------------------- MODULE AccountsProofs ---------------------------
(***************************************************************************)
(* Proofs about Accounts, for any set of calls, any numbers of password    *)
(* changes and of codes, any limit and any number of calls cut short.      *)
(***************************************************************************)
EXTENDS Accounts, FiniteSetTheorems, TLAPS

(* Before the sign-up there is nothing but calls that sign up.             *)
NothingYet ==
  user = NoUser =>
    /\ meant = NewRow /\ overrun = {} /\ ~ token /\ changes = {}
    /\ \A c \in Codes : codes[c] = NoPhone
    /\ \A k \in Calls : call[k].pc \in {"idle", "create"}

(* Only the newest link is open; a call about to write the password has    *)
(* followed its link, and knows no newer one unless it was overtaken.      *)
LinksKnown ==
  /\ \A c \in changes : c = asked.changes
  /\ \A c \in links.withdrawn \cup links.followed : c <= asked.changes
  /\ changes \cap links.withdrawn = {}
  /\ links.followed \cap links.withdrawn = {}
  /\ links.applied \subseteq links.followed
  /\ meant.password \in {0} \cup links.applied
  /\ \A c \in links.applied : c > meant.password => meant.password \in links.overtaken
  /\ \A k \in Calls : call[k].pc = "apply" =>
       /\ call[k].number \in links.followed
       /\ call[k].number # asked.changes => call[k].number \in links.overtaken

(* What a profile form has read is what was meant, but for the columns     *)
(* that were written since.                                                *)
SameBut(row) ==
  /\ row.password \in {0} \cup links.followed
  /\ "password" \notin overrun => row.password = meant.password
  /\ "active" \notin overrun => row.active = meant.active

RowsKnown ==
  /\ user # NoUser => /\ SameBut(user)
                      /\ user.emailVerified = meant.emailVerified
                      /\ user.phoneVerified = meant.phoneVerified
                      /\ user.phone = meant.phone
  /\ \A k \in Calls : call[k].pc = "edit" =>
       /\ SameBut(call[k].read)
       /\ call[k].read.emailVerified => meant.emailVerified
       /\ call[k].read.phoneVerified => meant.phoneVerified

(* The codes that count against the limit: sent, answered for, and by a    *)
(* call that was alone.  At most one call under way is alone.              *)
Alone == {k \in Sending : call[k].number \notin window.extra}
Spent == (window.sent \ window.extra) \ {call[k].number : k \in Sending}

NumbersKnown ==
  /\ \A k \in Sending : call[k].number \in 1 .. asked.codes
  /\ \A k, l \in Sending : call[k].number = call[l].number => k = l
  /\ \A n \in window.sent \cup window.extra : n <= asked.codes
  /\ \A k, l \in Alone : k = l

Counts == Sending \in SUBSET Calls /\ limit.count + Cardinality(Sending) <= asked.codes

SpentCounted ==
  /\ ~ limit.expired => Cardinality(Spent) <= limit.count
  /\ limit.expired => Spent = {} /\ limit.count > 0
  /\ Cardinality(Spent) <= SendLimit
  /\ Alone # {} => Cardinality(Spent) < SendLimit
  /\ \A k \in Alone : call[k].pc = "first" => Spent = {} /\ ~ limit.expired
-----------------------------------------------------------------------------
LEMMA RowType ==
  ASSUME NEW row \in Row
  PROVE  /\ \A n \in 0 .. MaxChanges : [row EXCEPT !.password = n] \in Row
         /\ \A p \in Phones \cup {NoPhone} : [row EXCEPT !.phone = p] \in Row
         /\ [row EXCEPT !.active = TRUE, !.emailVerified = TRUE] \in Row
         /\ \A p \in Phones \cup {NoPhone} :
              [row EXCEPT !.phone = p, !.phoneVerified = TRUE] \in Row
  BY DEF Row

LEMMA WrittenBackType ==
  ASSUME user \in Row, NEW read \in Row
  PROVE  /\ WrittenBack(read) \in Row
         /\ WrittenBack(read).password = read.password
         /\ WrittenBack(read).active = read.active
         /\ WrittenBack(read).emailVerified = (user.emailVerified \/ read.emailVerified)
         /\ WrittenBack(read).phoneVerified = (user.phoneVerified \/ read.phoneVerified)
  BY DEF WrittenBack, Row

LEMMA NewRowType == NewRow \in Row
  BY AccountsAssumption DEF NewRow, Row

LEMMA GotoShape ==
  ASSUME call \in [Calls -> CallStates], NEW k \in Calls, NEW pc \in Places, Goto(k, pc)
  PROVE  /\ call' \in [Calls -> CallStates]
         /\ call'[k].pc = pc /\ call'[k].read = call[k].read
         /\ call'[k].phone = call[k].phone /\ call'[k].number = call[k].number
         /\ \A l \in Calls \ {k} : call'[l] = call[l]
  BY DEF Goto, CallStates

LEMMA StartShape ==
  ASSUME call \in [Calls -> CallStates], NEW k \in Calls, NEW pc \in Places,
         NEW read \in Row, NEW phone \in Phones \cup {NoPhone},
         NEW n \in 0 .. MaxChanges + MaxCodes, Start(k, pc, read, phone, n)
  PROVE  /\ call' \in [Calls -> CallStates]
         /\ call[k].pc = "idle"
         /\ call'[k].pc = pc /\ call'[k].read = read
         /\ call'[k].phone = phone /\ call'[k].number = n
         /\ \A l \in Calls \ {k} : call'[l] = call[l]
  BY DEF Start, CallStates, At

LEMMA FinishShape ==
  ASSUME call \in [Calls -> CallStates], NEW k \in Calls, Finish(k)
  PROVE  /\ call' \in [Calls -> CallStates]
         /\ call'[k].pc = "idle"
         /\ \A l \in Calls \ {k} : call'[l] = call[l]
  <1>1. Idle \in CallStates /\ Idle.pc = "idle"
    BY NewRowType, AccountsAssumption DEF Idle, CallStates, Places
  <1>2. QED  BY <1>1 DEF Finish
-----------------------------------------------------------------------------
(* Type correctness.                                                       *)
LEMMA CallTypeStep ==
  ASSUME AccountsTypeOK, NEW k \in Calls, CallStep(k)
  PROVE  call' \in [Calls -> CallStates]
  <1>1. call \in [Calls -> CallStates] /\ NewRow \in Row
    BY NewRowType DEF AccountsTypeOK
  <1>2. CASE \E pc \in Places : Goto(k, pc)
    BY <1>1, <1>2, GotoShape
  <1>3. CASE Finish(k)
    BY <1>1, <1>3, FinishShape
  <1>4. CASE UNCHANGED call
    BY <1>1, <1>4
  <1>5. CASE SignUp(k)
    BY <1>1, <1>5, StartShape, AccountsAssumption DEF SignUp, Places
  <1>6. ASSUME NEW p \in Phones \cup {NoPhone}, EditRead(k, p)
        PROVE  call' \in [Calls -> CallStates]
    <2>1. user \in Row /\ Start(k, "edit", user, p, 0)
      BY <1>6 DEF EditRead, AccountsTypeOK
    <2>2. QED  BY <1>1, <2>1, StartShape, AccountsAssumption DEF Places
  <1>7. ASSUME NEW c \in Changes, ConfirmPasswordChange(k, c)
        PROVE  call' \in [Calls -> CallStates]
    <2>1. Start(k, "apply", NewRow, NoPhone, c) /\ c \in 0 .. MaxChanges + MaxCodes
      BY <1>7, AccountsAssumption DEF ConfirmPasswordChange, Changes
    <2>2. QED  BY <1>1, <2>1, StartShape DEF Places
  <1>8. CASE CheckLimit(k)
    <2>1. user \in Row /\ user.phone \in Phones \cup {NoPhone}
      BY <1>8 DEF CheckLimit, AccountsTypeOK, Row
    <2>2. /\ Start(k, "delete", NewRow, user.phone, asked.codes + 1)
          /\ asked.codes + 1 \in 0 .. MaxChanges + MaxCodes
      BY <1>8, AccountsAssumption DEF CheckLimit, AccountsTypeOK
    <2>3. QED  BY <1>1, <2>1, <2>2, StartShape DEF Places
  <1>9. ASSUME NEW c \in Codes, EnterCode(k, c)
        PROVE  call' \in [Calls -> CallStates]
    <2>1. /\ Start(k, "verify", NewRow, codes[c], c)
          /\ codes[c] \in Phones \cup {NoPhone}
          /\ c \in 0 .. MaxChanges + MaxCodes
      BY <1>9, AccountsAssumption DEF EnterCode, AccountsTypeOK, Codes
    <2>2. QED  BY <1>1, <2>1, StartShape DEF Places
  <1>10. CASE \E taken \in BOOLEAN : SendCode(k, taken)
    BY <1>2, <1>10 DEF SendCode, Places
  <1>11. CASE CreateUser(k) \/ StartEmailVerification(k) \/ UpdateUser(k)
    BY <1>2, <1>3, <1>4, <1>11 DEF CreateUser, StartEmailVerification, SendVerificationEmail, UpdateUser, Places
  <1>12. CASE UpdatePassword(k) \/ ApplyPasswordChange(k) \/ DeleteCodes(k) \/ InsertCode(k)
    BY <1>2, <1>3, <1>12
       DEF UpdatePassword, ApplyPasswordChange, DeleteCodes, InsertCode, Places
  <1>13. CASE RecordAttempt(k) \/ RecordFirst(k) \/ MarkVerified(k) \/ WritePhone(k) \/ Stop(k)
    BY <1>2, <1>3, <1>13
       DEF RecordAttempt, RecordFirst, MarkVerified, WritePhone, Stop, Places
  <1>14. QED
    BY <1>5, <1>6, <1>7, <1>8, <1>9, <1>10, <1>11, <1>12, <1>13 DEF CallStep

LEMMA RowTypeStep ==
  ASSUME AccountsTypeOK, NothingYet, LinksKnown, [AccountsNext]_accountsVars
  PROVE  /\ user' \in Row \cup {NoUser} /\ (user # NoUser => user' \in Row)
         /\ meant' \in Row /\ overrun' \subseteq {"password", "active"}
  <1> DEFINE Good == /\ user' \in Row \cup {NoUser} /\ (user # NoUser => user' \in Row)
                     /\ meant' \in Row /\ overrun' \subseteq {"password", "active"}
  <1>1. CASE UNCHANGED <<user, meant, overrun>>
    BY <1>1 DEF AccountsTypeOK
  <1>2. CASE VerifyEmail
    <2>1. user \in Row /\ meant \in Row
      BY <1>2 DEF VerifyEmail, NothingYet, AccountsTypeOK
    <2>2. /\ user' = [user EXCEPT !.active = TRUE, !.emailVerified = TRUE]
          /\ meant' = [meant EXCEPT !.active = TRUE, !.emailVerified = TRUE]
      BY <1>2 DEF VerifyEmail, Write
    <2>3. overrun' \subseteq {"password", "active"}
      BY <1>2 DEF VerifyEmail, Write, AccountsTypeOK
    <2>4. QED  BY <2>1, <2>2, <2>3, RowType
  <1>3. ASSUME NEW p \in Phones, SaveSMS(p)  PROVE Good
    <2>1. user \in Row /\ meant \in Row
      BY <1>3 DEF SaveSMS, AccountsTypeOK
    <2>2. user' = [user EXCEPT !.phone = p] /\ meant' = [meant EXCEPT !.phone = p]
      BY <1>3 DEF SaveSMS, Write
    <2>3. overrun' \subseteq {"password", "active"}
      BY <1>3 DEF SaveSMS, Write, AccountsTypeOK
    <2>4. QED  BY <2>1, <2>2, <2>3, RowType
  <1>4. ASSUME NEW k \in Calls, UpdatePassword(k)  PROVE Good
    <2>1. user \in Row /\ meant \in Row
      BY <1>4 DEF UpdatePassword, At, NothingYet, AccountsTypeOK
    <2>2. /\ user' = [user EXCEPT !.password = call[k].number]
          /\ meant' = [meant EXCEPT !.password = call[k].number]
      BY <1>4 DEF UpdatePassword, Write
    <2>3. call[k].number \in 0 .. MaxChanges
      BY <1>4, AccountsAssumption DEF UpdatePassword, At, LinksKnown, AccountsTypeOK, Changes
    <2>4. overrun' \subseteq {"password", "active"}
      BY <1>4 DEF UpdatePassword, Write, AccountsTypeOK
    <2>5. QED  BY <2>1, <2>2, <2>3, <2>4, RowType
  <1>5. ASSUME NEW k \in Calls, WritePhone(k)  PROVE Good
    <2>1. user \in Row /\ meant \in Row
      BY <1>5 DEF WritePhone, At, NothingYet, AccountsTypeOK
    <2>2. /\ user' = [user EXCEPT !.phone = call[k].phone, !.phoneVerified = TRUE]
          /\ meant' = [meant EXCEPT !.phone = call[k].phone, !.phoneVerified = TRUE]
      BY <1>5 DEF WritePhone, Write
    <2>3. call[k].phone \in Phones \cup {NoPhone}
      BY DEF AccountsTypeOK, CallStates
    <2>4. overrun' \subseteq {"password", "active"}
      BY <1>5 DEF WritePhone, Write, AccountsTypeOK
    <2>5. QED  BY <2>1, <2>2, <2>3, <2>4, RowType
  <1>6. ASSUME NEW k \in Calls, UpdateUser(k)  PROVE Good
    <2>1. user \in Row /\ meant \in Row /\ call[k].read \in Row
      BY <1>6 DEF UpdateUser, At, NothingYet, AccountsTypeOK, CallStates
    <2>2. PICK p \in Phones \cup {NoPhone} :
             /\ user' = [WrittenBack(call[k].read) EXCEPT !.phone = p]
             /\ meant' = [meant EXCEPT !.phone = p]
      <3>1. user.phone \in Phones \cup {NoPhone} /\ call[k].phone \in Phones \cup {NoPhone}
        BY <2>1 DEF AccountsTypeOK, CallStates, Row
      <3>2. QED  BY <1>6, <3>1 DEF UpdateUser
    <2>3. UNCHANGED overrun
      BY <1>6 DEF UpdateUser
    <2>4. QED  BY <2>1, <2>2, <2>3, RowType, WrittenBackType DEF AccountsTypeOK
  <1>7. ASSUME NEW k \in Calls, CreateUser(k)  PROVE Good
    BY <1>7, NewRowType DEF CreateUser, AccountsTypeOK
  <1>8. ASSUME NEW k \in Calls, CallStep(k)  PROVE Good
    BY <1>1, <1>4, <1>5, <1>6, <1>7, <1>8
       DEF CallStep, SignUp, StartEmailVerification, SendVerificationEmail, EditRead, ConfirmPasswordChange,
           ApplyPasswordChange, CheckLimit, DeleteCodes, InsertCode, SendCode,
           RecordAttempt, RecordFirst, EnterCode, MarkVerified, Stop
  <1>9. QED
    BY <1>1, <1>2, <1>3, <1>8
       DEF AccountsNext, TokenExpires, ChangePassword, StartPasswordChange, CancelPasswordChange,
           ChangeExpires, LimitExpires, CodeExpires, accountsVars

LEMMA NothingYetStep ==
  ASSUME AccountsTypeOK, NothingYet, LinksKnown, [AccountsNext]_accountsVars
  PROVE  NothingYet'
  <1> SUFFICES ASSUME user' = NoUser  PROVE NothingYet'
    BY DEF NothingYet
  <1>1. user = NoUser
    BY AccountsAssumption, RowTypeStep DEF AccountsTypeOK
  <1>2. /\ meant = NewRow /\ overrun = {} /\ ~ token /\ changes = {}
        /\ \A c \in Codes : codes[c] = NoPhone
        /\ \A k \in Calls : call[k].pc \in {"idle", "create"}
    BY <1>1 DEF NothingYet
  <1>3. call \in [Calls -> CallStates]
    BY DEF AccountsTypeOK
  <1>4. ASSUME NEW k \in Calls, SignUp(k)  PROVE NothingYet'
    <2>1. Start(k, "create", NewRow, NoPhone, 0)
      BY <1>4 DEF SignUp
    <2>2. \A l \in Calls : call'[l].pc \in {"idle", "create"}
      BY <1>2, <1>3, <2>1, StartShape, NewRowType, AccountsAssumption DEF Places
    <2>3. QED  BY <1>2, <1>4, <2>2 DEF SignUp, NothingYet
  <1>5. ASSUME NEW k \in Calls, Finish(k), UNCHANGED <<token, changes, codes, meant, overrun>>
        PROVE  NothingYet'
    BY <1>2, <1>3, <1>5, FinishShape DEF NothingYet
  <1>6. ASSUME NEW k \in Calls, CallStep(k)  PROVE NothingYet'
    <2>1. ~ CreateUser(k)
      BY <1>1, NewRowType, AccountsAssumption DEF CreateUser
    <2>2. CASE Stop(k)
      BY <1>5, <2>2 DEF Stop
    <2>3. QED
      BY <1>1, <1>2, <1>4, <1>6, <2>1, <2>2
         DEF CallStep, At, StartEmailVerification, SendVerificationEmail, EditRead, UpdateUser,
             ConfirmPasswordChange, UpdatePassword, ApplyPasswordChange, CheckLimit,
             DeleteCodes, InsertCode, SendCode, RecordAttempt, RecordFirst, EnterCode,
             MarkVerified, WritePhone
  <1>7. CASE LimitExpires
    BY <1>2, <1>7 DEF LimitExpires, NothingYet
  <1>8. CASE UNCHANGED accountsVars
    BY <1>2, <1>8 DEF accountsVars, NothingYet
  <1>9. QED
    BY <1>1, <1>2, <1>6, <1>7, <1>8
       DEF AccountsNext, VerifyEmail, TokenExpires, SaveSMS, ChangePassword, StartPasswordChange,
           CancelPasswordChange, ChangeExpires, CodeExpires

(* The links of password changes.                                          *)
LEMMA LinksTypeStep ==
  ASSUME AccountsTypeOK, LinksKnown, [AccountsNext]_accountsVars
  PROVE  /\ changes' \subseteq Changes
         /\ links' \in [followed : SUBSET Changes, applied : SUBSET Changes,
                        withdrawn : SUBSET Changes, overtaken : SUBSET Changes]
  <1> DEFINE Good == /\ changes' \subseteq Changes
                     /\ links' \in [followed : SUBSET Changes, applied : SUBSET Changes,
                                    withdrawn : SUBSET Changes, overtaken : SUBSET Changes]
  <1> USE DEF AccountsTypeOK
  <1>1. CASE UNCHANGED <<changes, links>>
    BY <1>1
  <1>2. CASE ChangePassword
    <2>1. {call[k].number : k \in {k \in Calls : At(k, "apply")}} \subseteq Changes
      BY DEF LinksKnown, At
    <2>2. asked.changes + 1 \in Changes
      BY <1>2, AccountsAssumption DEF ChangePassword, StartPasswordChange, Changes
    <2>3. QED  BY <1>2, <2>1, <2>2 DEF ChangePassword, StartPasswordChange
  <1>3. ASSUME NEW k \in Calls, NEW c \in Changes, ConfirmPasswordChange(k, c)  PROVE Good
    BY <1>3 DEF ConfirmPasswordChange
  <1>4. ASSUME NEW k \in Calls, UpdatePassword(k)  PROVE Good
    BY <1>4 DEF UpdatePassword, LinksKnown, At
  <1>5. ASSUME NEW c \in Changes, CancelPasswordChange(c)  PROVE Good
    BY <1>5 DEF CancelPasswordChange, MarkUsed
  <1>6. ASSUME NEW k \in Calls, ApplyPasswordChange(k)  PROVE Good
    BY <1>6 DEF ApplyPasswordChange, MarkUsed
  <1>7. ASSUME NEW k \in Calls, CallStep(k)  PROVE Good
    BY <1>1, <1>3, <1>4, <1>6, <1>7
       DEF CallStep, SignUp, CreateUser, StartEmailVerification, SendVerificationEmail, EditRead, UpdateUser,
           CheckLimit, DeleteCodes, InsertCode, SendCode, RecordAttempt, RecordFirst,
           EnterCode, MarkVerified, WritePhone, Stop
  <1>8. QED
    BY <1>1, <1>2, <1>5, <1>7
       DEF AccountsNext, VerifyEmail, TokenExpires, SaveSMS, ChangeExpires,
           LimitExpires, CodeExpires, accountsVars

LEMMA KeepsPlace ==
  ASSUME AccountsTypeOK, [AccountsNext]_accountsVars,
         NEW l \in Calls, call'[l].pc \in {"apply", "edit"}, call'[l] # call[l]
  PROVE  \/ \E c \in Changes : ConfirmPasswordChange(l, c)
         \/ \E p \in Phones \cup {NoPhone} : EditRead(l, p)
  <1>1. call \in [Calls -> CallStates] /\ NewRow \in Row
    BY NewRowType DEF AccountsTypeOK
  <1>2. ASSUME NEW k \in Calls, NEW pc \in Places \ {"apply", "edit"}, Goto(k, pc)
        PROVE  FALSE
    BY <1>1, <1>2, GotoShape
  <1>3. ASSUME NEW k \in Calls, Finish(k)  PROVE FALSE
    BY <1>1, <1>3, FinishShape
  <1>4. ASSUME NEW k \in Calls, NEW pc \in Places \ {"apply", "edit"},
               NEW read, NEW phone, NEW n, Start(k, pc, read, phone, n)
        PROVE  FALSE
    BY <1>1, <1>4 DEF Start
  <1>5. ASSUME NEW k \in Calls \ {l}, NEW pc, NEW read, NEW phone, NEW n,
               Start(k, pc, read, phone, n)
        PROVE  FALSE
    BY <1>1, <1>5 DEF Start
  <1>6. call' # call
    OBVIOUS
  <1>7. PICK k \in Calls : CallStep(k)
    BY <1>6 DEF AccountsNext, accountsVars, VerifyEmail, TokenExpires, SaveSMS,
                ChangePassword, StartPasswordChange, CancelPasswordChange, ChangeExpires,
                LimitExpires, CodeExpires
  <1>8. CASE k = l
    BY <1>2, <1>3, <1>4, <1>6, <1>7, <1>8
       DEF CallStep, SignUp, CreateUser, StartEmailVerification, SendVerificationEmail, UpdateUser,
           UpdatePassword, ApplyPasswordChange, CheckLimit, DeleteCodes, InsertCode,
           SendCode, RecordAttempt, RecordFirst, EnterCode, MarkVerified, WritePhone,
           Stop, Places
  <1>9. CASE k # l
    BY <1>2, <1>3, <1>5, <1>6, <1>7, <1>9
       DEF CallStep, SignUp, CreateUser, StartEmailVerification, SendVerificationEmail, EditRead, UpdateUser,
           ConfirmPasswordChange, UpdatePassword, ApplyPasswordChange, CheckLimit,
           DeleteCodes, InsertCode, SendCode, RecordAttempt, RecordFirst, EnterCode,
           MarkVerified, WritePhone, Stop, Places
  <1>10. QED  BY <1>8, <1>9

LEMMA LinksGrow ==
  ASSUME AccountsTypeOK, LinksKnown, [AccountsNext]_accountsVars
  PROVE  /\ links.followed \subseteq links'.followed
         /\ links.overtaken \subseteq links'.overtaken
         /\ asked'.changes = asked.changes \/ ChangePassword
  <1> USE DEF AccountsTypeOK
  <1>1. CASE UNCHANGED <<links, asked>>
    BY <1>1
  <1>2. CASE ChangePassword
    BY <1>2 DEF ChangePassword, StartPasswordChange
  <1>3. ASSUME NEW c \in Changes, CancelPasswordChange(c)
        PROVE  links.followed \subseteq links'.followed /\ links.overtaken \subseteq links'.overtaken
    BY <1>3 DEF CancelPasswordChange
  <1>4. ASSUME NEW k \in Calls, CallStep(k)
        PROVE  /\ links.followed \subseteq links'.followed
               /\ links.overtaken \subseteq links'.overtaken
               /\ asked'.changes = asked.changes
    BY <1>1, <1>4
       DEF CallStep, SignUp, CreateUser, StartEmailVerification, SendVerificationEmail, EditRead, UpdateUser,
           ConfirmPasswordChange, UpdatePassword, ApplyPasswordChange, CheckLimit,
           DeleteCodes, InsertCode, SendCode, RecordAttempt, RecordFirst, EnterCode,
           MarkVerified, WritePhone, Stop
  <1>5. QED
    BY <1>1, <1>2, <1>3, <1>4
       DEF AccountsNext, accountsVars, VerifyEmail, TokenExpires, SaveSMS,
           CancelPasswordChange, ChangeExpires, LimitExpires, CodeExpires

(* A call about to write a password has followed its link.                 *)
LEMMA ApplyingStep ==
  ASSUME AccountsTypeOK, LinksKnown, [AccountsNext]_accountsVars,
         NEW l \in Calls, call'[l].pc = "apply"
  PROVE  /\ call'[l].number \in links'.followed
         /\ call'[l].number # asked'.changes => call'[l].number \in links'.overtaken
  <1>1. CASE call'[l] = call[l]
    <2>1. CASE ChangePassword
      <3>1. call[l].number \in links'.overtaken
        BY <1>1, <2>1 DEF ChangePassword, StartPasswordChange, At, AccountsTypeOK
      <3>2. QED  BY <1>1, <3>1, LinksGrow DEF LinksKnown
    <2>2. CASE asked'.changes = asked.changes
      BY <1>1, <2>2, LinksGrow DEF LinksKnown
    <2>3. QED  BY <2>1, <2>2, LinksGrow
  <1>2. CASE call'[l] # call[l]
    <2>1. ASSUME NEW p \in Phones \cup {NoPhone}, EditRead(l, p)  PROVE FALSE
      BY <2>1 DEF EditRead, Start, AccountsTypeOK
    <2>2. PICK c \in Changes : ConfirmPasswordChange(l, c)
      BY <1>2, <2>1, KeepsPlace
    <2>3. /\ c \in links'.followed /\ c = asked'.changes
      BY <2>2 DEF ConfirmPasswordChange, LinksKnown, AccountsTypeOK
    <2>4. call'[l].number = c
      BY <2>2 DEF ConfirmPasswordChange, Start, AccountsTypeOK
    <2>5. QED  BY <2>3, <2>4
  <1>3. QED  BY <1>1, <1>2

LEMMA LinksKnownStep ==
  ASSUME AccountsTypeOK, NothingYet, LinksKnown, [AccountsNext]_accountsVars
  PROVE  LinksKnown'
  <1> DEFINE Kept == links' = links /\ changes' = changes /\ asked'.changes = asked.changes
                     /\ meant'.password = meant.password
  <1>1. \A k \in Calls : call'[k].pc = "apply" =>
          /\ call'[k].number \in links'.followed
          /\ call'[k].number # asked'.changes => call'[k].number \in links'.overtaken
    BY ApplyingStep
  <1>2. CASE Kept
    BY <1>1, <1>2 DEF LinksKnown
  <1>3. CASE ChangePassword
    <2>1. /\ changes' = {asked.changes + 1} /\ asked'.changes = asked.changes + 1
          /\ links'.withdrawn = links.withdrawn \cup (changes \ links.followed)
          /\ links'.followed = links.followed /\ links'.applied = links.applied
          /\ links.overtaken \subseteq links'.overtaken /\ meant' = meant
          /\ asked.changes \in Nat
      BY <1>3 DEF ChangePassword, StartPasswordChange, AccountsTypeOK
    <2>2. links.withdrawn \subseteq Changes /\ links.followed \subseteq Changes /\ changes \subseteq Changes
      BY DEF AccountsTypeOK
    <2>3. \A c \in links.withdrawn \cup links.followed \cup changes : c \in Nat /\ c <= asked.changes
      <3>1. \A c \in Changes : c \in Nat
        BY AccountsAssumption DEF Changes
      <3>2. \A c \in changes : c <= asked.changes
        BY <2>1 DEF LinksKnown
      <3>3. \A c \in links.withdrawn \cup links.followed : c <= asked.changes
        BY DEF LinksKnown
      <3>4. QED  BY <2>2, <3>1, <3>2, <3>3
    <2>4. \A c \in links'.withdrawn \cup links'.followed : c <= asked'.changes
      BY <2>1, <2>3
    <2>5. changes' \cap links'.withdrawn = {}
      BY <2>1, <2>3
    <2>6. links'.followed \cap links'.withdrawn = {} /\ \A c \in changes' : c = asked'.changes
      BY <2>1 DEF LinksKnown
    <2>7. QED  BY <1>1, <2>1, <2>4, <2>5, <2>6 DEF LinksKnown
  <1>4. ASSUME NEW k \in Calls, NEW c \in Changes, ConfirmPasswordChange(k, c)
        PROVE  LinksKnown'
    <2>1. /\ links' = [links EXCEPT !.followed = @ \cup {c}] /\ c \in changes
          /\ UNCHANGED <<changes, asked, meant>>
      BY <1>4 DEF ConfirmPasswordChange
    <2>2. QED  BY <1>1, <2>1 DEF LinksKnown, AccountsTypeOK
  <1>5. ASSUME NEW k \in Calls, UpdatePassword(k)  PROVE LinksKnown'
    <2> DEFINE n == call[k].number
    <2>1. /\ links' = [links EXCEPT !.applied = @ \cup {n}]
          /\ UNCHANGED <<changes, asked>>
          /\ call[k].pc = "apply"
      BY <1>5 DEF UpdatePassword, At
    <2>2. meant'.password = n
      BY <1>5 DEF UpdatePassword, Write, AccountsTypeOK, Row
    <2>3. n \in links.followed /\ (n # asked.changes => n \in links.overtaken)
      BY <2>1 DEF LinksKnown
    <2>4. \A c \in links.applied : c > n => n \in links.overtaken
      BY <2>3, AccountsAssumption DEF LinksKnown, AccountsTypeOK, Changes
    <2>5. /\ links'.applied = links.applied \cup {n} /\ links'.followed = links.followed
          /\ links'.overtaken = links.overtaken /\ links'.withdrawn = links.withdrawn
      BY <2>1 DEF AccountsTypeOK
    <2>6. n \in Nat
      BY <2>3 DEF AccountsTypeOK, Changes
    <2>7. QED  BY <1>1, <2>1, <2>2, <2>3, <2>4, <2>5, <2>6 DEF LinksKnown
  <1>6. ASSUME NEW c \in Changes, CancelPasswordChange(c)  PROVE LinksKnown'
    <2>1. /\ changes' = changes \ {c} /\ c \in changes
          /\ links' = [links EXCEPT !.withdrawn = @ \cup ({c} \ links.followed)]
          /\ UNCHANGED <<asked, meant>>
      BY <1>6 DEF CancelPasswordChange, MarkUsed
    <2>2. links.followed \subseteq Changes /\ asked.changes \in Nat
      BY DEF AccountsTypeOK
    <2>3. /\ links'.withdrawn = links.withdrawn \cup ({c} \ links.followed)
          /\ links'.followed = links.followed /\ links'.overtaken = links.overtaken
          /\ links'.applied = links.applied
      BY <2>1 DEF AccountsTypeOK
    <2>4. QED  BY <1>1, <2>1, <2>2, <2>3 DEF LinksKnown, Changes
  <1>7. ASSUME NEW k \in Calls, ApplyPasswordChange(k)  PROVE LinksKnown'
    <2>1. changes' \subseteq changes /\ UNCHANGED <<asked, meant, links>>
      BY <1>7 DEF ApplyPasswordChange, MarkUsed
    <2>2. QED  BY <1>1, <2>1 DEF LinksKnown
  <1>8. CASE VerifyEmail
    BY <1>2, <1>8 DEF VerifyEmail, Write, AccountsTypeOK, Row
  <1>9. ASSUME NEW p \in Phones, SaveSMS(p)  PROVE LinksKnown'
    BY <1>2, <1>9 DEF SaveSMS, Write, AccountsTypeOK, Row
  <1>10. ASSUME NEW k \in Calls, UpdateUser(k) \/ WritePhone(k)  PROVE LinksKnown'
    BY <1>2, <1>10 DEF UpdateUser, WritePhone, Write, AccountsTypeOK, Row
  <1>11. ASSUME NEW k \in Calls, CheckLimit(k) \/ Stop(k)  PROVE LinksKnown'
    BY <1>2, <1>11 DEF CheckLimit, Stop, AccountsTypeOK
  <1>12. ASSUME NEW k \in Calls, CallStep(k)  PROVE LinksKnown'
    BY <1>2, <1>4, <1>5, <1>7, <1>10, <1>11, <1>12
       DEF CallStep, SignUp, CreateUser, StartEmailVerification, SendVerificationEmail, EditRead,
           DeleteCodes, InsertCode, SendCode, RecordAttempt, RecordFirst, EnterCode,
           MarkVerified
  <1>13. QED
    BY <1>2, <1>3, <1>6, <1>8, <1>9, <1>12
       DEF AccountsNext, TokenExpires, ChangeExpires, LimitExpires, CodeExpires, accountsVars

(* What profile forms have read.                                           *)
LEMMA EditingStep ==
  ASSUME AccountsTypeOK, [AccountsNext]_accountsVars,
         NEW l \in Calls, call'[l].pc = "edit"
  PROVE  \/ call[l].pc = "edit" /\ call'[l].read = call[l].read
         \/ /\ user # NoUser /\ call'[l].read = user
            /\ UNCHANGED <<user, meant, overrun>>
  <1>1. CASE call'[l] = call[l]
    BY <1>1
  <1>2. ASSUME NEW c \in Changes, ConfirmPasswordChange(l, c)  PROVE FALSE
    BY <1>2 DEF ConfirmPasswordChange, Start, AccountsTypeOK
  <1>3. ASSUME NEW p \in Phones \cup {NoPhone}, EditRead(l, p)
        PROVE  /\ user # NoUser /\ call'[l].read = user
               /\ UNCHANGED <<user, meant, overrun>>
    BY <1>3 DEF EditRead, Start, AccountsTypeOK
  <1>4. QED  BY <1>1, <1>2, <1>3, KeepsPlace

LEMMA MeantStep ==
  ASSUME AccountsTypeOK, [AccountsNext]_accountsVars
  PROVE  /\ meant.emailVerified => meant'.emailVerified
         /\ meant.phoneVerified => meant'.phoneVerified
         /\ Editing => /\ overrun \subseteq overrun'
                       /\ "password" \notin overrun' => meant'.password = meant.password
                       /\ "active" \notin overrun' => meant'.active = meant.active
  <1> DEFINE Good == /\ meant.emailVerified => meant'.emailVerified
                     /\ meant.phoneVerified => meant'.phoneVerified
                     /\ Editing => /\ overrun \subseteq overrun'
                                   /\ "password" \notin overrun' => meant'.password = meant.password
                                   /\ "active" \notin overrun' => meant'.active = meant.active
  <1> USE DEF AccountsTypeOK, Row
  <1>1. CASE UNCHANGED <<meant, overrun>>
    BY <1>1
  <1>2. CASE VerifyEmail
    BY <1>2 DEF VerifyEmail, Write
  <1>3. ASSUME NEW p \in Phones, SaveSMS(p)  PROVE Good
    BY <1>3 DEF SaveSMS, Write
  <1>4. ASSUME NEW k \in Calls, UpdatePassword(k)  PROVE Good
    BY <1>4 DEF UpdatePassword, Write
  <1>5. ASSUME NEW k \in Calls, WritePhone(k)  PROVE Good
    BY <1>5 DEF WritePhone, Write
  <1>6. ASSUME NEW k \in Calls, UpdateUser(k)  PROVE Good
    BY <1>6 DEF UpdateUser
  <1>7. ASSUME NEW k \in Calls, CallStep(k)  PROVE Good
    BY <1>1, <1>4, <1>5, <1>6, <1>7
       DEF CallStep, SignUp, CreateUser, StartEmailVerification, SendVerificationEmail, EditRead,
           ConfirmPasswordChange, ApplyPasswordChange, CheckLimit, DeleteCodes,
           InsertCode, SendCode, RecordAttempt, RecordFirst, EnterCode, MarkVerified, Stop
  <1>8. QED
    BY <1>1, <1>2, <1>3, <1>7
       DEF AccountsNext, TokenExpires, ChangePassword, StartPasswordChange, CancelPasswordChange,
           ChangeExpires, LimitExpires, CodeExpires, accountsVars

(* The row in users.                                                       *)
UserKnown ==
  user # NoUser => /\ SameBut(user)
                   /\ user.emailVerified = meant.emailVerified
                   /\ user.phoneVerified = meant.phoneVerified
                   /\ user.phone = meant.phone

LEMMA UserKnownStep ==
  ASSUME AccountsTypeOK, NothingYet, LinksKnown, RowsKnown, [AccountsNext]_accountsVars
  PROVE  UserKnown'
  <1>1. UserKnown /\ links.followed \subseteq links'.followed
    BY LinksGrow DEF RowsKnown, UserKnown
  <1>2. user # NoUser => user \in Row
    BY DEF AccountsTypeOK
  <1>3. meant \in Row
    BY DEF AccountsTypeOK
  <1>4. CASE UNCHANGED <<user, meant, overrun>>
    BY <1>1, <1>4 DEF UserKnown, SameBut
  <1>5. CASE VerifyEmail
    <2>1. user # NoUser
      BY <1>5 DEF VerifyEmail, NothingYet
    <2>2. QED  BY <1>1, <1>2, <1>3, <1>5, <2>1 DEF VerifyEmail, Write, UserKnown, SameBut, Row
  <1>6. ASSUME NEW p \in Phones, SaveSMS(p)  PROVE UserKnown'
    BY <1>1, <1>2, <1>3, <1>6 DEF SaveSMS, Write, UserKnown, SameBut, Row
  <1>7. ASSUME NEW k \in Calls, UpdatePassword(k)  PROVE UserKnown'
    <2>1. user # NoUser /\ call[k].number \in links.followed
      BY <1>7 DEF UpdatePassword, At, NothingYet, LinksKnown
    <2>2. QED  BY <1>1, <1>2, <1>3, <1>7, <2>1 DEF UpdatePassword, Write, UserKnown, SameBut, Row
  <1>8. ASSUME NEW k \in Calls, WritePhone(k)  PROVE UserKnown'
    <2>1. user # NoUser
      BY <1>8 DEF WritePhone, At, NothingYet
    <2>2. QED  BY <1>1, <1>2, <1>3, <1>8, <2>1 DEF WritePhone, Write, UserKnown, SameBut, Row
  <1>9. ASSUME NEW k \in Calls, UpdateUser(k)  PROVE UserKnown'
    <2> DEFINE read == call[k].read
    <2>1. /\ user # NoUser /\ SameBut(read) /\ read \in Row
          /\ read.emailVerified => meant.emailVerified
          /\ read.phoneVerified => meant.phoneVerified
      BY <1>9 DEF UpdateUser, At, NothingYet, RowsKnown, AccountsTypeOK, CallStates
    <2>2. PICK p \in Phones \cup {NoPhone} :
             /\ user' = [WrittenBack(read) EXCEPT !.phone = p]
             /\ meant' = [meant EXCEPT !.phone = p]
             /\ overrun' = overrun
      <3>1. user.phone \in Phones \cup {NoPhone} /\ call[k].phone \in Phones \cup {NoPhone}
        BY <1>2, <2>1 DEF AccountsTypeOK, CallStates, Row
      <3>2. QED  BY <1>9, <3>1 DEF UpdateUser
    <2>3. /\ user'.password = read.password /\ user'.active = read.active
          /\ user'.emailVerified = (user.emailVerified \/ read.emailVerified)
          /\ user'.phoneVerified = (user.phoneVerified \/ read.phoneVerified)
          /\ user'.phone = p
      <3>1. WrittenBack(read) \in Row
        BY <1>2, <2>1, WrittenBackType
      <3>2. QED  BY <1>2, <2>1, <2>2, <3>1, WrittenBackType DEF Row
    <2>4. /\ meant'.password = meant.password /\ meant'.active = meant.active
          /\ meant'.emailVerified = meant.emailVerified
          /\ meant'.phoneVerified = meant.phoneVerified /\ meant'.phone = p
      BY <1>3, <2>2 DEF Row
    <2>5. SameBut(user)'
      BY <1>1, <2>1, <2>2, <2>3, <2>4 DEF SameBut
    <2>6. /\ (user.emailVerified \/ read.emailVerified) = meant.emailVerified
          /\ (user.phoneVerified \/ read.phoneVerified) = meant.phoneVerified
      BY <1>1, <1>2, <1>3, <2>1 DEF UserKnown, Row
    <2>7. QED  BY <2>3, <2>4, <2>5, <2>6 DEF UserKnown
  <1>10. ASSUME NEW k \in Calls, CreateUser(k)  PROVE UserKnown'
    <2>1. CASE user = NoUser
      <3>1. user' = NewRow /\ meant' = NewRow
        BY <1>10, <2>1 DEF CreateUser, NothingYet
      <3>2. NewRow.password = 0
        BY DEF NewRow
      <3>3. QED  BY <3>1, <3>2 DEF UserKnown, SameBut
    <2>2. QED  BY <1>4, <1>10, <2>1 DEF CreateUser
  <1>11. ASSUME NEW k \in Calls, CallStep(k)  PROVE UserKnown'
    BY <1>4, <1>7, <1>8, <1>9, <1>10, <1>11
       DEF CallStep, SignUp, StartEmailVerification, SendVerificationEmail, EditRead, ConfirmPasswordChange,
           ApplyPasswordChange, CheckLimit, DeleteCodes, InsertCode, SendCode,
           RecordAttempt, RecordFirst, EnterCode, MarkVerified, Stop
  <1>12. QED
    BY <1>4, <1>5, <1>6, <1>11
       DEF AccountsNext, TokenExpires, ChangePassword, StartPasswordChange, CancelPasswordChange,
           ChangeExpires, LimitExpires, CodeExpires, accountsVars

LEMMA RowsKnownStep ==
  ASSUME AccountsTypeOK, NothingYet, LinksKnown, RowsKnown, [AccountsNext]_accountsVars
  PROVE  RowsKnown'
  <1> USE LinksGrow
  <1>1. ASSUME NEW l \in Calls, call'[l].pc = "edit"
        PROVE  /\ SameBut(call[l].read)'
               /\ call'[l].read.emailVerified => meant'.emailVerified
               /\ call'[l].read.phoneVerified => meant'.phoneVerified
    <2>1. CASE call[l].pc = "edit" /\ call'[l].read = call[l].read
      <3>1. Editing
        BY <2>1 DEF Editing, At
      <3>2. QED  BY <2>1, <3>1, MeantStep DEF RowsKnown, SameBut
    <2>2. CASE /\ user # NoUser /\ call'[l].read = user
               /\ UNCHANGED <<user, meant, overrun>>
      BY <2>2 DEF RowsKnown, SameBut
    <2>3. QED  BY <1>1, <2>1, <2>2, EditingStep
  <1>2. QED  BY <1>1, UserKnownStep DEF RowsKnown, UserKnown

(* The calls that send codes, and the codes that count against the limit.  *)
LEMMA SpentFinite ==
  ASSUME AccountsTypeOK
  PROVE  /\ IsFiniteSet(Spent) /\ Cardinality(Spent) \in Nat
         /\ IsFiniteSet(Sending) /\ Cardinality(Sending) \in Nat
  <1>1. IsFiniteSet(Codes)
    BY FS_Interval, AccountsAssumption DEF Codes
  <1>2. Spent \subseteq Codes
    BY DEF Spent, AccountsTypeOK
  <1>3. QED
    BY <1>1, <1>2, FS_Subset, FS_CardinalityType, AccountsAssumption DEF Sending

SendsInv == NumbersKnown /\ Counts /\ SpentCounted

SendsSame ==
  /\ Sending' = Sending
  /\ \A k \in Sending : call'[k].number = call[k].number

LEMMA SameSends ==
  ASSUME SendsSame, window' = window
  PROVE  Spent' = Spent /\ Alone' = Alone
  BY DEF SendsSame, Spent, Alone

(* Nothing that the limit depends on changes.                              *)
LEMMA QuietStep ==
  ASSUME SendsInv, SendsSame, limit' = limit, window' = window,
         asked'.codes = asked.codes,
         \A k \in Sending : call'[k].pc = "first" => call[k].pc = "first"
  PROVE  SendsInv'
  <1>1. Spent' = Spent /\ Alone' = Alone /\ Alone \subseteq Sending
    BY SameSends DEF Alone
  <1>2. NumbersKnown'
    BY <1>1 DEF SendsInv, NumbersKnown, SendsSame
  <1>3. Counts'
    BY DEF SendsInv, Counts, SendsSame
  <1>4. SpentCounted'
    BY <1>1 DEF SendsInv, SpentCounted
  <1>5. QED  BY <1>2, <1>3, <1>4 DEF SendsInv

LEMMA ElsewhereSame ==
  ASSUME AccountsTypeOK, NEW k \in Calls,
         \/ k \notin Sending /\ Finish(k)
         \/ \E pc \in Places \ SendingPlaces : k \notin Sending /\ Goto(k, pc)
         \/ \E pc \in Places \ SendingPlaces : \E read, phone, n : Start(k, pc, read, phone, n)
         \/ \E pc \in SendingPlaces \ {"first"} : k \in Sending /\ Goto(k, pc)
         \/ UNCHANGED call
  PROVE  /\ SendsSame
         /\ \A l \in Sending : call'[l].pc = "first" => call[l].pc = "first"
  <1>1. call \in [Calls -> CallStates] /\ SendingPlaces \subseteq Places
    BY DEF AccountsTypeOK, SendingPlaces, Places
  <1>2. CASE k \notin Sending /\ Finish(k)
    BY <1>1, <1>2, FinishShape DEF SendsSame, Sending, SendingPlaces
  <1>3. ASSUME NEW pc \in Places \ SendingPlaces, k \notin Sending, Goto(k, pc)
        PROVE  /\ SendsSame
               /\ \A l \in Sending : call'[l].pc = "first" => call[l].pc = "first"
    BY <1>1, <1>3, GotoShape DEF SendsSame, Sending
  <1>4. ASSUME NEW pc \in Places \ SendingPlaces, NEW read, NEW phone, NEW n,
               Start(k, pc, read, phone, n)
        PROVE  /\ SendsSame
               /\ \A l \in Sending : call'[l].pc = "first" => call[l].pc = "first"
    BY <1>1, <1>4 DEF Start, At, SendsSame, Sending, SendingPlaces
  <1>5. ASSUME NEW pc \in SendingPlaces \ {"first"}, k \in Sending, Goto(k, pc)
        PROVE  /\ SendsSame
               /\ \A l \in Sending : call'[l].pc = "first" => call[l].pc = "first"
    <2>1. pc \in Places
      BY <1>1
    <2>2. QED  BY <1>1, <1>5, <2>1, GotoShape DEF SendsSame, Sending
  <1>6. CASE UNCHANGED call
    BY <1>6 DEF SendsSame, Sending
  <1>7. QED  BY <1>2, <1>3, <1>4, <1>5, <1>6

LEMMA CheckLimitStep ==
  ASSUME AccountsTypeOK, SendsInv, NEW k \in Calls, CheckLimit(k)
  PROVE  SendsInv'
  <1> DEFINE n == asked.codes + 1
  <1>1. /\ asked'.codes = n /\ asked.codes \in Nat
        /\ limit' = limit /\ ~ RateLimited
        /\ Start(k, "delete", NewRow, user.phone, n)
        /\ window'.sent = window.sent
        /\ window'.extra = IF Sending = {} THEN window.extra ELSE window.extra \cup {n}
    BY DEF CheckLimit, AccountsTypeOK
  <1>2. /\ k \notin Sending /\ Sending' = Sending \cup {k}
        /\ call'[k].number = n /\ call'[k].pc = "delete"
        /\ \A l \in Sending : call'[l] = call[l]
    BY <1>1 DEF Start, At, Sending, SendingPlaces, AccountsTypeOK
  <1>3. /\ \A l \in Sending : call[l].number \in 1 .. asked.codes
        /\ \A m \in window.sent \cup window.extra : m \in Nat /\ m <= asked.codes
    <2>1. \A m \in window.sent \cup window.extra : m \in Nat
      BY AccountsAssumption DEF AccountsTypeOK, Codes
    <2>2. QED  BY <2>1 DEF SendsInv, NumbersKnown
  <1>4. n \notin window.sent \cup window.extra
    BY <1>1, <1>3
  <1>5. Spent' = Spent
    <2>1. {call'[l].number : l \in Sending'} = {call[l].number : l \in Sending} \cup {n}
      BY <1>2
    <2>2. window'.sent \ window'.extra = window.sent \ window.extra
      BY <1>1, <1>4
    <2>3. QED  BY <1>4, <2>1, <2>2 DEF Spent
  <1>6. Alone' = IF Sending = {} THEN {k} ELSE Alone
    BY <1>1, <1>2, <1>3, <1>4 DEF Alone
  <1>7. NumbersKnown'
    <2>1. \A l, m \in Sending' : call'[l].number = call'[m].number => l = m
      BY <1>1, <1>2, <1>3 DEF SendsInv, NumbersKnown
    <2>2. \A l \in Sending' : call'[l].number \in 1 .. asked'.codes
      BY <1>1, <1>2, <1>3
    <2>3. \A m \in window'.sent \cup window'.extra : m <= asked'.codes
      BY <1>1, <1>3
    <2>4. \A l, m \in Alone' : l = m
      BY <1>6 DEF SendsInv, NumbersKnown
    <2>5. QED  BY <2>1, <2>2, <2>3, <2>4 DEF NumbersKnown
  <1>8. Counts'
    <2>1. Cardinality(Sending') = Cardinality(Sending) + 1
      BY <1>2, SpentFinite, FS_AddElement
    <2>2. limit.count \in Nat
      BY DEF AccountsTypeOK
    <2>3. QED  BY <1>1, <2>1, <2>2, SpentFinite DEF SendsInv, Counts, Sending
  <1>9. SpentCounted'
    <2>1. limit.count \in Nat /\ SendLimit \in Nat \ {0} /\ limit.expired \in BOOLEAN
      BY AccountsAssumption DEF AccountsTypeOK
    <2>2. Cardinality(Spent) < SendLimit \/ Alone # {} \/ Sending # {}
      BY <1>1, <2>1, SpentFinite, FS_EmptySet DEF SendsInv, SpentCounted, RateLimited
    <2>3. Alone' # {} => Cardinality(Spent) < SendLimit
      BY <1>6, <2>2 DEF SendsInv, SpentCounted, Alone
    <2>4. \A l \in Alone' : call'[l].pc = "first" => Spent = {} /\ ~ limit.expired
      BY <1>2, <1>6 DEF SendsInv, SpentCounted, Alone
    <2>5. QED  BY <1>1, <1>5, <2>3, <2>4 DEF SendsInv, SpentCounted
  <1>10. QED  BY <1>7, <1>8, <1>9 DEF SendsInv

LEMMA LeavesSending ==
  ASSUME AccountsTypeOK, NEW k \in Sending, Finish(k)
  PROVE  /\ Sending' = Sending \ {k}
         /\ \A l \in Sending' : call'[l] = call[l]
         /\ Cardinality(Sending') = Cardinality(Sending) - 1
  <1>1. k \in Calls /\ call \in [Calls -> CallStates]
    BY DEF Sending, AccountsTypeOK
  <1>2. Sending' = Sending \ {k} /\ \A l \in Sending' : call'[l] = call[l]
    BY <1>1, FinishShape DEF Sending, SendingPlaces
  <1>3. QED  BY <1>2, SpentFinite, FS_RemoveElement

(* A call that has counted its code is done.                               *)
LEMMA CountedStep ==
  ASSUME AccountsTypeOK, SendsInv, NEW k \in Sending, Finish(k),
         window' = window, asked'.codes = asked.codes, limit'.count \in Nat,
         limit.count <= limit'.count, limit'.count <= limit.count + 1,
         limit'.expired => limit.expired,
         k \in Alone => Cardinality(Spent) + 1 <= limit'.count /\ ~ limit'.expired
  PROVE  SendsInv'
  <1> DEFINE n == call[k].number
  <1>1. /\ Sending' = Sending \ {k} /\ \A l \in Sending' : call'[l] = call[l]
        /\ Cardinality(Sending') = Cardinality(Sending) - 1
    BY LeavesSending
  <1>2. Alone' = Alone \ {k}
    BY <1>1 DEF Alone
  <1>3. /\ limit.count \in Nat /\ asked.codes \in Nat /\ SendLimit \in Nat \ {0}
        /\ IsFiniteSet(Spent) /\ Cardinality(Spent) \in Nat /\ Cardinality(Sending) \in Nat
    BY SpentFinite, AccountsAssumption DEF AccountsTypeOK
  <1>4. NumbersKnown'
    BY <1>1, <1>2 DEF SendsInv, NumbersKnown
  <1>5. Counts'
    BY <1>1, <1>3 DEF SendsInv, Counts
  <1>6. CASE k \notin Alone
    <2>1. Alone' = Alone /\ n \in window.extra
      BY <1>2, <1>6 DEF Alone
    <2>2. Spent' = Spent
      BY <1>1, <2>1 DEF Spent
    <2>3. limit.expired => Cardinality(Spent) = 0
      BY FS_EmptySet DEF SendsInv, SpentCounted
    <2>4. SpentCounted'
      BY <1>1, <1>3, <2>1, <2>2, <2>3 DEF SendsInv, SpentCounted, Alone
    <2>5. QED  BY <1>4, <1>5, <2>4 DEF SendsInv
  <1>7. CASE k \in Alone
    <2>1. Alone' = {}
      BY <1>2, <1>7 DEF SendsInv, NumbersKnown
    <2>2. Spent' \subseteq Spent \cup {n}
      BY <1>1 DEF Spent
    <2>3. /\ IsFiniteSet(Spent \cup {n})
          /\ Cardinality(Spent \cup {n}) <= Cardinality(Spent) + 1
      <3> HIDE DEF n
      <3>1. /\ IsFiniteSet(Spent \cup {n})
            /\ Cardinality(Spent \cup {n}) = IF n \in Spent THEN Cardinality(Spent)
                                            ELSE Cardinality(Spent) + 1
        BY <1>3, FS_AddElement
      <3>2. QED  BY <1>3, <3>1
    <2>4. Cardinality(Spent \cup {n}) \in Nat
      BY <2>3, FS_CardinalityType
    <2>5. Cardinality(Spent') <= Cardinality(Spent \cup {n}) /\ Cardinality(Spent') \in Nat
      BY <2>2, <2>3, FS_Subset, FS_CardinalityType
    <2>6. Cardinality(Spent) < SendLimit
      BY <1>7 DEF SendsInv, SpentCounted
    <2>7. SpentCounted'
      BY <1>3, <1>7, <2>1, <2>3, <2>4, <2>5, <2>6 DEF SpentCounted
    <2>8. QED  BY <1>4, <1>5, <2>7 DEF SendsInv
  <1>8. QED  BY <1>6, <1>7

LEMMA RecordAttemptStep ==
  ASSUME AccountsTypeOK, SendsInv, NEW k \in Calls, RecordAttempt(k)
  PROVE  SendsInv'
  <1>1. /\ k \in Sending /\ window' = window /\ asked'.codes = asked.codes
        /\ limit.count \in Nat /\ limit.expired \in BOOLEAN
        /\ IsFiniteSet(Spent) /\ Cardinality(Spent) \in Nat
    BY SpentFinite DEF RecordAttempt, At, Sending, SendingPlaces, AccountsTypeOK
  <1>2. CASE limit.count > 0
    <2>1. Finish(k) /\ limit'.count = limit.count + 1 /\ ~ limit'.expired
      BY <1>2 DEF RecordAttempt, Counted
    <2>2. Cardinality(Spent) <= limit.count
      BY <1>1, FS_EmptySet DEF SendsInv, SpentCounted
    <2>3. QED  BY <1>1, <2>1, <2>2, CountedStep
  <1>3. CASE limit.count = 0
    <2>1. Goto(k, "first") /\ limit' = limit
      BY <1>3 DEF RecordAttempt
    <2>2. /\ call'[k].number = call[k].number
          /\ \A l \in Calls \ {k} : call'[l] = call[l]
          /\ call'[k].pc = "first"
      BY <2>1, GotoShape DEF AccountsTypeOK, Places
    <2>3. SendsSame
      BY <1>1, <2>2 DEF SendsSame, Sending, SendingPlaces
    <2>4. Spent' = Spent /\ Alone' = Alone
      BY <1>1, <2>3, SameSends
    <2>5. ~ limit.expired /\ Spent = {}
      BY <1>1, <1>3, FS_EmptySet DEF SendsInv, SpentCounted
    <2>6. NumbersKnown'
      BY <1>1, <2>3, <2>4 DEF SendsInv, NumbersKnown, SendsSame, Alone
    <2>7. Counts'
      BY <1>1, <2>1, <2>3 DEF SendsInv, Counts, SendsSame
    <2>8. SpentCounted'
      BY <2>1, <2>4, <2>5 DEF SendsInv, SpentCounted
    <2>9. QED  BY <2>6, <2>7, <2>8 DEF SendsInv
  <1>4. QED  BY <1>1, <1>2, <1>3

LEMMA RecordFirstStep ==
  ASSUME AccountsTypeOK, SendsInv, NEW k \in Calls, RecordFirst(k)
  PROVE  SendsInv'
  <1>1. /\ k \in Sending /\ window' = window /\ asked'.codes = asked.codes
        /\ limit.count \in Nat /\ Finish(k)
    BY DEF RecordFirst, At, Sending, SendingPlaces, AccountsTypeOK
  <1>2. /\ limit'.count = IF limit.count = 0 THEN 1 ELSE limit.count
        /\ limit'.expired => limit.expired
    BY <1>1 DEF RecordFirst, Counted
  <1>3. k \in Alone => Cardinality(Spent) = 0 /\ ~ limit.expired
    BY FS_EmptySet DEF RecordFirst, At, SendsInv, SpentCounted
  <1>4. QED  BY <1>1, <1>2, <1>3, CountedStep

LEMMA SendCodeStep ==
  ASSUME AccountsTypeOK, SendsInv, NEW k \in Calls, NEW taken \in BOOLEAN, SendCode(k, taken)
  PROVE  SendsInv'
  <1> DEFINE n == call[k].number
  <1>1. /\ k \in Sending /\ Goto(k, "record") /\ limit' = limit
        /\ asked'.codes = asked.codes /\ window'.extra = window.extra
        /\ window'.sent \in {window.sent, window.sent \cup {n}}
    BY DEF SendCode, At, Sending, SendingPlaces, AccountsTypeOK
  <1>2. /\ SendsSame
        /\ \A l \in Sending : call'[l].pc = "first" => call[l].pc = "first"
    <2>1. "record" \in SendingPlaces \ {"first"}
      BY DEF SendingPlaces
    <2>2. QED  BY <1>1, <2>1, ElsewhereSame
  <1>3. Spent' = Spent /\ Alone' = Alone /\ Alone \subseteq Sending
    BY <1>1, <1>2 DEF SendsSame, Spent, Alone
  <1>4. n \in 1 .. asked.codes
    BY <1>1 DEF SendsInv, NumbersKnown
  <1>5. NumbersKnown'
    BY <1>1, <1>2, <1>3, <1>4 DEF SendsInv, NumbersKnown, SendsSame
  <1>6. Counts'
    BY <1>1, <1>2 DEF SendsInv, Counts, SendsSame
  <1>7. SpentCounted'
    BY <1>1, <1>2, <1>3 DEF SendsInv, SpentCounted
  <1>8. QED  BY <1>5, <1>6, <1>7 DEF SendsInv

LEMMA StopStep ==
  ASSUME AccountsTypeOK, SendsInv, NEW k \in Calls, Stop(k)
  PROVE  SendsInv'
  <1> DEFINE n == call[k].number
  <1>1. /\ Finish(k) /\ limit' = limit /\ asked'.codes = asked.codes
        /\ window'.sent = window.sent
        /\ window'.extra = IF k \in Sending THEN window.extra \cup {n} ELSE window.extra
        /\ window \in [sent : SUBSET Codes, extra : SUBSET Codes]
        /\ window' = [window EXCEPT !.extra = window'.extra]
    BY DEF Stop, AccountsTypeOK
  <1>2. CASE k \notin Sending
    <2>1. window' = window
      BY <1>1, <1>2
    <2>2. QED  BY <1>1, <1>2, <2>1, ElsewhereSame, QuietStep
  <1>3. CASE k \in Sending
    <2>1. /\ Sending' = Sending \ {k} /\ \A l \in Sending' : call'[l] = call[l]
          /\ Cardinality(Sending') = Cardinality(Sending) - 1
      BY <1>1, <1>3, LeavesSending
    <2>2. Alone' = Alone \ {k}
      BY <1>1, <1>3, <2>1 DEF Alone, SendsInv, NumbersKnown
    <2>3. Spent' = Spent
      BY <1>1, <1>3, <2>1 DEF Spent
    <2>4. n \in 1 .. asked.codes
      BY <1>3 DEF SendsInv, NumbersKnown
    <2>5. NumbersKnown'
      BY <1>1, <1>3, <2>1, <2>2, <2>4 DEF SendsInv, NumbersKnown
    <2>6. Counts'
      BY <1>1, <2>1, SpentFinite DEF SendsInv, Counts, AccountsTypeOK
    <2>7. SpentCounted'
      BY <1>1, <2>1, <2>2, <2>3 DEF SendsInv, SpentCounted, Alone
    <2>8. QED  BY <2>5, <2>6, <2>7 DEF SendsInv
  <1>4. QED  BY <1>2, <1>3

LEMMA LimitExpiresStep ==
  ASSUME AccountsTypeOK, SendsInv, LimitExpires
  PROVE  SendsInv'
  <1>1. /\ UNCHANGED call /\ asked'.codes = asked.codes
        /\ limit'.count = limit.count /\ limit.count > 0 /\ limit'.expired
        /\ window'.sent = {}
        /\ window'.extra = window.extra \cup {call[k].number : k \in Sending}
    BY DEF LimitExpires, AccountsTypeOK
  <1>2. Sending' = Sending
    BY <1>1 DEF Sending
  <1>3. Spent' = {} /\ Alone' = {}
    BY <1>1, <1>2 DEF Spent, Alone
  <1>4. NumbersKnown'
    BY <1>1, <1>2, <1>3 DEF SendsInv, NumbersKnown
  <1>5. Counts'
    BY <1>1, <1>2 DEF SendsInv, Counts
  <1>6. SpentCounted'
    BY <1>1, <1>3, FS_EmptySet, AccountsAssumption DEF SpentCounted
  <1>7. QED  BY <1>4, <1>5, <1>6 DEF SendsInv

LEMMA SendsStep ==
  ASSUME AccountsTypeOK, SendsInv, [AccountsNext]_accountsVars
  PROVE  SendsInv'
  <1>1. ASSUME UNCHANGED <<limit, call, window>>, asked'.codes = asked.codes
        PROVE  SendsInv'
    BY <1>1, QuietStep DEF SendsSame, Sending
  <1>2. ASSUME NEW k \in Calls, UNCHANGED <<limit, window, asked>>,
               \/ k \notin Sending /\ Finish(k)
               \/ \E pc \in Places \ SendingPlaces : k \notin Sending /\ Goto(k, pc)
               \/ \E pc \in Places \ SendingPlaces : \E read, phone, n :
                     Start(k, pc, read, phone, n)
               \/ \E pc \in SendingPlaces \ {"first"} : k \in Sending /\ Goto(k, pc)
               \/ UNCHANGED call
        PROVE  SendsInv'
    BY <1>2, ElsewhereSame, QuietStep
  <1>3. /\ {"create", "mail", "edit", "apply", "mark", "verify", "phone"}
             \subseteq Places \ SendingPlaces
        /\ {"insert", "send"} \subseteq SendingPlaces \ {"first"}
        /\ \A k \in Calls : k \in Sending <=> call[k].pc \in SendingPlaces
        /\ "delete" \in SendingPlaces
    BY DEF Places, SendingPlaces, Sending
  <1>4. ASSUME NEW k \in Calls,
               \/ SignUp(k) \/ (\E p \in Phones \cup {NoPhone} : EditRead(k, p))
               \/ (\E c \in Changes : ConfirmPasswordChange(k, c))
               \/ (\E c \in Codes : EnterCode(k, c))
        PROVE  SendsInv'
    BY <1>2, <1>3, <1>4 DEF SignUp, EditRead, ConfirmPasswordChange, EnterCode
  <1>5. ASSUME NEW k \in Calls, CreateUser(k) \/ UpdateUser(k) \/ StartEmailVerification(k)
        PROVE  SendsInv'
    BY <1>2, <1>3, <1>5 DEF CreateUser, UpdateUser, StartEmailVerification, SendVerificationEmail, At, SendingPlaces
  <1>6. ASSUME NEW k \in Calls,
               UpdatePassword(k) \/ ApplyPasswordChange(k) \/ MarkVerified(k) \/ WritePhone(k)
        PROVE  SendsInv'
    BY <1>2, <1>3, <1>6
       DEF UpdatePassword, ApplyPasswordChange, MarkVerified, WritePhone, At, SendingPlaces
  <1>7. ASSUME NEW k \in Calls, DeleteCodes(k) \/ InsertCode(k)
        PROVE  SendsInv'
    BY <1>2, <1>3, <1>7 DEF DeleteCodes, InsertCode, At
  <1>8. ASSUME NEW k \in Calls, CallStep(k)  PROVE SendsInv'
    BY <1>4, <1>5, <1>6, <1>7, <1>8, CheckLimitStep, SendCodeStep, RecordAttemptStep,
       RecordFirstStep, StopStep DEF CallStep
  <1>9. CASE ChangePassword
    BY <1>1, <1>9 DEF ChangePassword, StartPasswordChange, AccountsTypeOK
  <1>10. QED
    BY <1>1, <1>8, <1>9, LimitExpiresStep
       DEF AccountsNext, VerifyEmail, TokenExpires, SaveSMS, CancelPasswordChange,
           ChangeExpires, CodeExpires, accountsVars

(* The rest of the types.                                                  *)
LEMMA CodesTypeStep ==
  ASSUME AccountsTypeOK, SendsInv, [AccountsNext]_accountsVars
  PROVE  codes' \in [Codes -> Phones \cup {NoPhone}]
  <1>1. codes \in [Codes -> Phones \cup {NoPhone}]
    BY DEF AccountsTypeOK
  <1>2. ASSUME NEW k \in Calls, InsertCode(k)
        PROVE  codes' \in [Codes -> Phones \cup {NoPhone}]
    BY <1>1, <1>2 DEF InsertCode, AccountsTypeOK, CallStates
  <1>3. ASSUME NEW k \in Calls, CallStep(k)
        PROVE  codes' \in [Codes -> Phones \cup {NoPhone}]
    BY <1>1, <1>2, <1>3
       DEF CallStep, SignUp, CreateUser, StartEmailVerification, SendVerificationEmail, EditRead, UpdateUser,
           ConfirmPasswordChange, UpdatePassword, ApplyPasswordChange, CheckLimit,
           DeleteCodes, SendCode, RecordAttempt, RecordFirst, EnterCode, MarkVerified,
           WritePhone, Stop
  <1>4. QED
    BY <1>1, <1>3
       DEF AccountsNext, VerifyEmail, TokenExpires, SaveSMS, ChangePassword, StartPasswordChange,
           CancelPasswordChange, MarkUsed, ChangeExpires, LimitExpires, CodeExpires, accountsVars

LEMMA CountersTypeStep ==
  ASSUME AccountsTypeOK, SendsInv, [AccountsNext]_accountsVars
  PROVE  /\ asked' \in [changes : 0 .. MaxChanges, codes : 0 .. MaxCodes, stops : 0 .. MaxStops]
         /\ limit' \in [count : 0 .. MaxCodes, expired : BOOLEAN]
         /\ window' \in [sent : SUBSET Codes, extra : SUBSET Codes]
         /\ token' \in BOOLEAN
  <1> DEFINE Good ==
        /\ asked' \in [changes : 0 .. MaxChanges, codes : 0 .. MaxCodes, stops : 0 .. MaxStops]
        /\ limit' \in [count : 0 .. MaxCodes, expired : BOOLEAN]
        /\ window' \in [sent : SUBSET Codes, extra : SUBSET Codes]
        /\ token' \in BOOLEAN
  <1>1. /\ asked \in [changes : 0 .. MaxChanges, codes : 0 .. MaxCodes, stops : 0 .. MaxStops]
        /\ limit \in [count : 0 .. MaxCodes, expired : BOOLEAN]
        /\ window \in [sent : SUBSET Codes, extra : SUBSET Codes]
        /\ token \in BOOLEAN
        /\ MaxChanges \in Nat /\ MaxCodes \in Nat /\ MaxStops \in Nat
    BY AccountsAssumption DEF AccountsTypeOK
  <1>2. \A k \in Sending : call[k].number \in Codes
    BY <1>1 DEF SendsInv, NumbersKnown, Codes
  <1>3. CASE UNCHANGED <<asked, limit, window>> /\ token' \in BOOLEAN
    BY <1>1, <1>3
  <1>4. ASSUME NEW k \in Calls, CheckLimit(k)  PROVE Good
    <2>1. asked.codes + 1 \in Codes
      BY <1>1, <1>4 DEF CheckLimit, Codes
    <2>2. QED  BY <1>1, <1>4, <2>1 DEF CheckLimit, Codes
  <1>5. ASSUME NEW k \in Calls, NEW taken \in BOOLEAN, SendCode(k, taken)  PROVE Good
    <2>1. k \in Sending
      BY <1>5 DEF SendCode, At, Sending, SendingPlaces
    <2>2. QED  BY <1>1, <1>2, <1>5, <2>1 DEF SendCode
  <1>6. ASSUME NEW k \in Calls, RecordAttempt(k) \/ RecordFirst(k)  PROVE Good
    <2>1. k \in Sending
      BY <1>6 DEF RecordAttempt, RecordFirst, At, Sending, SendingPlaces
    <2>2. Cardinality(Sending) >= 1
      BY <2>1, SpentFinite, FS_EmptySet
    <2>3. limit.count + 1 \in 0 .. MaxCodes
      BY <1>1, <2>2, SpentFinite DEF SendsInv, Counts
    <2>4. Counted \in [count : 0 .. MaxCodes, expired : BOOLEAN]
      BY <2>3 DEF Counted
    <2>5. limit' \in {limit, Counted} /\ UNCHANGED <<asked, window, token>>
      BY <1>6 DEF RecordAttempt, RecordFirst
    <2>6. QED  BY <1>1, <2>4, <2>5
  <1>7. ASSUME NEW k \in Calls, Stop(k)  PROVE Good
    BY <1>1, <1>2, <1>7 DEF Stop
  <1>8. CASE LimitExpires
    BY <1>1, <1>2, <1>8 DEF LimitExpires
  <1>9. CASE ChangePassword
    BY <1>1, <1>9 DEF ChangePassword, StartPasswordChange
  <1>10. ASSUME NEW k \in Calls, CallStep(k)  PROVE Good
    BY <1>1, <1>3, <1>4, <1>5, <1>6, <1>7, <1>10
       DEF CallStep, SignUp, CreateUser, StartEmailVerification, SendVerificationEmail, EditRead, UpdateUser,
           ConfirmPasswordChange, UpdatePassword, ApplyPasswordChange,
           DeleteCodes, InsertCode, EnterCode, MarkVerified, WritePhone
  <1>11. QED
    BY <1>1, <1>3, <1>8, <1>9, <1>10
       DEF AccountsNext, VerifyEmail, TokenExpires, SaveSMS, CancelPasswordChange,
           ChangeExpires, CodeExpires, accountsVars

AccountsInv == AccountsTypeOK /\ NothingYet /\ LinksKnown /\ RowsKnown /\ SendsInv

LEMMA TypeStep ==
  ASSUME AccountsInv, [AccountsNext]_accountsVars
  PROVE  AccountsTypeOK'
  <1> USE DEF AccountsInv
  <1>1. call' \in [Calls -> CallStates]
    <2>1. CASE UNCHANGED call
      BY <2>1 DEF AccountsTypeOK
    <2>2. CASE \E k \in Calls : CallStep(k)
      BY <2>2, CallTypeStep
    <2>3. QED
      BY <2>1, <2>2
         DEF AccountsNext, VerifyEmail, TokenExpires, SaveSMS, ChangePassword, StartPasswordChange,
             CancelPasswordChange, ChangeExpires, LimitExpires, CodeExpires, accountsVars
  <1>2. QED
    BY <1>1, RowTypeStep, LinksTypeStep, CodesTypeStep, CountersTypeStep DEF AccountsTypeOK

LEMMA InvInit == AccountsInit => AccountsInv
  <1> SUFFICES ASSUME AccountsInit  PROVE AccountsInv
    OBVIOUS
  <1> USE AccountsAssumption, NewRowType DEF AccountsInit
  <1>1. Idle \in CallStates /\ Idle.pc = "idle"
    BY DEF Idle, CallStates, Places
  <1>2. AccountsTypeOK
    <2>1. /\ call \in [Calls -> CallStates] /\ meant \in Row
          /\ codes \in [Codes -> Phones \cup {NoPhone}]
      BY <1>1
    <2>2. /\ limit \in [count : 0 .. MaxCodes, expired : BOOLEAN]
          /\ asked \in [changes : 0 .. MaxChanges, codes : 0 .. MaxCodes, stops : 0 .. MaxStops]
          /\ links \in [followed : SUBSET Changes, applied : SUBSET Changes,
                        withdrawn : SUBSET Changes, overtaken : SUBSET Changes]
          /\ window \in [sent : SUBSET Codes, extra : SUBSET Codes]
      OBVIOUS
    <2>3. QED  BY <2>1, <2>2 DEF AccountsTypeOK
  <1>3. NothingYet /\ RowsKnown /\ LinksKnown
    <2>1. \A k \in Calls : call[k].pc = "idle"
      BY <1>1
    <2>2. NothingYet /\ RowsKnown
      BY <2>1 DEF NothingYet, RowsKnown, Codes
    <2>3. LinksKnown
      BY <2>1 DEF LinksKnown, NewRow
    <2>4. QED  BY <2>2, <2>3
  <1>4. Sending = {} /\ Spent = {} /\ Alone = {}
    BY <1>1 DEF Sending, SendingPlaces, Spent, Alone
  <1>5. SendsInv
    BY <1>4, FS_EmptySet DEF SendsInv, NumbersKnown, Counts, SpentCounted
  <1>6. QED  BY <1>2, <1>3, <1>5 DEF AccountsInv

(* The inductive invariant holds in every reachable state.                 *)
THEOREM AccountsInvariant == AccountsSpec => []AccountsInv
  <1>1. AccountsInv /\ [AccountsNext]_accountsVars => AccountsInv'
    BY TypeStep, NothingYetStep, LinksKnownStep, RowsKnownStep, SendsStep DEF AccountsInv
  <1>2. QED  BY <1>1, InvInit, PTL DEF AccountsSpec

(* Type correctness of the account.                                        *)
THEOREM AccountsTypeCorrect == AccountsSpec => []AccountsTypeOK
  <1>1. AccountsInv => AccountsTypeOK
    BY DEF AccountsInv
  <1>2. QED  BY <1>1, AccountsInvariant, PTL

(* ApplyPasswordChange (password_change_service.go) writes no password     *)
(* whose link was not followed while it could be, and none over a newer    *)
(* one that was not asked for meanwhile.                                   *)
THEOREM PasswordsAreConfirmed == AccountsSpec => []PasswordAsConfirmed
  <1>1. AccountsInv => PasswordAsConfirmed
    BY DEF AccountsInv, LinksKnown, RowsKnown, SameBut, PasswordAsConfirmed
  <1>2. QED  BY <1>1, AccountsInvariant, PTL

(* UpdateUser (auth/repo.go) writing a whole form back loses nothing but a *)
(* password or a status that was written while the form was open.          *)
THEOREM RowsAreMeant == AccountsSpec => []RowAsMeant
  <1>1. AccountsInv => RowAsMeant
    BY DEF AccountsInv, RowsKnown, SameBut, RowAsMeant
  <1>2. QED  BY <1>1, AccountsInvariant, PTL

(* isRateLimited and recordAttempt (verification_service.go) let at most   *)
(* SendLimit codes out before the limit expires, but for the exceptions    *)
(* that CodesLimited names.                                                *)
THEOREM CodesAreLimited == AccountsSpec => []CodesLimited
  <1>1. AccountsInv => CodesLimited
    <2> SUFFICES ASSUME AccountsInv  PROVE CodesLimited
      OBVIOUS
    <2> DEFINE sent == window.sent \ window.extra
    <2>1. /\ AccountsTypeOK /\ NumbersKnown /\ SpentCounted
          /\ IsFiniteSet(Spent) /\ Cardinality(Spent) \in Nat /\ SendLimit \in Nat \ {0}
      BY SpentFinite, AccountsAssumption DEF AccountsInv, SendsInv
    <2>2. CASE Alone = {}
      <3>1. sent = Spent
        BY <2>2 DEF Spent, Alone
      <3>2. QED  BY <2>1, <3>1 DEF SpentCounted, CodesLimited
    <2>3. ASSUME NEW k \in Alone  PROVE CodesLimited
      <3>1. PICK n : n = call[k].number
        OBVIOUS
      <3>2. sent \subseteq Spent \cup {n}
        BY <2>1, <2>3, <3>1 DEF NumbersKnown, Spent, Alone
      <3>3. /\ IsFiniteSet(Spent \cup {n})
            /\ Cardinality(Spent \cup {n}) = IF n \in Spent THEN Cardinality(Spent)
                                            ELSE Cardinality(Spent) + 1
        BY <2>1, FS_AddElement
      <3>4. Cardinality(sent) <= Cardinality(Spent \cup {n}) /\ Cardinality(sent) \in Nat
        BY <3>2, <3>3, FS_Subset, FS_CardinalityType
      <3>5. Cardinality(Spent) < SendLimit
        BY <2>1, <2>3 DEF SpentCounted
      <3>6. QED  BY <2>1, <3>3, <3>4, <3>5 DEF CodesLimited
    <2>4. QED  BY <2>2, <2>3
  <1>2. QED  BY <1>1, AccountsInvariant, PTL
=============================================================================
