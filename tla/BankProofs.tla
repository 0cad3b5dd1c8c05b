----------------------------- MODULE BankProofs -----------------------------
(***************************************************************************)
(* The bank's services for any number of concurrent calls: sign-ups, new   *)
(* contacts with their payments, the frontend's pages, and the ledger      *)
(* writer with its cached balance.                                         *)
(*                                                                         *)
(* A balance is a sum over a set of rows, which needs two facts that are   *)
(* proved by induction over the natural numbers: a bounded set of numbers  *)
(* has a largest one, and a sum does not depend on the order of its terms. *)
(***************************************************************************)
EXTENDS SignUp, Payments, Pages, Ledger, FiniteSetTheorems, WellFoundedInduction, TLAPS

-----------------------------------------------------------------------------
(* Signing up *)

\* The table's keys are kept, a sign-up that succeeded has its row, and a
\* session is that of a row.
AccountInv ==
  /\ form \in [Forms -> [name : Names, password : Passwords]]
  /\ creation \in [Forms -> {"none", "lookup", "absent", "numbered", "201", "400", "409", "500"}]
  /\ picked \in [Forms -> AccountIds \cup {NoId}]
  /\ session = [f \in Forms |-> session[f]]
  /\ \A u, v \in users : u.name = v.name \/ u.accountid = v.accountid => u = v
  /\ \A f \in Forms : session[f] # NoId =>
       \E u \in users : Knows(f, u) /\ u.accountid = session[f]
  /\ CreatedIsOwn

\* Only the service's own steps touch the table or an answer; the others keep
\* what was created.
LEMMA PagesKeepAccounts ==
  ASSUME AccountInv, UNCHANGED <<form, users, picked>>,
         creation' \in [Forms -> {"none", "lookup", "absent", "numbered", "201", "400", "409", "500"}],
         \A f \in Forms : creation'[f] = "201" => creation[f] = "201",
         session' = [f \in Forms |-> session'[f]],
         \A f \in Forms : session'[f] # NoId =>
           \E u \in users : Knows(f, u) /\ u.accountid = session'[f]
  PROVE  AccountInv'
<1>1. CreatedIsOwn'
  BY DEF AccountInv, CreatedIsOwn, NewRow
<1>2. \A f \in Forms : session'[f] # NoId =>
        \E u \in users' : Knows(f, u)' /\ u.accountid = session'[f]
  BY DEF Knows
<1> QED BY <1>1, <1>2 DEF AccountInv, Knows

LEMMA AddUserKeepsAccounts ==
  ASSUME AccountInv, NEW f \in Forms, add_user(f)
  PROVE  AccountInv'
<1>1. /\ creation[f] = "numbered"
      /\ UNCHANGED <<form, picked, session>>
  BY DEF add_user
<1>2. CASE UNCHANGED users /\ Answer(f, "500")
  BY <1>1, <1>2, PagesKeepAccounts DEF Answer, AccountInv
<1>3. CASE Admits(NewRow(f)) /\ users' = users \cup {NewRow(f)} /\ (Answer(f, "201") \/ Answer(f, "500"))
  <2> DEFINE row == NewRow(f)
  <2>1. \A u \in users : u.accountid # row.accountid /\ u.name # row.name
    BY <1>3 DEF Admits
  <2>2. row = [name |-> form[f].name, password |-> form[f].password, accountid |-> picked[f]]
    BY DEF NewRow
  <2> HIDE DEF row
  <2>3. users' = users \cup {row}
    BY <1>3 DEF row
  <2>4. \A u, v \in users' : u.name = v.name \/ u.accountid = v.accountid => u = v
    BY <2>1, <2>3 DEF AccountInv
  <2>5. \A g \in Forms : session'[g] # NoId =>
          \E u \in users' : Knows(g, u)' /\ u.accountid = session'[g]
    BY <1>1, <2>3 DEF AccountInv, Knows
  <2>6. creation' \in [Forms -> {"none", "lookup", "absent", "numbered", "201", "400", "409", "500"}]
    BY <1>3 DEF Answer, AccountInv
  <2>7. \A g \in Forms : NewRow(g)' = NewRow(g)
    BY <1>1 DEF NewRow
  <2>8. \A g \in Forms : creation'[g] = "201" /\ g # f =>
          creation[g] = "201" /\ NewRow(g) \in users
    BY <1>3 DEF Answer, AccountInv, CreatedIsOwn
  <2>9. \A g \in Forms : creation'[g] = "201" /\ g # f =>
          picked[g] # picked[f] /\ form[g].name # form[f].name
    BY <2>8, <2>1, <2>2 DEF NewRow
  <2>10. ASSUME NEW g \in Forms, creation'[g] = "201", NEW h \in Forms
         PROVE  /\ NewRow(g)' \in users'
                /\ h # g /\ creation'[h] = "201" =>
                     picked'[h] # picked'[g] /\ form'[h].name # form'[g].name
    <3>1. NewRow(g)' \in users'
      BY <2>3, <2>7, <2>8, <2>10 DEF row
    <3>2. CASE g = f \/ h = f
      BY <3>1, <3>2, <2>9, <2>10, <1>1
    <3>3. CASE g # f /\ h # f
      BY <3>1, <3>3, <2>8, <2>10, <1>1 DEF AccountInv, CreatedIsOwn
    <3> QED BY <3>2, <3>3
  <2>11. CreatedIsOwn'
    BY <2>10 DEF CreatedIsOwn
  <2> QED BY <1>1, <2>4, <2>5, <2>6, <2>11 DEF AccountInv
<1> QED BY <1>2, <1>3 DEF add_user

LEMMA AccountInvStep == AccountInv /\ [SignUpNext]_signUpVars => AccountInv'
<1> SUFFICES ASSUME AccountInv, [SignUpNext]_signUpVars PROVE AccountInv'
  OBVIOUS
<1>0. /\ creation \in [Forms -> {"none", "lookup", "absent", "numbered", "201", "400", "409", "500"}]
      /\ session = [f \in Forms |-> session[f]]
      /\ \A f \in Forms : session[f] # NoId =>
           \E u \in users : Knows(f, u) /\ u.accountid = session[f]
  BY DEF AccountInv
<1>1. ASSUME NEW f \in Forms, Post(f) \/ PostLogin(f) \/ SignedUp(f) \/ GiveUp(f) PROVE AccountInv'
  BY <1>0, <1>1, PagesKeepAccounts DEF Post, PostLogin, SignedUp, GiveUp, Answer
<1>2. ASSUME NEW f \in Forms, create_user(f) PROVE AccountInv'
  BY <1>0, <1>2, PagesKeepAccounts DEF create_user, Answer
<1>3. ASSUME NEW f \in Forms, generate_accountid(f) PROVE AccountInv'
  <2>1. PICK id \in AccountIds : picked' = [picked EXCEPT ![f] = id]
    BY <1>3 DEF generate_accountid
  <2>2. /\ creation[f] = "absent" /\ creation' = [creation EXCEPT ![f] = "numbered"]
        /\ UNCHANGED <<form, users, session>>
    BY <1>3 DEF generate_accountid, Answer
  <2>3. CreatedIsOwn'
    BY <2>1, <2>2 DEF AccountInv, CreatedIsOwn, NewRow
  <2>4. creation' \in [Forms -> {"none", "lookup", "absent", "numbered", "201", "400", "409", "500"}]
    BY <2>2, <1>0
  <2> QED BY <2>1, <2>2, <2>3, <2>4 DEF AccountInv, Knows
<1>4. ASSUME NEW f \in Forms, add_user(f) PROVE AccountInv'
  BY <1>4, AddUserKeepsAccounts
<1>5. ASSUME NEW f \in Forms, _login_helper(f) PROVE AccountInv'
  <2>1. UNCHANGED <<form, users, creation, picked>>
    BY <1>5 DEF _login_helper
  <2>2. CASE UNCHANGED session
    BY <2>1, <2>2, <1>0, PagesKeepAccounts
  <2>3. ASSUME NEW row \in users, Knows(f, row), session' = [session EXCEPT ![f] = row.accountid]
        PROVE  AccountInv'
    <3>1. \A g \in Forms : session'[g] # NoId =>
            \E u \in users : Knows(g, u) /\ u.accountid = session'[g]
      BY <2>3, <1>0
    <3>2. session' = [g \in Forms |-> session'[g]]
      BY <2>3, <1>0
    <3> QED BY <2>1, <3>1, <3>2, <1>0, PagesKeepAccounts
  <2> QED BY <1>5, <2>2, <2>3 DEF _login_helper
<1>6. CASE UNCHANGED signUpVars
  BY <1>0, <1>6, PagesKeepAccounts DEF signUpVars
<1> QED BY <1>1, <1>2, <1>3, <1>4, <1>5, <1>6 DEF SignUpNext, SignUpStep

LEMMA AccountInvInit == SignUpInit => AccountInv
BY DEF SignUpInit, AccountInv, CreatedIsOwn

\* For any forms, names and account numbers: of the sign-ups that race for a name
\* or a number only one is answered 201, and its row is the one in the table.
THEOREM CreatedOwn == SignUpSpec => []CreatedIsOwn
<1>1. AccountInv => CreatedIsOwn
  BY DEF AccountInv
<1> QED BY <1>1, AccountInvInit, AccountInvStep, PTL DEF SignUpSpec

\* For any forms, names, passwords and account numbers, whoever gets in: one
\* user name is one account and one password.
THEOREM OneAccountPerName == SignUpSpec => []AccountPerName
<1>1. AccountInv => AccountPerName
  BY DEF AccountInv, AccountPerName, Knows
<1> QED BY <1>1, AccountInvInit, AccountInvStep, PTL DEF SignUpSpec

\* For any forms, the table, the pages and the sessions keep their types: a row is
\* inserted only once its account number has been drawn.
THEOREM SignUpTyped == SignUpSpec => []SignUpTypeOK
<1> DEFINE Drawn == \A f \in Forms : creation[f] = "numbered" => picked[f] \in AccountIds
<1>1. SignUpInit => SignUpTypeOK /\ Drawn
  BY DEF SignUpInit, SignUpTypeOK
<1>2. SignUpTypeOK /\ Drawn /\ [SignUpNext]_signUpVars => SignUpTypeOK' /\ Drawn'
  <2> SUFFICES ASSUME SignUpTypeOK, Drawn, [SignUpNext]_signUpVars
               PROVE  SignUpTypeOK' /\ Drawn'
    OBVIOUS
  <2> USE DEF SignUpTypeOK, Answer, PageShows
  <2>1. ASSUME NEW f \in Forms, create_user(f) PROVE SignUpTypeOK' /\ Drawn'
    BY <2>1 DEF create_user
  <2>2. ASSUME NEW f \in Forms, generate_accountid(f) PROVE SignUpTypeOK' /\ Drawn'
    BY <2>2 DEF generate_accountid
  <2>3. ASSUME NEW f \in Forms, add_user(f) PROVE SignUpTypeOK' /\ Drawn'
    <3>1. PICK code \in {"201", "500"} : creation' = [creation EXCEPT ![f] = code]
      BY <2>3 DEF add_user
    <3>2. NewRow(f) \in UserRows
      BY <2>3 DEF add_user, NewRow, UserRows
    <3>3. users' \subseteq UserRows
      BY <2>3, <3>2 DEF add_user
    <3> QED BY <2>3, <3>1, <3>3 DEF add_user
  <2>4. ASSUME NEW f \in Forms, Post(f) \/ PostLogin(f) \/ SignedUp(f) \/ GiveUp(f)
        PROVE  SignUpTypeOK' /\ Drawn'
    BY <2>4 DEF Post, PostLogin, SignedUp, GiveUp
  <2>5. ASSUME NEW f \in Forms, _login_helper(f) PROVE SignUpTypeOK' /\ Drawn'
    BY <2>5 DEF _login_helper, UserRows
  <2>6. CASE UNCHANGED signUpVars
    BY <2>6 DEF signUpVars
  <2> QED BY <2>1, <2>2, <2>3, <2>4, <2>5, <2>6 DEF SignUpNext, SignUpStep
<1> QED BY <1>1, <1>2, PTL DEF SignUpSpec

-----------------------------------------------------------------------------
(* Contacts and payments *)

\* What the pages and the service know of each form.
PageInv ==
  /\ service \in [Tabs -> ServiceStates]
  /\ tab \in [Tabs -> TabStates]
  /\ before \in [Tabs -> SUBSET Tabs]
  /\ \A t \in Tabs : tab[t] = "new" => service[t] = "none"
  /\ \A t \in Tabs : tab[t] = "added" => service[t] \in {"none", "201"}
  /\ \A t \in Tabs : tab[t] = "adding" => service[t] \in {"contact", "allowed", "201", "refused"}
  /\ \A t \in Tabs : service[t] \in {"contact", "allowed"} => slip[t].label # NoLabel
  /\ \A t \in Tabs : tab[t] = "submitting" => service[t] \in {"transaction", "201", "refused"}

\* A contact belongs to a call that is over, and a call that found its contact
\* allowed has no duplicate among those stored by calls that were over before.
ContactInv ==
  /\ \A c \in contacts : /\ c.form \in Tabs /\ ContactOver(c.form)
                         /\ c.label = slip[c.form].label /\ c.to = slip[c.form].to
  /\ \A t \in Tabs : \A u \in before[t] : u # t /\ ContactOver(u)
  /\ \A t \in Tabs : service[t] = "allowed" =>
       \A c \in contacts : c.form \in before[t] => c.to # slip[t].to /\ c.label # slip[t].label
  /\ DuplicatesNeedOverlap

Stored(t) == slip[t].label # NoLabel => \E c \in contacts : c.form = t

\* A transaction is submitted, booked and reported as successful in this order,
\* and none of it before its contact is stored.
BookingInv ==
  /\ booked \subseteq Tabs
  /\ \A t \in Tabs : tab[t] = "added" \/ service[t] = "transaction" \/ t \in booked => Stored(t)
  /\ \A t \in Tabs : tab[t] = "adding" /\ service[t] = "201" => Stored(t)
  /\ \A t \in Tabs : tab[t] = "submitting" /\ service[t] = "201" => t \in booked
  /\ \A t \in Tabs : tab[t] = "successful" => t \in booked

PaymentInv == PageInv /\ ContactInv /\ BookingInv

\* A step after which every call that was over is over, with no new contact and
\* no call newly allowed or begun, keeps the contacts in order.
LEMMA OverStaysOver ==
  ASSUME PaymentInv, UNCHANGED <<slip, contacts, before>>,
         \A t \in Tabs : ContactOver(t) => ContactOver(t)',
         \A t \in Tabs : service'[t] = "allowed" => service[t] = "allowed"
  PROVE  ContactInv'
BY DEF PaymentInv, PageInv, ContactInv, DuplicatesNeedOverlap

LEMMA CheckContactKeeps ==
  ASSUME PaymentInv, NEW t \in Tabs, check_contact(t)
  PROVE  PaymentInv'
<1>1. /\ service[t] = "contact" /\ slip[t].label # NoLabel
      /\ UNCHANGED <<slip, contacts, tab, booked, before>>
  BY DEF check_contact, PaymentInv, PageInv
<1>2. CASE service' = [service EXCEPT ![t] = "refused"]
  <2>1. \A u \in Tabs : ContactOver(u) => ContactOver(u)'
    BY <1>1, <1>2 DEF ContactOver, PaymentInv, PageInv
  <2>2. ContactInv'
    BY <1>1, <1>2, <2>1, OverStaysOver DEF PaymentInv, PageInv
  <2> QED BY <1>1, <1>2, <2>2 DEF PaymentInv, PageInv, BookingInv, Stored, ServiceStates
<1>3. CASE Allowed(slip[t]) /\ service' = [service EXCEPT ![t] = "allowed"]
  <2>1. \A u \in Tabs : ContactOver(u) => ContactOver(u)'
    BY <1>1, <1>3 DEF ContactOver, PaymentInv, PageInv
  <2>2. \A c \in contacts : c.to # slip[t].to /\ c.label # slip[t].label
    BY <1>3 DEF Allowed
  <2>3. ContactInv'
    BY <1>1, <1>3, <2>1, <2>2 DEF PaymentInv, PageInv, ContactInv, DuplicatesNeedOverlap
  <2> QED BY <1>1, <1>3, <2>3 DEF PaymentInv, PageInv, BookingInv, Stored, ServiceStates
<1> QED BY <1>2, <1>3 DEF check_contact, ServiceIs

LEMMA AddContactKeeps ==
  ASSUME PaymentInv, NEW t \in Tabs, add_contact(t)
  PROVE  PaymentInv'
<1> DEFINE new == [label |-> slip[t].label, to |-> slip[t].to, form |-> t]
<1>1. /\ service[t] = "allowed" /\ slip[t].label # NoLabel
      /\ UNCHANGED <<slip, tab, booked, before>>
  BY DEF add_contact, PaymentInv, PageInv
<1>2. PICK end \in {"201", "refused"} : service' = [service EXCEPT ![t] = end]
  BY DEF add_contact, ServiceIs
<1>3. /\ service \in [Tabs -> ServiceStates]
      /\ service' \in [Tabs -> ServiceStates]
      /\ service'[t] = end /\ \A u \in Tabs \ {t} : service'[u] = service[u]
  BY <1>2 DEF PaymentInv, PageInv, ServiceStates
<1>4. \A u \in Tabs : ContactOver(u) => ContactOver(u)'
  BY <1>1, <1>3 DEF ContactOver
<1>5. CASE UNCHANGED contacts /\ end = "refused"
  <2>1. ContactInv'
    BY <1>1, <1>3, <1>4, <1>5, OverStaysOver
  <2> QED BY <1>1, <1>3, <1>5, <2>1 DEF PaymentInv, PageInv, BookingInv, Stored
<1>6. CASE contacts' = contacts \cup {new}
  <2>1. ~ContactOver(t) /\ ContactOver(t)'
    BY <1>1, <1>3 DEF ContactOver
  <2>2. /\ new.form = t /\ new.label = slip[t].label /\ new.to = slip[t].to
        /\ \A c \in contacts : c.form \in before[t] => c.to # new.to /\ c.label # new.label
        /\ \A u \in Tabs : t \notin before[u]
    BY <1>1, <2>1 DEF PaymentInv, ContactInv
  <2> HIDE DEF new
  <2>3. ASSUME NEW c \in contacts', NEW d \in contacts', c.form # d.form,
               c.label = d.label \/ c.to = d.to
        PROVE  c.form \notin before'[d.form] /\ d.form \notin before'[c.form]
    <3>1. CASE c \in contacts /\ d \in contacts
      BY <2>3, <3>1, <1>1 DEF PaymentInv, ContactInv, DuplicatesNeedOverlap
    <3>2. CASE c = new /\ d \in contacts
      BY <2>2, <2>3, <3>2, <1>1 DEF PaymentInv, ContactInv
    <3>3. CASE d = new /\ c \in contacts
      BY <2>2, <2>3, <3>3, <1>1 DEF PaymentInv, ContactInv
    <3> QED BY <3>1, <3>2, <3>3, <1>6, <2>3
  <2>4. ContactInv'
    <3>1. \A c \in contacts' : /\ c.form \in Tabs /\ ContactOver(c.form)'
                               /\ c.label = slip'[c.form].label /\ c.to = slip'[c.form].to
      BY <1>1, <1>4, <1>6, <2>1, <2>2 DEF PaymentInv, ContactInv
    <3>2. \A u \in Tabs : \A v \in before'[u] : v # u /\ ContactOver(v)'
      BY <1>1, <1>4 DEF PaymentInv, PageInv, ContactInv
    <3>3. \A u \in Tabs : service'[u] = "allowed" =>
            \A c \in contacts' : c.form \in before'[u] => c.to # slip'[u].to /\ c.label # slip'[u].label
      BY <1>1, <1>3, <1>6, <2>2 DEF PaymentInv, ContactInv
    <3> QED BY <3>1, <3>2, <3>3, <2>3 DEF ContactInv, DuplicatesNeedOverlap
  <2>5. \A u \in Tabs : (Stored(u) => Stored(u)') /\ Stored(t)'
    BY <1>1, <1>6, <2>2 DEF Stored
  <2>6. PageInv'
    BY <1>1, <1>3 DEF PaymentInv, PageInv
  <2>7. BookingInv'
    BY <1>1, <1>3, <2>5 DEF PaymentInv, PageInv, BookingInv
  <2> QED BY <2>4, <2>6, <2>7 DEF PaymentInv
<1> QED BY <1>1, <1>2, <1>3, <1>5, <1>6 DEF add_contact, ServiceIs

LEMMA SubmitKeeps ==
  ASSUME PaymentInv, NEW t \in Tabs, Submit(t)
  PROVE  PaymentInv'
<1>1. /\ tab[t] = "new" /\ service[t] = "none"
      /\ UNCHANGED <<slip, contacts, booked>>
      /\ ~ContactOver(t)
  BY DEF Submit, PaymentInv, PageInv, ContactOver
<1>2. CASE slip[t].label # NoLabel
  <2>1. /\ tab' = [tab EXCEPT ![t] = "adding"] /\ service' = [service EXCEPT ![t] = "contact"]
        /\ before' = [before EXCEPT ![t] = {u \in Tabs : ContactOver(u)}]
    BY <1>2 DEF Submit, TabShows, ServiceIs
  <2>2. \A u \in Tabs : ContactOver(u) => ContactOver(u)'
    BY <1>1, <2>1 DEF ContactOver, PaymentInv, PageInv
  <2>3. \A c \in contacts : c.form # t
    BY <1>1 DEF PaymentInv, ContactInv
  <2>4. PageInv'
    BY <1>1, <1>2, <2>1 DEF PaymentInv, PageInv, ServiceStates, TabStates
  <2>5. \A u \in Tabs : \A v \in before'[u] : v # u /\ ContactOver(v)'
    BY <1>1, <2>1, <2>2 DEF PaymentInv, PageInv, ContactInv
  <2>6. DuplicatesNeedOverlap'
    BY <1>1, <2>1, <2>3 DEF PaymentInv, PageInv, ContactInv, DuplicatesNeedOverlap
  <2>7. \A u \in Tabs : service'[u] = "allowed" => service[u] = "allowed" /\ before'[u] = before[u]
    BY <1>1, <2>1 DEF PaymentInv, PageInv
  <2>8. ContactInv'
    BY <1>1, <2>2, <2>5, <2>6, <2>7 DEF PaymentInv, ContactInv
  <2>9. BookingInv'
    BY <1>1, <2>1 DEF PaymentInv, PageInv, BookingInv, Stored
  <2> QED BY <2>4, <2>8, <2>9 DEF PaymentInv
<1>3. CASE slip[t].label = NoLabel
  <2>1. tab' = [tab EXCEPT ![t] = "added"] /\ UNCHANGED <<service, before>>
    BY <1>3 DEF Submit, TabShows
  <2>2. ContactInv'
    BY <1>1, <2>1, OverStaysOver DEF ContactOver
  <2> QED BY <1>1, <1>3, <2>1, <2>2 DEF PaymentInv, PageInv, BookingInv, Stored, TabStates
<1> QED BY <1>2, <1>3

\* The steps of the pages that call no contacts service.
LEMMA PagesKeepContacts ==
  ASSUME PaymentInv, NEW t \in Tabs,
         \/ SubmitInvalid(t) \/ ContactAnswered(t) \/ TransactionAnswered(t) \/ TimesOut(t)
  PROVE  PaymentInv'
<1>1. UNCHANGED <<slip, contacts, service, booked, before>>
  BY DEF SubmitInvalid, ContactAnswered, TransactionAnswered, TimesOut
<1>2. ContactInv'
  BY <1>1, OverStaysOver DEF ContactOver
<1>3. PageInv' /\ BookingInv'
  <2>1. CASE SubmitInvalid(t) \/ TimesOut(t)
    BY <1>1, <2>1 DEF SubmitInvalid, TimesOut, TabShows, PaymentInv, PageInv, BookingInv, Stored, TabStates
  <2>2. CASE ContactAnswered(t)
    BY <1>1, <2>2 DEF ContactAnswered, TabShows, PaymentInv, PageInv, BookingInv, Stored, TabStates
  <2>3. CASE TransactionAnswered(t)
    BY <1>1, <2>3 DEF TransactionAnswered, TabShows, PaymentInv, PageInv, BookingInv, Stored, TabStates
  <2> QED BY <2>1, <2>2, <2>3
<1> QED BY <1>2, <1>3 DEF PaymentInv

LEMMA TransactionsKeepContacts ==
  ASSUME PaymentInv, NEW t \in Tabs, ReadAmount(t) \/ BookTransaction(t)
  PROVE  PaymentInv'
<1>1. CASE ReadAmount(t)
  <2>1. UNCHANGED <<slip, contacts, booked, before>> /\ tab[t] = "added" /\ service[t] \in {"none", "201"}
    BY <1>1 DEF ReadAmount, PaymentInv, PageInv
  <2>2. \/ tab' = [tab EXCEPT ![t] = "submitting"] /\ service' = [service EXCEPT ![t] = "transaction"]
        \/ tab' = [tab EXCEPT ![t] = "failed"] /\ UNCHANGED service
        \/ tab' = [tab EXCEPT ![t] = "error 500"] /\ UNCHANGED service
    BY <1>1 DEF ReadAmount, TabShows, ServiceIs
  <2>3. \A u \in Tabs : ContactOver(u) => ContactOver(u)'
    BY <2>1, <2>2 DEF ContactOver, PaymentInv, PageInv
  <2>4. ContactInv'
    BY <2>1, <2>2, <2>3, OverStaysOver DEF PaymentInv, PageInv
  <2>5. service' \in [Tabs -> ServiceStates] /\ tab' \in [Tabs -> TabStates]
    <3>1. service \in [Tabs -> ServiceStates] /\ tab \in [Tabs -> TabStates]
      BY DEF PaymentInv, PageInv
    <3>2. "transaction" \in ServiceStates /\ {"submitting", "failed", "error 500"} \subseteq TabStates
      BY DEF ServiceStates, TabStates
    <3> QED BY <2>2, <3>1, <3>2
  <2>6. \A u \in Tabs : Stored(u)' <=> Stored(u)
    BY <2>1 DEF Stored
  <2>7. Stored(t)
    BY <2>1 DEF PaymentInv, BookingInv
  <2>8. \A u \in Tabs \ {t} : tab'[u] = tab[u] /\ service'[u] = service[u]
    BY <2>2 DEF PaymentInv, PageInv
  <2>9. \/ tab'[t] = "submitting" /\ service'[t] = "transaction"
        \/ tab'[t] \in {"failed", "error 500"} /\ service'[t] = service[t]
    BY <2>2 DEF PaymentInv, PageInv
  <2>10. BookingInv'
    BY <2>1, <2>6, <2>7, <2>8, <2>9 DEF PaymentInv, BookingInv
  <2>11. PageInv'
    BY <2>1, <2>5, <2>8, <2>9 DEF PaymentInv, PageInv
  <2> QED BY <2>4, <2>10, <2>11 DEF PaymentInv
<1>2. CASE BookTransaction(t)
  <2>1. UNCHANGED <<slip, contacts, tab, before>> /\ service[t] = "transaction"
    BY <1>2 DEF BookTransaction
  <2>2. PICK end \in {"201", "refused"} : service' = [service EXCEPT ![t] = end]
    BY <1>2 DEF BookTransaction, ServiceIs
  <2>3. \/ booked' = booked \cup {t}
        \/ booked' = booked /\ end = "refused"
    BY <1>2, <2>2 DEF BookTransaction, ServiceIs, PaymentInv, PageInv
  <2>4. \A u \in Tabs : ContactOver(u) => ContactOver(u)'
    BY <2>1, <2>2 DEF ContactOver, PaymentInv, PageInv
  <2>5. ContactInv'
    BY <2>1, <2>2, <2>4, OverStaysOver DEF PaymentInv, PageInv
  <2>6. tab[t] # "adding" /\ tab[t] # "added" /\ tab[t] # "new"
    BY <2>1 DEF PaymentInv, PageInv
  <2>7. PageInv'
    BY <2>1, <2>2, <2>6 DEF PaymentInv, PageInv, ServiceStates
  <2>8. BookingInv'
    BY <2>1, <2>2, <2>3, <2>6 DEF PaymentInv, PageInv, BookingInv, Stored
  <2> QED BY <2>5, <2>7, <2>8 DEF PaymentInv
<1> QED BY <1>1, <1>2

LEMMA PaymentInvStep == PaymentInv /\ [PaymentsNext]_paymentVars => PaymentInv'
<1> SUFFICES ASSUME PaymentInv, [PaymentsNext]_paymentVars PROVE PaymentInv'
  OBVIOUS
<1>1. ASSUME NEW t \in Tabs, PaymentsStep(t) PROVE PaymentInv'
  BY <1>1, CheckContactKeeps, AddContactKeeps, SubmitKeeps, PagesKeepContacts,
     TransactionsKeepContacts DEF PaymentsStep
<1>2. CASE UNCHANGED paymentVars
  BY <1>2 DEF paymentVars, PaymentInv, PageInv, ContactInv, BookingInv, ContactOver, Stored,
              DuplicatesNeedOverlap
<1> QED BY <1>1, <1>2 DEF PaymentsNext

LEMMA PaymentInvInit == PaymentsInit => PaymentInv
BY DEF PaymentsInit, PaymentInv, PageInv, ContactInv, BookingInv, DuplicatesNeedOverlap,
       ContactOver, ServiceStates, TabStates

\* For any tabs, labels and accounts: a duplicate contact needs two calls that
\* ran at the same time.
THEOREM DuplicatesOverlap == PaymentsSpec => []DuplicatesNeedOverlap
<1>1. PaymentInv => DuplicatesNeedOverlap
  BY DEF PaymentInv, ContactInv
<1> QED BY <1>1, PaymentInvInit, PaymentInvStep, PTL DEF PaymentsSpec

\* For any tabs, labels and accounts, however long pages wait: no transaction is
\* booked before the contact its form names is stored.
THEOREM ContactComesFirst == PaymentsSpec => []BookedAfterContact
<1>1. PaymentInv => BookedAfterContact
  BY DEF PaymentInv, BookingInv, BookedAfterContact, Stored
<1> QED BY <1>1, PaymentInvInit, PaymentInvStep, PTL DEF PaymentsSpec

\* For any tabs and labels, the rows, calls and pages keep their types.  A contact
\* that is stored has a label only because no page sends one without.
THEOREM PaymentsTyped == PaymentsSpec => []PaymentsTypeOK
<1>1. PaymentsInit => PaymentsTypeOK
  BY DEF PaymentsInit, PaymentsTypeOK, ServiceStates, TabStates
<1>2. PaymentInv /\ PaymentsTypeOK /\ [PaymentsNext]_paymentVars => PaymentsTypeOK'
  <2> SUFFICES ASSUME PaymentInv, PaymentsTypeOK, [PaymentsNext]_paymentVars
               PROVE  PaymentsTypeOK'
    OBVIOUS
  <2> USE DEF PaymentsTypeOK, ServiceIs, TabShows, ServiceStates, TabStates
  <2>1. ASSUME NEW t \in Tabs, check_contact(t) \/ BookTransaction(t) PROVE PaymentsTypeOK'
    BY <2>1 DEF check_contact, BookTransaction
  <2>2. ASSUME NEW t \in Tabs, add_contact(t) PROVE PaymentsTypeOK'
    <3>1. slip[t].label # NoLabel /\ slip[t] \in Slips
      BY <2>2 DEF add_contact, PaymentInv, PageInv
    <3>2. [label |-> slip[t].label, to |-> slip[t].to, form |-> t] \in Contacts
      BY <3>1 DEF Slips, Contacts
    <3> QED BY <2>2, <3>2 DEF add_contact
  <2>3. ASSUME NEW t \in Tabs, Submit(t) PROVE PaymentsTypeOK'
    <3>1. {u \in Tabs : ContactOver(u)} \in SUBSET Tabs
      OBVIOUS
    <3>2. before' \in [Tabs -> SUBSET Tabs]
      BY <2>3, <3>1 DEF Submit
    <3>3. tab' \in [Tabs -> TabStates] /\ service' \in [Tabs -> ServiceStates]
      BY <2>3 DEF Submit
    <3> QED BY <2>3, <3>2, <3>3 DEF Submit
  <2>4. ASSUME NEW t \in Tabs, SubmitInvalid(t) \/ ContactAnswered(t) \/ ReadAmount(t)
        PROVE  PaymentsTypeOK'
    BY <2>4 DEF SubmitInvalid, ContactAnswered, ReadAmount
  <2>5. ASSUME NEW t \in Tabs, TransactionAnswered(t) \/ TimesOut(t) PROVE PaymentsTypeOK'
    BY <2>5 DEF TransactionAnswered, TimesOut
  <2>6. CASE UNCHANGED paymentVars
    BY <2>6 DEF paymentVars
  <2> QED BY <2>1, <2>2, <2>3, <2>4, <2>5, <2>6 DEF PaymentsNext, PaymentsStep
<1> QED BY <1>1, <1>2, PaymentInvInit, PaymentInvStep, PTL DEF PaymentsSpec

-----------------------------------------------------------------------------
(* The pages *)

\* The most redirects that can still follow a request of an admitted browser,
\* whatever happens to its token on the way.
MostHops(method, path, oauth) ==
  IF method = "POST"
    THEN IF path \in {"/login", "/signup"} THEN 3
         ELSE IF path = "/payment" THEN 2 ELSE IF path = "/logout" THEN 1 ELSE 0
    ELSE IF path = "/home" THEN 1
         ELSE IF path \in {"/signup", "/consent"} THEN 2
         ELSE IF path # "/login" THEN 0
         ELSE IF SignedIn THEN (IF oauth = "no" THEN 2 ELSE 3)
         ELSE IF oauth = "other" THEN 1 ELSE 0

\* A browser waits before anything else has redirected it; from then on it is
\* inside until a page is shown, and what it is asked to follow runs out.
HopsInv ==
  /\ PagesTypeOK
  /\ hops <= 4
  /\ asking # Nowhere =>
       IF asking.path = "/waiting" THEN hops <= 1
       ELSE IF inside THEN hops + MostHops(asking.method, asking.path, asking.oauth) <= 4
       ELSE hops = 0

LEMMA HopsBounds ==
  ASSUME NEW method, NEW path, NEW oauth
  PROVE  /\ MostHops(method, path, oauth) \in 0..3
         /\ MostHops("GET", path, "no") \in 0..2
BY DEF MostHops

\* What is asked is a path of the bank or the waiting page.
LEMMA AskingTypes ==
  ASSUME PagesTypeOK, asking # Nowhere
  PROVE  /\ asking.method \in {"GET", "POST"}
         /\ asking.path = "/waiting" => asking.target \in Paths
         /\ asking.path # "/waiting" => asking.path \in Paths /\ asking.oauth \in OAuth
BY DEF PagesTypeOK, Askings, Paths

LEMMA GETTypes ==
  ASSUME NEW path \in Paths, NEW oauth \in OAuth
  PROVE  /\ GET(path, oauth) \in Askings
         /\ GET(path, oauth).method = "GET" /\ GET(path, oauth).path = path
         /\ GET(path, oauth).oauth = oauth /\ GET(path, oauth).path # "/waiting"
BY DEF GET, Askings, Paths

\* A page ends the redirects.
LEMMA PageEndsHops ==
  ASSUME HopsInv, asking' = Nowhere, shown' \in Shown, hops' = hops,
         token' \in {"none", "verified", "invalid"}, consented' \in BOOLEAN,
         registered' = registered, inside' = inside
  PROVE  HopsInv'
BY DEF HopsInv, PagesTypeOK

\* An admitted browser that is redirected has one redirect less to come.
LEMMA RedirectSpendsHop ==
  ASSUME HopsInv, NEW path \in Paths, NEW oauth \in OAuth, Gated, inside,
         Redirect(GET(path, oauth)),
         token' \in {"none", "verified", "invalid"}, consented' \in BOOLEAN,
         registered' = registered, inside' = inside,
         1 + MostHops("GET", path, oauth)' <= MostHops(asking.method, asking.path, asking.oauth)
  PROVE  HopsInv'
<1>1. /\ hops \in Nat /\ hops' = hops + 1 /\ asking' = GET(path, oauth) /\ shown' = shown
      /\ hops + MostHops(asking.method, asking.path, asking.oauth) <= 4
  BY DEF Redirect, Gated, HopsInv, PagesTypeOK
<1>2. MostHops("GET", path, oauth)' \in 0..3 /\ MostHops(asking.method, asking.path, asking.oauth) \in 0..3
  BY DEF MostHops
<1>3. hops' + MostHops("GET", path, oauth)' <= 4 /\ hops' <= 4 /\ hops' \in Nat
  BY <1>1, <1>2
<1>4. /\ asking' \in Askings /\ asking'.path # "/waiting"
      /\ MostHops(asking.method, asking.path, asking.oauth)' = MostHops("GET", path, oauth)'
  BY <1>1, GETTypes
<1> QED BY <1>1, <1>3, <1>4 DEF HopsInv, PagesTypeOK

LEMMA RoomSpendsHops ==
  ASSUME HopsInv, TurnAway \/ LetIn \/ RoomDown \/ waiting_page
  PROVE  HopsInv'
<1>1. CASE TurnAway
  <2>1. /\ asking.path \in Paths /\ hops = 0
        /\ asking' = [method |-> "GET", path |-> "/waiting", target |-> asking.path]
        /\ hops' = hops + 1 /\ UNCHANGED <<registered, token, consented, inside, shown>>
    BY <1>1, AskingTypes DEF TurnAway, Gated, Redirect, HopsInv
  <2>2. asking' \in Askings /\ asking'.path = "/waiting"
    BY <2>1 DEF Askings
  <2> QED BY <2>1, <2>2 DEF HopsInv, PagesTypeOK
<1>2. CASE LetIn
  <2>1. /\ hops = 0 /\ hops' = 0 /\ asking' = asking /\ asking.path # "/waiting"
        /\ inside' = TRUE /\ UNCHANGED <<registered, token, consented, shown>>
    BY <1>2 DEF LetIn, Gated, HopsInv
  <2>2. MostHops(asking.method, asking.path, asking.oauth)' \in 0..3
    BY DEF MostHops
  <2> QED BY <2>1, <2>2 DEF HopsInv, PagesTypeOK
<1>3. CASE RoomDown
  <2>1. shown' \in Shown
    BY <1>3 DEF RoomDown, Render, Shown
  <2> QED BY <1>3, <2>1, PageEndsHops DEF RoomDown, Render, HopsInv, PagesTypeOK
<1>4. CASE waiting_page
  <2>1. asking.target \in Paths /\ hops <= 1 /\ hops \in Nat
    BY <1>4, AskingTypes DEF waiting_page, HopsInv, PagesTypeOK
  <2>2. CASE Admitted /\ Redirect(GET(asking.target, "no"))
    <3>1. /\ hops' = hops + 1 /\ inside' = TRUE /\ asking' = GET(asking.target, "no")
          /\ UNCHANGED <<registered, token, consented, shown>>
      BY <1>4, <2>2 DEF waiting_page, Admitted, Redirect
    <3>2. /\ asking' \in Askings /\ asking'.path # "/waiting"
          /\ asking'.method = "GET" /\ asking'.oauth = "no"
      BY <2>1, <3>1, GETTypes DEF OAuth
    <3>3. MostHops("GET", asking.path, "no")' \in 0..2
      BY DEF MostHops
    <3> QED BY <2>1, <3>1, <3>2, <3>3 DEF HopsInv, PagesTypeOK
  <2>3. CASE /\ ~inside /\ UNCHANGED <<inside, hops>>
             /\ asking' = Nowhere
             /\ shown' = [page |-> "waiting", target |-> asking.target]
    <3>1. shown' \in Shown
      BY <2>1, <2>3 DEF Shown
    <3> QED BY <1>4, <2>3, <3>1, PageEndsHops DEF waiting_page, HopsInv, PagesTypeOK
  <2> QED BY <1>4, <2>2, <2>3 DEF waiting_page
<1> QED BY <1>1, <1>2, <1>3, <1>4

\* One step per handler: it renders a page, or redirects to a page from which
\* fewer redirects can follow.
LEMMA HandlersSpendHops ==
  ASSUME HopsInv,
         \/ home \/ login_page \/ root \/ login \/ signup \/ signup_page
         \/ consent_page \/ consent \/ payment \/ logout \/ MethodNotAllowed
  PROVE  HopsInv'
<1> USE DEF Asks, PagesTypeOK
<1>1. /\ token \in {"none", "verified", "invalid"} /\ consented \in BOOLEAN
      /\ {"/home", "/login", "/consent"} \subseteq Paths /\ {"no", "other"} \subseteq OAuth
  BY DEF HopsInv, Paths, OAuth
<1>2. \A page \in {"home", "signup", "consent", "external", "401", "405", "503", "blank"} :
        Render(page) => asking' = Nowhere /\ shown' \in Shown /\ hops' = hops
  BY DEF Render, Shown
<1>3. \A oauth \in OAuth : LoginForm(oauth) => asking' = Nowhere /\ shown' \in Shown /\ hops' = hops
  BY DEF LoginForm, Shown
<1>4. CASE home
  <2>1. Gated /\ inside /\ UNCHANGED <<registered, token, consented, inside>>
    BY <1>4 DEF home
  <2>2. CASE Render("home")
    BY <1>1, <1>2, <2>1, <2>2, PageEndsHops
  <2>3. CASE ~SignedIn /\ Redirect(GET("/login", "no"))
    <3>1. 1 + MostHops("GET", "/login", "no")' <= MostHops(asking.method, asking.path, asking.oauth)
      BY <1>4, <2>1, <2>3 DEF home, MostHops, SignedIn
    <3> QED BY <1>1, <2>1, <2>3, <3>1, RedirectSpendsHop
  <2> QED BY <1>4, <2>2, <2>3 DEF home
<1>5. CASE login_page
  <2>1. /\ Gated /\ inside /\ UNCHANGED <<registered, token, consented, inside>>
        /\ asking.method = "GET" /\ asking.path = "/login" /\ asking.oauth \in OAuth
    BY <1>5, AskingTypes DEF login_page, Gated, HopsInv
  <2>2. CASE LoginForm("client") \/ LoginForm(asking.oauth)
    BY <1>1, <1>3, <2>1, <2>2, PageEndsHops DEF OAuth
  <2>3. CASE asking.oauth = "other" /\ Redirect(GET("/login", "no"))
    <3>1. 1 + MostHops("GET", "/login", "no")' <= MostHops(asking.method, asking.path, asking.oauth)
      BY <2>1, <2>3 DEF MostHops, SignedIn
    <3> QED BY <1>1, <2>1, <2>3, <3>1, RedirectSpendsHop
  <2>4. CASE SignedIn /\ asking.oauth # "no" /\ Redirect(GET("/consent", "no"))
    <3>1. 1 + MostHops("GET", "/consent", "no")' <= MostHops(asking.method, asking.path, asking.oauth)
      BY <2>1, <2>4 DEF MostHops, SignedIn
    <3> QED BY <1>1, <2>1, <2>4, <3>1, RedirectSpendsHop
  <2>5. CASE SignedIn /\ Redirect(GET("/home", "no"))
    <3>1. 1 + MostHops("GET", "/home", "no")' <= MostHops(asking.method, asking.path, asking.oauth)
      BY <2>1, <2>5 DEF MostHops, SignedIn
    <3> QED BY <1>1, <2>1, <2>5, <3>1, RedirectSpendsHop
  <2> QED BY <1>5, <2>2, <2>3, <2>4, <2>5 DEF login_page, AlreadySignedIn
<1>6. CASE root
  BY <1>1, <1>2, <1>3, <1>6, PageEndsHops DEF root
<1>7. CASE login \/ signup
  <2>1. /\ Gated /\ inside /\ UNCHANGED <<registered, consented, inside>>
        /\ asking.method = "POST" /\ asking.path \in {"/login", "/signup"}
        /\ AfterLogin(asking.oauth) \/ AfterLogin("no")
    BY <1>7 DEF login, signup
  <2>2. MostHops(asking.method, asking.path, asking.oauth) = 3
    BY <2>1 DEF MostHops
  <2>3. /\ MostHops("GET", "/login", "no")' <= 2 /\ MostHops("GET", "/login", "no")' \in Nat
        /\ MostHops("GET", "/home", "no")' = 1
        /\ MostHops("GET", "/consent", "no")' = 2
    BY DEF MostHops
  <2>4. token' \in {"none", "verified", "invalid"}
    BY <1>1, <2>1 DEF AfterLogin
  <2>5. \E path \in {"/login", "/home", "/consent"} : Redirect(GET(path, "no"))
    BY <2>1 DEF AfterLogin
  <2> QED BY <1>1, <2>1, <2>2, <2>3, <2>4, <2>5, RedirectSpendsHop
<1>8. CASE signup_page
  <2>1. Gated /\ inside /\ UNCHANGED <<registered, token, consented, inside>>
    BY <1>8 DEF signup_page
  <2>2. CASE Render("signup")
    BY <1>1, <1>2, <2>1, <2>2, PageEndsHops
  <2>3. CASE Redirect(GET("/home", "no"))
    <3>1. 1 + MostHops("GET", "/home", "no")' <= MostHops(asking.method, asking.path, asking.oauth)
      BY <1>8 DEF signup_page, MostHops
    <3> QED BY <1>1, <2>1, <2>3, <3>1, RedirectSpendsHop
  <2> QED BY <1>8, <2>2, <2>3 DEF signup_page
<1>9. CASE consent_page
  <2>1. Gated /\ inside /\ UNCHANGED <<registered, token, consented, inside>>
    BY <1>9 DEF consent_page
  <2>2. CASE Render("external") \/ Render("consent")
    BY <1>1, <1>2, <2>1, <2>2, PageEndsHops
  <2>3. CASE ~SignedIn /\ Redirect(GET("/login", "other"))
    <3>1. 1 + MostHops("GET", "/login", "other")' <= MostHops(asking.method, asking.path, asking.oauth)
      BY <1>9, <2>1, <2>3 DEF consent_page, MostHops, SignedIn
    <3> QED BY <1>1, <2>1, <2>3, <3>1, RedirectSpendsHop
  <2> QED BY <1>9, <2>2, <2>3 DEF consent_page
<1>10. CASE consent \/ MethodNotAllowed
  BY <1>1, <1>2, <1>10, PageEndsHops DEF consent, MethodNotAllowed
<1>11. CASE payment
  <2>1. Gated /\ inside /\ UNCHANGED <<registered, token, consented, inside>>
    BY <1>11 DEF payment
  <2>2. CASE Render("401")
    BY <1>1, <1>2, <2>1, <2>2, PageEndsHops
  <2>3. CASE Redirect(GET("/home", "no"))
    <3>1. 1 + MostHops("GET", "/home", "no")' <= MostHops(asking.method, asking.path, asking.oauth)
      BY <1>11 DEF payment, MostHops
    <3> QED BY <1>1, <2>1, <2>3, <3>1, RedirectSpendsHop
  <2> QED BY <1>11, <2>2, <2>3 DEF payment
<1>12. CASE logout
  <2>1. /\ Gated /\ inside /\ UNCHANGED <<registered, inside>> /\ token' = "none"
        /\ consented' = FALSE /\ Redirect(GET("/login", "no"))
    BY <1>12 DEF logout
  <2>2. 1 + MostHops("GET", "/login", "no")' <= MostHops(asking.method, asking.path, asking.oauth)
    BY <1>12, <2>1 DEF logout, MostHops, SignedIn
  <2> QED BY <1>1, <2>1, <2>2, RedirectSpendsHop
<1> QED BY <1>4, <1>5, <1>6, <1>7, <1>8, <1>9, <1>10, <1>11, <1>12

\* Users start from a page; a token that lapses on the way leaves no more
\* redirects to come than before.
LEMMA UserKeepsHops ==
  ASSUME HopsInv, Click \/ TurnComes \/ Lapse
  PROVE  HopsInv'
<1>1. CASE Click
  <2>1. /\ asking' \in Askings /\ asking'.path # "/waiting" /\ hops' = 0
        /\ UNCHANGED <<registered, token, consented, inside, shown>>
    <3>1. shown \in Shown
      BY DEF HopsInv, PagesTypeOK
    <3>2. shown.page = "login" => shown.oauth \in OAuth
      BY <3>1 DEF Shown
    <3> QED BY <1>1, <3>2 DEF Click, UserAsks, GET, POST, Askings, Paths, OAuth
  <2>2. MostHops(asking.method, asking.path, asking.oauth)' \in 0..3
    BY DEF MostHops
  <2> QED BY <2>1, <2>2 DEF HopsInv, PagesTypeOK
<1>2. CASE TurnComes
  <2>1. shown.target \in Paths
    BY <1>2 DEF TurnComes, HopsInv, PagesTypeOK, Shown
  <2>2. /\ asking' \in Askings /\ asking'.path # "/waiting" /\ hops' = 0 /\ inside' = TRUE
        /\ UNCHANGED <<registered, token, consented, shown>>
    BY <1>2, <2>1, GETTypes DEF TurnComes, OAuth
  <2>3. MostHops(asking.method, asking.path, asking.oauth)' \in 0..3
    BY DEF MostHops
  <2> QED BY <2>2, <2>3 DEF HopsInv, PagesTypeOK
<1>3. CASE Lapse
  <2>1. CASE asking = Nowhere /\ inside' = FALSE /\ UNCHANGED token
    BY <1>3, <2>1 DEF Lapse, HopsInv, PagesTypeOK
  <2>2. CASE token' \in {"none", "invalid"} /\ UNCHANGED inside
    <3>1. UNCHANGED <<registered, consented, asking, shown, hops>>
      BY <1>3 DEF Lapse
    <3>2. /\ MostHops(asking.method, asking.path, asking.oauth)' \in 0..3
          /\ MostHops(asking.method, asking.path, asking.oauth) \in 0..3
          /\ MostHops(asking.method, asking.path, asking.oauth)'
               <= MostHops(asking.method, asking.path, asking.oauth)
      BY <2>2, <3>1 DEF MostHops, SignedIn
    <3> QED BY <2>2, <3>1, <3>2 DEF HopsInv, PagesTypeOK
  <2> QED BY <1>3, <2>1, <2>2 DEF Lapse
<1> QED BY <1>1, <1>2, <1>3

LEMMA HopsInductive == PagesSpec => []HopsInv
<1>1. PagesInit => HopsInv
  <2>1. [page |-> "blank"] \in Shown
    BY DEF Shown
  <2>2. PagesInit => shown \in Shown /\ asking \in Askings \cup {Nowhere}
    BY <2>1 DEF PagesInit
  <2>3. PagesInit => registered \in BOOLEAN /\ consented \in BOOLEAN /\ inside \in BOOLEAN
    BY Zenon DEF PagesInit
  <2>4. PagesInit => token \in {"none", "verified", "invalid"} /\ hops \in Nat
    BY DEF PagesInit
  <2>5. PagesInit => PagesTypeOK
    BY <2>2, <2>3, <2>4 DEF PagesTypeOK
  <2> QED BY <2>5 DEF PagesInit, HopsInv
<1>2. HopsInv /\ [PagesNext]_pageVars => HopsInv'
  <2> SUFFICES ASSUME HopsInv, [PagesNext]_pageVars PROVE HopsInv'
    OBVIOUS
  <2>1. CASE UNCHANGED pageVars
    BY <2>1 DEF pageVars, HopsInv, PagesTypeOK, MostHops, SignedIn
  <2> QED BY <2>1, RoomSpendsHops, HandlersSpendHops, UserKeepsHops DEF PagesNext, Handler
<1> QED BY <1>1, <1>2, PTL DEF PagesSpec

\* A browser is never sent round in a circle: no click is followed by more than
\* four redirects, even if the token lapses between two of them and the click
\* first had to wait.
THEOREM NoRedirectLoop == PagesSpec => []RedirectsEnd
<1>1. HopsInv => RedirectsEnd
  BY DEF HopsInv, RedirectsEnd
<1> QED BY <1>1, HopsInductive, PTL

\* The types of the pages component.
THEOREM PagesTyped == PagesSpec => []PagesTypeOK
<1>1. HopsInv => PagesTypeOK
  BY DEF HopsInv
<1> QED BY <1>1, HopsInductive, PTL

-----------------------------------------------------------------------------
(* Request ids of the ledger writer *)

\* A call that stands at "201" has its id remembered by its pod, and a call that
\* was found to be new differs from all that stood there when it began, whatever
\* has been forgotten since.
UuidInv ==
  /\ writer = [c \in Calls |-> writer[c]]
  /\ seen = [p \in WriterPods |-> seen[p]]
  /\ \A c \in Calls : transfer[c].pod \in WriterPods
  /\ \A c \in Calls : writer[c] = "201" => transfer[c].uuid \in seen[transfer[c].pod]
  /\ \A c \in Calls : acknowledged[c] \subseteq Calls
  /\ rows \subseteq Calls
  /\ acknowledged = [c \in Calls |-> acknowledged[c]]
  /\ \A c \in Calls : writer[c] = "new" => c \notin rows
  /\ \A c \in Calls : c \in rows \/ writer[c] \in {"unique", "funded", "inserted", "committed"} =>
       \A d \in acknowledged[c] :
         transfer[c].pod = transfer[d].pod => transfer[c].uuid # transfer[d].uuid

LEMMA UuidInvStep == UuidInv /\ [LedgerNext]_ledgerVars => UuidInv'
<1> SUFFICES ASSUME UuidInv, [LedgerNext]_ledgerVars PROVE UuidInv'
  OBVIOUS
<1>1. ASSUME NEW c \in Calls, CheckRequest(c) PROVE UuidInv'
  <2>1. /\ writer[c] = "new" /\ UNCHANGED <<transfer, rows, seen>>
        /\ acknowledged' = [acknowledged EXCEPT ![c] = {d \in Calls : writer[d] = "201"}]
        /\ \/ writer' = [writer EXCEPT ![c] = "failed"]
           \/ IsNew(c) /\ writer' = [writer EXCEPT ![c] = "unique"]
    BY <1>1 DEF CheckRequest, CallIs
  <2>2. \A d \in Calls : writer[d] = "201" <=> writer'[d] = "201"
    BY <2>1 DEF UuidInv
  <2>3. writer'[c] = "unique" => \A d \in acknowledged'[c] :
          transfer[c].pod = transfer[d].pod => transfer[c].uuid # transfer[d].uuid
    BY <2>1 DEF UuidInv, IsNew
  <2>4. /\ writer' = [d \in Calls |-> writer'[d]]
        /\ acknowledged' = [d \in Calls |-> acknowledged'[d]]
        /\ \A d \in Calls \ {c} : writer'[d] = writer[d] /\ acknowledged'[d] = acknowledged[d]
        /\ acknowledged'[c] = {d \in Calls : writer[d] = "201"}
        /\ writer'[c] \in {"failed", "unique"}
    BY <2>1 DEF UuidInv
  <2>5. c \notin rows
    BY <2>1 DEF UuidInv
  <2>6. \A d \in Calls : acknowledged'[d] \subseteq Calls
    BY <2>4 DEF UuidInv
  <2>7. \A d \in Calls : writer'[d] = "201" => transfer[d].uuid \in seen[transfer[d].pod]
    BY <2>2 DEF UuidInv
  <2>8. \A d \in Calls : d \in rows \/ writer'[d] \in {"unique", "funded", "inserted", "committed"} =>
          \A e \in acknowledged'[d] :
            transfer[d].pod = transfer[e].pod => transfer[d].uuid # transfer[e].uuid
    <3>1. ASSUME NEW d \in Calls \ {c},
                 d \in rows \/ writer'[d] \in {"unique", "funded", "inserted", "committed"}
          PROVE  \A e \in acknowledged'[d] :
                   transfer[d].pod = transfer[e].pod => transfer[d].uuid # transfer[e].uuid
      BY <2>4, <3>1 DEF UuidInv
    <3> QED BY <2>3, <2>4, <2>5, <3>1
  <2>9. \A d \in Calls : writer'[d] = "new" => d \notin rows
    BY <2>4 DEF UuidInv
  <2>10. UNCHANGED <<transfer, rows, seen>>
    BY <2>1
  <2>11. /\ writer' = [d \in Calls |-> writer'[d]]
         /\ acknowledged' = [d \in Calls |-> acknowledged'[d]]
    BY <2>4
  <2>12. /\ seen = [p \in WriterPods |-> seen[p]]
         /\ \A d \in Calls : transfer[d].pod \in WriterPods
         /\ rows \subseteq Calls
    BY DEF UuidInv
  <2> QED BY <2>6, <2>7, <2>8, <2>9, <2>10, <2>11, <2>12 DEF UuidInv
<1>2. ASSUME NEW c \in Calls, CheckBalance(c) \/ CallFails(c) \/ InsertRow(c) PROVE UuidInv'
  <2>1. UNCHANGED <<transfer, rows, seen, acknowledged>>
    BY <1>2 DEF CheckBalance, CallFails, InsertRow
  <2>2. /\ writer[c] \in {"unique", "funded", "inserted"}
        /\ \E what \in {"funded", "failed", "inserted"} : writer' = [writer EXCEPT ![c] = what]
    BY <1>2 DEF CheckBalance, CallFails, InsertRow, CallIs
  <2>3. /\ writer' = [d \in Calls |-> writer'[d]]
        /\ writer'[c] \in {"funded", "failed", "inserted"}
        /\ \A d \in Calls \ {c} : writer'[d] = writer[d]
    BY <2>2 DEF UuidInv
  <2>4. \A d \in Calls : writer'[d] = "201" <=> writer[d] = "201"
    BY <2>2, <2>3
  <2>5. \A d \in Calls : writer'[d] = "new" => writer[d] = "new"
    BY <2>3
  <2>6. \A d \in Calls : writer'[d] \in {"unique", "funded", "inserted", "committed"} =>
          writer[d] \in {"unique", "funded", "inserted", "committed"}
    BY <2>2, <2>3
  <2> QED BY <2>1, <2>3, <2>4, <2>5, <2>6 DEF UuidInv
<1>3. ASSUME NEW c \in Calls, CommitRow(c) PROVE UuidInv'
  <2>1. /\ writer[c] = "inserted" /\ rows' = rows \cup {c}
        /\ \E what \in {"committed", "failed"} : writer' = [writer EXCEPT ![c] = what]
        /\ UNCHANGED <<transfer, seen, acknowledged>>
    BY <1>3 DEF CommitRow, CallIs
  <2> QED BY <2>1 DEF UuidInv
<1>4. ASSUME NEW c \in Calls, Acknowledge(c) PROVE UuidInv'
  <2>1. /\ writer[c] = "committed" /\ writer' = [writer EXCEPT ![c] = "201"]
        /\ seen' = [seen EXCEPT ![transfer[c].pod] = @ \cup {transfer[c].uuid}]
        /\ UNCHANGED <<transfer, rows, acknowledged>>
    BY <1>4 DEF Acknowledge, CallIs
  <2> QED BY <2>1 DEF UuidInv
<1>5. ASSUME NEW p \in WriterPods, NEW u \in Uuids, Forget(p, u) PROVE UuidInv'
  <2>1. /\ seen' = [seen EXCEPT ![p] = @ \ {u}]
        /\ writer' = [c \in Calls |->
                        IF writer[c] = "201" /\ transfer[c].pod = p /\ transfer[c].uuid = u
                          THEN "forgotten" ELSE writer[c]]
        /\ UNCHANGED <<transfer, rows, acknowledged>>
    BY <1>5 DEF Forget
  <2>2. \A c \in Calls : writer'[c] = writer[c] \/ (writer[c] = "201" /\ writer'[c] = "forgotten")
    BY <2>1
  <2>3. \A c \in Calls : writer'[c] = "201" => transfer[c].uuid \in seen'[transfer[c].pod]
    <3> SUFFICES ASSUME NEW c \in Calls, writer'[c] = "201"
                 PROVE  transfer[c].uuid \in seen'[transfer[c].pod]
      OBVIOUS
    <3>1. writer[c] = "201" /\ ~(transfer[c].pod = p /\ transfer[c].uuid = u)
      BY <2>1
    <3>2. transfer[c].uuid \in seen[transfer[c].pod] /\ transfer[c].pod \in WriterPods
      BY <3>1 DEF UuidInv
    <3> QED BY <2>1, <3>1, <3>2 DEF UuidInv
  <2>4. seen' = [q \in WriterPods |-> seen'[q]] /\ writer' = [c \in Calls |-> writer'[c]]
    BY <2>1 DEF UuidInv
  <2>5. \A c \in Calls : /\ writer'[c] = "new" => writer[c] = "new"
                        /\ writer'[c] \in {"unique", "funded", "inserted", "committed"} =>
                             writer[c] \in {"unique", "funded", "inserted", "committed"}
    BY <2>2
  <2> QED BY <2>1, <2>3, <2>4, <2>5 DEF UuidInv
<1>6. CASE \/ BeginLoad \/ EndLoad \/ Poll \/ Process \/ ReaderRestarts \/ ProcessOlder
           \/ UNCHANGED ledgerVars
  <2>1. UNCHANGED writerVars
    BY <1>6 DEF BeginLoad, EndLoad, Poll, Process, ReaderRestarts, ProcessOlder, ledgerVars,
                writerVars
  <2> QED BY <2>1 DEF writerVars, UuidInv
<1> QED BY <1>1, <1>2, <1>3, <1>4, <1>5, <1>6 DEF LedgerNext, CallStep

\* For any calls, pods and ids: a call books no request id that its pod had
\* acknowledged, and not yet forgotten, when the call began.
THEOREM BookedOnce == LedgerSpec => []AcknowledgedOnce
<1>1. LedgerInit => UuidInv
  BY DEF LedgerInit, UuidInv, Transfers
<1>2. UuidInv => AcknowledgedOnce
  BY DEF UuidInv, AcknowledgedOnce
<1> QED BY <1>1, <1>2, UuidInvStep, PTL DEF LedgerSpec

-----------------------------------------------------------------------------
(* Numbers: induction, and the largest of bounded numbers *)

LEMMA LeastNumber ==
  ASSUME NEW T \in SUBSET Nat, T # {}
  PROVE  \E n \in T : \A m \in T : n <= m
<1> DEFINE R == {ss \in Nat \X Nat : ss[1] < ss[2]}
<1>1. R = OpToRel(<, Nat)
  BY DEF OpToRel
<1>2. IsWellFoundedOn(R, Nat)
  BY <1>1, NatLessThanWellFounded
<1>3. PICK n \in T : \A m \in T : ~ (<<m, n>> \in R)
  BY <1>2, WFMin
<1>4. \A m \in T : m < n => <<m, n>> \in R
  OBVIOUS
<1> HIDE DEF R
<1>5. \A m \in T : ~ (m < n)
  BY <1>3, <1>4
<1>6. \A m \in T : m \in Nat /\ n \in Nat
  OBVIOUS
<1> QED BY <1>5, <1>6

\* Induction, for the set of the numbers that have a property.
LEMMA AllNumbers ==
  ASSUME NEW T \in SUBSET Nat, 0 \in T, \A n \in T : n + 1 \in T
  PROVE  T = Nat
<1> SUFFICES ASSUME Nat \ T # {} PROVE FALSE
  OBVIOUS
<1>1. PICK n \in Nat \ T : \A m \in Nat \ T : n <= m
  BY LeastNumber
<1>2. n # 0 /\ n - 1 \in Nat
  BY <1>1
<1>3. n - 1 \in T
  BY <1>1, <1>2
<1>4. (n - 1) + 1 \in T
  BY <1>3
<1> QED BY <1>1, <1>4

\* Numbers below a bound have a largest one, which is what Max chooses.
LEMMA MaxOfBounded ==
  ASSUME NEW T \in SUBSET Nat, T # {}, NEW b \in Nat, \A x \in T : x <= b
  PROVE  Max(T) \in T /\ \A x \in T : x <= Max(T)
<1> DEFINE gaps == {b - x : x \in T}
<1>1. gaps \in SUBSET Nat /\ gaps # {}
  <2>1. \A x \in T : b - x \in Nat
    OBVIOUS
  <2> QED BY <2>1
<1>2. PICK g \in gaps : \A h \in gaps : g <= h
  BY <1>1, LeastNumber
<1>3. PICK x \in T : g = b - x
  BY <1>2
<1>4. \A y \in T : x >= y
  <2> TAKE y \in T
  <2>1. g <= b - y
    BY <1>2
  <2> QED BY <1>3, <2>1
<1>5. Max(T) \in T /\ \A y \in T : Max(T) >= y
  BY <1>4 DEF Max
<1>6. \A y \in T : y \in Nat
  OBVIOUS
<1> QED BY <1>5, <1>6

-----------------------------------------------------------------------------
(* Sums over finite sets: what MapThenSumSet computes, for amounts given by  *)
(* a function.  The recursion takes out one element after the other.         *)

OneOf(s) == CHOOSE x \in s : TRUE

Sums(f, S) ==
  CHOOSE sum : sum = [s \in SUBSET S |-> IF s = {} THEN 0 ELSE f[OneOf(s)] + sum[s \ {OneOf(s)}]]

SumOver(f, S) == Sums(f, S)[S]

LEMMA OneLess ==
  ASSUME NEW s, IsFiniteSet(s), s # {}
  PROVE  /\ OneOf(s) \in s
         /\ IsFiniteSet(s \ {OneOf(s)})
         /\ Cardinality(s) \in Nat
         /\ Cardinality(s \ {OneOf(s)}) \in Nat
         /\ Cardinality(s) = Cardinality(s \ {OneOf(s)}) + 1
<1>1. OneOf(s) \in s
  BY DEF OneOf
<1>2. Cardinality(s) \in Nat /\ Cardinality(s \ {OneOf(s)}) = Cardinality(s) - 1
      /\ IsFiniteSet(s \ {OneOf(s)})
  BY <1>1, FS_RemoveElement, FS_CardinalityType
<1>3. Cardinality(s \ {OneOf(s)}) \in Nat
  BY <1>2, FS_CardinalityType
<1> QED BY <1>1, <1>2, <1>3

\* The recursion has a solution: one for the subsets of at most n elements gives
\* one for those of n + 1.
LEMMA SumsRecursion ==
  ASSUME NEW f, NEW S, IsFiniteSet(S), NEW s \in SUBSET S
  PROVE  Sums(f, S)[s] = IF s = {} THEN 0 ELSE f[OneOf(s)] + Sums(f, S)[s \ {OneOf(s)}]
<1> DEFINE Part(n) == {t \in SUBSET S : Cardinality(t) <= n}
           Step(g, t) == IF t = {} THEN 0 ELSE f[OneOf(t)] + g[t \ {OneOf(t)}]
           Solved == {n \in Nat : \E g : \A t \in Part(n) : g[t] = Step(g, t)}
<1>1. \A t \in SUBSET S : IsFiniteSet(t) /\ Cardinality(t) \in Nat
  BY FS_Subset, FS_CardinalityType
<1>2. 0 \in Solved
  <2>1. \A t \in Part(0) : t = {}
    BY <1>1, FS_EmptySet
  <2>2. \A t \in Part(0) : [u \in SUBSET S |-> 0][t] = Step([u \in SUBSET S |-> 0], t)
    BY <2>1
  <2> QED BY <2>2
<1>3. ASSUME NEW n \in Solved PROVE n + 1 \in Solved
  <2>1. PICK g : \A t \in Part(n) : g[t] = Step(g, t)
    OBVIOUS
  <2> DEFINE h == [t \in SUBSET S |-> Step(g, t)]
  <2>2. \A t \in Part(n) : h[t] = g[t]
    BY <2>1
  <2>3. \A t \in Part(n + 1) : t # {} => t \ {OneOf(t)} \in Part(n)
    BY <1>1, OneLess
  <2>4. \A t \in Part(n + 1) : h[t] = Step(g, t)
    OBVIOUS
  <2> HIDE DEF h, Part
  <2>5. \A t \in Part(n + 1) : Step(g, t) = Step(h, t)
    BY <2>2, <2>3
  <2>6. \A t \in Part(n + 1) : h[t] = Step(h, t)
    BY <2>4, <2>5
  <2>7. \E k : \A t \in Part(n + 1) : k[t] = Step(k, t)
    BY <2>6
  <2>8. n + 1 \in Nat
    OBVIOUS
  <2> QED BY <2>7, <2>8
<1>4. Solved = Nat
  BY <1>2, <1>3, AllNumbers
<1>5. PICK g : \A t \in SUBSET S : g[t] = Step(g, t)
  <2>1. Cardinality(S) \in Solved
    BY <1>4, FS_CardinalityType
  <2>2. \A t \in SUBSET S : t \in Part(Cardinality(S))
    BY FS_Subset
  <2> QED BY <2>1, <2>2
<1> DEFINE G == [t \in SUBSET S |-> g[t]]
<1>6. G = [t \in SUBSET S |-> Step(G, t)]
  <2>1. \A t \in SUBSET S : Step(G, t) = Step(g, t)
    OBVIOUS
  <2> QED BY <1>5, <2>1
<1>7. Sums(f, S) = [t \in SUBSET S |-> Step(Sums(f, S), t)]
  <2> HIDE DEF G
  <2> QED BY <1>6 DEF Sums
<1> QED BY <1>7

\* The sum over a set does not depend on the set whose subsets are summed up.
LEMMA SumsAgree ==
  ASSUME NEW f, NEW S, IsFiniteSet(S), NEW s \in SUBSET S
  PROVE  Sums(f, S)[s] = SumOver(f, s)
<1> DEFINE Same(n) == \A T \in SUBSET S : \A t \in SUBSET T :
                        Cardinality(t) = n => Sums(f, T)[t] = SumOver(f, t)
           Good == {n \in Nat : Same(n)}
<1>1. \A t \in SUBSET S : IsFiniteSet(t) /\ Cardinality(t) \in Nat
  BY FS_Subset, FS_CardinalityType
<1>2. 0 \in Good
  <2>1. ASSUME NEW T \in SUBSET S, NEW t \in SUBSET T, Cardinality(t) = 0
        PROVE  Sums(f, T)[t] = SumOver(f, t)
    <3>1. t = {}
      BY <1>1, <2>1, FS_EmptySet
    <3>2. Sums(f, T)[t] = 0 /\ Sums(f, t)[t] = 0
      BY <1>1, <3>1, SumsRecursion
    <3> QED BY <3>2 DEF SumOver
  <2> QED BY <2>1
<1>3. ASSUME NEW n \in Good PROVE n + 1 \in Good
  <2>1. ASSUME NEW T \in SUBSET S, NEW t \in SUBSET T, Cardinality(t) = n + 1
        PROVE  Sums(f, T)[t] = SumOver(f, t)
    <3> DEFINE u == t \ {OneOf(t)}
    <3>1. t # {}
      BY <2>1, FS_EmptySet
    <3>2. Cardinality(u) = n /\ u \in SUBSET T /\ u \in SUBSET t /\ t \in SUBSET S
      BY <1>1, <2>1, <3>1, OneLess
    <3>3. Sums(f, T)[u] = SumOver(f, u) /\ Sums(f, t)[u] = SumOver(f, u)
      BY <3>2
    <3>4. IsFiniteSet(T) /\ IsFiniteSet(t) /\ t \in SUBSET t
      BY <1>1, <3>2
    <3>5. Sums(f, T)[t] = f[OneOf(t)] + Sums(f, T)[u]
      BY <3>1, <3>4, SumsRecursion
    <3>6. Sums(f, t)[t] = f[OneOf(t)] + Sums(f, t)[u]
      BY <3>1, <3>4, SumsRecursion
    <3> QED BY <3>3, <3>5, <3>6 DEF SumOver
  <2> QED BY <2>1
<1>4. Good = Nat
  BY <1>2, <1>3, AllNumbers
<1>5. Same(Cardinality(s))
  BY <1>1, <1>4
<1> QED BY <1>5

LEMMA SumOverStep ==
  ASSUME NEW f, NEW S, IsFiniteSet(S)
  PROVE  SumOver(f, S) = IF S = {} THEN 0 ELSE f[OneOf(S)] + SumOver(f, S \ {OneOf(S)})
<1>1. S # {} => Sums(f, S)[S \ {OneOf(S)}] = SumOver(f, S \ {OneOf(S)})
  BY SumsAgree
<1> QED BY <1>1, SumsRecursion DEF SumOver

LEMMA SumOverType ==
  ASSUME NEW C, NEW f \in [C -> Int], NEW S \in SUBSET C, IsFiniteSet(S)
  PROVE  SumOver(f, S) \in Int
<1> DEFINE Good == {n \in Nat : \A T \in SUBSET S : Cardinality(T) = n => SumOver(f, T) \in Int}
<1>1. \A t \in SUBSET S : IsFiniteSet(t) /\ Cardinality(t) \in Nat
  BY FS_Subset, FS_CardinalityType
<1>2. 0 \in Good
  <2>1. \A T \in SUBSET S : Cardinality(T) = 0 => SumOver(f, T) = 0
    BY <1>1, FS_EmptySet, SumOverStep
  <2> QED BY <2>1
<1>3. ASSUME NEW n \in Good PROVE n + 1 \in Good
  <2>1. ASSUME NEW T \in SUBSET S, Cardinality(T) = n + 1 PROVE SumOver(f, T) \in Int
    <3>1. T # {} /\ IsFiniteSet(T)
      BY <1>1, <2>1, FS_EmptySet
    <3>2. Cardinality(T \ {OneOf(T)}) = n /\ OneOf(T) \in T
      <4>1. n \in Nat
        OBVIOUS
      <4>2. /\ OneOf(T) \in T /\ Cardinality(T \ {OneOf(T)}) \in Nat
            /\ Cardinality(T) = Cardinality(T \ {OneOf(T)}) + 1
        BY <3>1, OneLess
      <4> HIDE DEF Good
      <4> QED BY <2>1, <4>1, <4>2
    <3>3. SumOver(f, T \ {OneOf(T)}) \in Int /\ f[OneOf(T)] \in Int
      BY <3>2
    <3> QED BY <3>1, <3>3, SumOverStep
  <2> QED BY <2>1
<1>4. Good = Nat
  BY <1>2, <1>3, AllNumbers
<1> QED BY <1>1, <1>4

\* Any element can be taken out first.
LEMMA SumOverRemove ==
  ASSUME NEW C, NEW f \in [C -> Int], NEW S \in SUBSET C, IsFiniteSet(S), NEW c \in S
  PROVE  SumOver(f, S) = f[c] + SumOver(f, S \ {c})
<1> DEFINE Good == {n \in Nat : \A T \in SUBSET S : Cardinality(T) = n =>
                      \A d \in T : SumOver(f, T) = f[d] + SumOver(f, T \ {d})}
<1>1. \A t \in SUBSET S : IsFiniteSet(t) /\ Cardinality(t) \in Nat /\ SumOver(f, t) \in Int
  BY FS_Subset, FS_CardinalityType, SumOverType
<1>2. 0 \in Good
  BY <1>1, FS_EmptySet
<1>3. ASSUME NEW n \in Good PROVE n + 1 \in Good
  <2>1. ASSUME NEW T \in SUBSET S, Cardinality(T) = n + 1, NEW d \in T
        PROVE  SumOver(f, T) = f[d] + SumOver(f, T \ {d})
    <3> DEFINE e == OneOf(T)
    <3>1. /\ e \in T /\ Cardinality(T \ {e}) = n
          /\ SumOver(f, T) = f[e] + SumOver(f, T \ {e})
      <4>1. n \in Nat /\ IsFiniteSet(T) /\ T # {}
        BY <1>1
      <4>2. e \in T /\ Cardinality(T \ {e}) \in Nat /\ Cardinality(T) = Cardinality(T \ {e}) + 1
        BY <4>1, OneLess
      <4>3. SumOver(f, T) = f[e] + SumOver(f, T \ {e})
        BY <4>1, SumOverStep
      <4> HIDE DEF Good, e
      <4> QED BY <2>1, <4>1, <4>2, <4>3
    <3>2. CASE d = e
      BY <3>1, <3>2
    <3>3. CASE d # e
      <4> HIDE DEF e
      <4> DEFINE U == (T \ {e}) \ {d}
      <4>1. SumOver(f, T \ {e}) = f[d] + SumOver(f, U)
        BY <3>1, <3>3
      <4>2. Cardinality(T \ {d}) = n
        BY <1>1, <2>1, FS_RemoveElement
      <4>3. e \in T \ {d} /\ (T \ {d}) \ {e} = U
        BY <3>1, <3>3
      <4>4. SumOver(f, T \ {d}) = f[e] + SumOver(f, U)
        BY <4>2, <4>3
      <4>5. f[d] \in Int /\ f[e] \in Int /\ SumOver(f, U) \in Int
        BY <1>1, <2>1, <3>1
      <4> QED BY <3>1, <4>1, <4>4, <4>5
    <3> QED BY <3>2, <3>3
  <2> QED BY <2>1
<1>4. Good = Nat
  BY <1>2, <1>3, AllNumbers
<1> QED BY <1>1, <1>4

\* Amounts that are not negative do not make a sum smaller.
LEMMA SumOverGrows ==
  ASSUME NEW C, NEW f \in [C -> Int], NEW S \in SUBSET C, IsFiniteSet(S),
         NEW T \in SUBSET S, \A c \in S \ T : f[c] >= 0
  PROVE  SumOver(f, T) <= SumOver(f, S)
<1> DEFINE Good == {n \in Nat : \A U \in SUBSET S : T \subseteq U /\ Cardinality(U \ T) = n =>
                      SumOver(f, T) <= SumOver(f, U)}
<1>1. \A t \in SUBSET S : IsFiniteSet(t) /\ Cardinality(t) \in Nat /\ SumOver(f, t) \in Int
  BY FS_Subset, FS_CardinalityType, SumOverType
<1>2. 0 \in Good
  <2>1. ASSUME NEW U \in SUBSET S, T \subseteq U, Cardinality(U \ T) = 0
        PROVE  SumOver(f, T) <= SumOver(f, U)
    <3>1. U = T
      BY <1>1, <2>1, FS_EmptySet
    <3> QED BY <1>1, <3>1
  <2> QED BY <2>1
<1>3. ASSUME NEW n \in Good PROVE n + 1 \in Good
  <2>1. ASSUME NEW U \in SUBSET S, T \subseteq U, Cardinality(U \ T) = n + 1
        PROVE  SumOver(f, T) <= SumOver(f, U)
    <3>1. PICK c \in U \ T : TRUE
      BY <2>1, FS_EmptySet
    <3>2. Cardinality((U \ T) \ {c}) = n
      <4>1. n \in Nat /\ IsFiniteSet(U \ T) /\ c \in U \ T
        BY <1>1, <3>1
      <4>2. Cardinality((U \ T) \ {c}) = Cardinality(U \ T) - 1
        BY <4>1, FS_RemoveElement
      <4> HIDE DEF Good
      <4> QED BY <2>1, <4>1, <4>2
    <3>3. (U \ {c}) \ T = (U \ T) \ {c} /\ T \subseteq U \ {c}
      BY <2>1, <3>1
    <3>4. SumOver(f, T) <= SumOver(f, U \ {c})
      BY <3>2, <3>3
    <3>5. SumOver(f, U) = f[c] + SumOver(f, U \ {c})
      BY <1>1, SumOverRemove
    <3>6. f[c] \in Int /\ f[c] >= 0 /\ SumOver(f, U \ {c}) \in Int /\ SumOver(f, T) \in Int
      BY <1>1, <3>1
    <3> QED BY <3>4, <3>5, <3>6
  <2> QED BY <2>1
<1>4. Good = Nat
  BY <1>2, <1>3, AllNumbers
<1> QED BY <1>1, <1>4

-----------------------------------------------------------------------------
(* Balances *)

Effects == [c \in Calls |-> Effect(c)]

\* The balance of the model is a sum of the kind above.
LEMMA BalanceIsSum ==
  ASSUME NEW S \in SUBSET Calls
  PROVE  Balance(S) = Opening + SumOver(Effects, S)
<1> DEFINE g1(sum) == [s \in SUBSET S |-> IF s = {} THEN 0 ELSE Effect(OneOf(s)) + sum[s \ {OneOf(s)}]]
           g2(sum) == [s \in SUBSET S |-> IF s = {} THEN 0 ELSE Effects[OneOf(s)] + sum[s \ {OneOf(s)}]]
<1>1. ASSUME NEW sum PROVE g1(sum) = g2(sum)
  <2>1. \A s \in SUBSET S : s # {} => OneOf(s) \in Calls
    BY DEF OneOf
  <2>2. \A s \in SUBSET S : s # {} => Effects[OneOf(s)] = Effect(OneOf(s))
    BY <2>1 DEF Effects
  <2> QED BY <2>2
<1>2. MapThenSumSet(Effect, S) = (CHOOSE sum : sum = g1(sum))[S]
  BY Zenon DEF MapThenSumSet, MapThenFoldSet, OneOf
<1>3. SumOver(Effects, S) = (CHOOSE sum : sum = g2(sum))[S]
  BY Zenon DEF SumOver, Sums
<1> HIDE DEF g1, g2
<1>4. (CHOOSE sum : sum = g1(sum)) = (CHOOSE sum : sum = g2(sum))
  BY <1>1
<1> QED BY <1>2, <1>3, <1>4 DEF Balance

\* What the calls ask for never changes, so a balance changes only with its rows.
LEMMA BalanceKept ==
  ASSUME transfer' = transfer, NEW S
  PROVE  Balance(S)' = Balance(S)
BY DEF Balance, Effect, MapThenSumSet, MapThenFoldSet

LEMMA EffectTypes ==
  ASSUME transfer \in [Calls -> Transfers], NEW c \in Calls
  PROVE  /\ transfer[c].debit \in BOOLEAN /\ transfer[c].amount \in 1..MaxAmount
         /\ transfer[c].uuid \in Uuids /\ transfer[c].pod \in WriterPods
         /\ transfer[c].amount \in Nat
         /\ transfer[c].debit => Effect(c) = -transfer[c].amount
         /\ ~transfer[c].debit => Effect(c) = transfer[c].amount
         /\ Effect(c) \in Int
         /\ Effects[c] = Effect(c)
<1>1. transfer[c] \in Transfers
  OBVIOUS
<1>2. /\ transfer[c].debit \in BOOLEAN /\ transfer[c].amount \in 1..MaxAmount
      /\ transfer[c].uuid \in Uuids /\ transfer[c].pod \in WriterPods
  BY <1>1 DEF Transfers
<1>3. transfer[c].amount \in Nat /\ -transfer[c].amount \in Int
  BY <1>2, LedgerAssumption
<1>4. Effects[c] = Effect(c)
  BY DEF Effects
<1> QED BY <1>2, <1>3, <1>4 DEF Effect

LEMMA EffectsType ==
  ASSUME transfer \in [Calls -> Transfers]
  PROVE  Effects \in [Calls -> Int]
<1>1. \A c \in Calls : Effect(c) \in Int
  BY EffectTypes
<1> QED BY <1>1 DEF Effects

LEMMA BalanceTypes ==
  ASSUME transfer \in [Calls -> Transfers], NEW S \in SUBSET Calls, IsFiniteSet(S)
  PROVE  Balance(S) \in Int
<1>1. SumOver(Effects, S) \in Int
  BY EffectsType, SumOverType
<1> QED BY <1>1, BalanceIsSum, LedgerAssumption

LEMMA BalanceOfNothing == Balance({}) = Opening
<1>1. SumOver(Effects, {}) = 0
  BY FS_EmptySet, SumOverStep
<1> QED BY <1>1, BalanceIsSum, LedgerAssumption

\* A row more changes the balance by its amount.
LEMMA BalanceAdd ==
  ASSUME transfer \in [Calls -> Transfers], NEW S \in SUBSET Calls, IsFiniteSet(S),
         NEW c \in Calls \ S
  PROVE  Balance(S \cup {c}) = Balance(S) + Effect(c)
<1>1. IsFiniteSet(S \cup {c}) /\ (S \cup {c}) \ {c} = S /\ S \cup {c} \in SUBSET Calls
  BY FS_AddElement
<1>2. SumOver(Effects, S \cup {c}) = Effects[c] + SumOver(Effects, S)
  <2> DEFINE T == S \cup {c}
  <2>1. c \in T /\ IsFiniteSet(T) /\ T \in SUBSET Calls /\ T \ {c} = S
    BY <1>1
  <2> HIDE DEF T
  <2>2. SumOver(Effects, T) = Effects[c] + SumOver(Effects, T \ {c})
    BY <2>1, EffectsType, SumOverRemove
  <2> QED BY <2>1, <2>2 DEF T
<1>3. /\ SumOver(Effects, S) \in Int /\ Effects[c] = Effect(c) /\ Effect(c) \in Int
      /\ Opening \in Int
  BY EffectsType, EffectTypes, SumOverType, LedgerAssumption
<1>4. /\ Balance(S) = Opening + SumOver(Effects, S)
      /\ Balance(S \cup {c}) = Opening + SumOver(Effects, S \cup {c})
  BY <1>1, BalanceIsSum
<1> QED BY <1>2, <1>3, <1>4

\* Rows that are missing in a balance and are all deposits make it too small.
LEMMA BalanceGrows ==
  ASSUME transfer \in [Calls -> Transfers], NEW S \in SUBSET Calls, IsFiniteSet(S),
         NEW T \in SUBSET S, \A c \in S \ T : ~transfer[c].debit
  PROVE  Balance(T) <= Balance(S)
<1>1. \A c \in S \ T : Effects[c] >= 0
  BY EffectTypes
<1>2. SumOver(Effects, T) <= SumOver(Effects, S)
  BY <1>1, EffectsType, SumOverGrows
<1>3. SumOver(Effects, T) \in Int /\ SumOver(Effects, S) \in Int
  BY EffectsType, SumOverType, FS_Subset
<1>4. Balance(T) = Opening + SumOver(Effects, T) /\ Balance(S) = Opening + SumOver(Effects, S)
  BY BalanceIsSum
<1> QED BY <1>2, <1>3, <1>4, LedgerAssumption

-----------------------------------------------------------------------------
(* Rows and their ids *)

\* A call has an id from its insertion on and a row from its commit on; ids are
\* distinct, latest is that of a row, and what was polled lies above it.
IdInv ==
  /\ IsFiniteSet(rows)
  /\ \A c \in Calls : writer[c] \in {"new", "unique", "funded"} => rowId[c] = 0
  /\ \A c \in Calls : writer[c] = "inserted" => rowId[c] > Older
  /\ \A c \in Calls : writer[c] \in {"new", "unique", "funded", "inserted"} => c \notin rows
  /\ \A c \in Calls : rowId[c] <= lastId
  /\ \A c, d \in Calls : rowId[c] = rowId[d] => c = d \/ rowId[c] = 0
  /\ latest <= lastId
  /\ latest <= Older \/ \E c \in rows : rowId[c] = latest
  /\ Older <= lastId /\ \A c \in rows : rowId[c] > Older
  /\ \A c \in polled : rowId[c] > latest

\* The largest of some ids and a number.
LEMMA Highest ==
  ASSUME NEW low \in Nat, NEW id \in [Calls -> Nat], NEW S \in SUBSET Calls,
         NEW b \in Nat, low <= b, \A c \in S : id[c] <= b
  PROVE  LET h == Max({low} \cup {id[c] : c \in S})
         IN  /\ h \in Nat /\ low <= h /\ h <= b
             /\ \A c \in S : id[c] <= h
             /\ h = low \/ \E c \in S : id[c] = h
<1> DEFINE T == {low} \cup {id[c] : c \in S}
<1>1. T \in SUBSET Nat /\ T # {} /\ \A x \in T : x <= b
  OBVIOUS
<1>2. Max(T) \in T /\ \A x \in T : x <= Max(T)
  <2> HIDE DEF T
  <2> QED BY <1>1, MaxOfBounded
<1>3. low \in T /\ \A c \in S : id[c] \in T
  OBVIOUS
<1> QED BY <1>1, <1>2, <1>3

LEMMA HorizonTypes ==
  ASSUME LedgerTypeOK, IdInv
  PROVE  /\ Horizon \in Nat /\ latest <= Horizon
         /\ \A c \in polled : rowId[c] <= Horizon
         /\ Horizon = latest \/ \E c \in polled : rowId[c] = Horizon
<1>1. /\ latest \in Nat /\ rowId \in [Calls -> Nat] /\ polled \in SUBSET Calls
      /\ lastId \in Nat /\ latest <= lastId /\ \A c \in polled : rowId[c] <= lastId
  BY DEF LedgerTypeOK, IdInv
<1> QED BY <1>1, Highest DEF Horizon

\* The types of what the writer and what the reader keeps.
WriterTypes ==
  /\ transfer \in [Calls -> Transfers]
  /\ writer \in [Calls -> Stages]
  /\ rowId \in [Calls -> Nat] /\ lastId \in Nat
  /\ rows \subseteq Calls
  /\ seen \in [WriterPods -> SUBSET Uuids]
  /\ acknowledged \in [Calls -> SUBSET Calls]
  /\ raced \in BOOLEAN

ReaderTypes ==
  /\ polled \subseteq rows
  /\ cached \in Int \cup {Uncached}
  /\ loading \subseteq rows /\ loads \in BOOLEAN
  /\ latest \in Nat
  /\ drifted \in BOOLEAN

LEMMA TypeParts == LedgerTypeOK <=> WriterTypes /\ ReaderTypes
BY DEF LedgerTypeOK, WriterTypes, ReaderTypes

\* Steps of a call that neither insert nor commit a row.
LEMMA CallKeepsRows ==
  ASSUME LedgerTypeOK, IdInv, NEW c \in Calls,
         CheckRequest(c) \/ CheckBalance(c) \/ CallFails(c) \/ Acknowledge(c)
  PROVE  LedgerTypeOK' /\ IdInv'
<1>1. /\ UNCHANGED <<transfer, rowId, lastId, rows, readerVars, drifted>>
      /\ \E what \in {"unique", "funded", "201", "failed"} :
           /\ writer' = [writer EXCEPT ![c] = what]
           /\ what = "unique" => writer[c] = "new"
           /\ what = "funded" => writer[c] = "unique"
  BY DEF CheckRequest, CheckBalance, CallFails, Acknowledge, CallIs
<1>2. acknowledged' \in [Calls -> SUBSET Calls]
  BY DEF CheckRequest, CheckBalance, CallFails, Acknowledge, LedgerTypeOK
<1>3. seen' \in [WriterPods -> SUBSET Uuids]
  <2>1. CASE Acknowledge(c)
    <3>1. transfer[c].uuid \in Uuids /\ transfer[c].pod \in WriterPods
      BY EffectTypes DEF LedgerTypeOK
    <3> QED BY <2>1, <3>1 DEF Acknowledge, LedgerTypeOK
  <2>2. CASE seen' = seen
    BY <2>2 DEF LedgerTypeOK
  <2> QED BY <2>1, <2>2 DEF CheckRequest, CheckBalance, CallFails
<1>4. raced' \in BOOLEAN
  BY DEF CheckRequest, CheckBalance, CallFails, Acknowledge, LedgerTypeOK
<1>5. writer' \in [Calls -> Stages]
  BY <1>1 DEF LedgerTypeOK, Stages
<1>6. WriterTypes' /\ ReaderTypes'
  BY <1>1, <1>2, <1>3, <1>4, <1>5, TypeParts DEF WriterTypes, ReaderTypes, readerVars
<1>7. IdInv'
  BY <1>1, <1>5 DEF IdInv, LedgerTypeOK, readerVars
<1> QED BY <1>6, <1>7 DEF LedgerTypeOK, WriterTypes, ReaderTypes

LEMMA InsertKeepsRows ==
  ASSUME LedgerTypeOK, IdInv, NEW c \in Calls, InsertRow(c)
  PROVE  LedgerTypeOK' /\ IdInv'
<1>1. /\ writer[c] = "funded" /\ lastId' = lastId + 1
      /\ rowId' = [rowId EXCEPT ![c] = lastId + 1]
      /\ writer' = [writer EXCEPT ![c] = "inserted"]
      /\ UNCHANGED <<transfer, rows, seen, acknowledged, raced, drifted, readerVars>>
  BY DEF InsertRow, CallIs
<1>2. /\ rowId' \in [Calls -> Nat] /\ lastId' \in Nat /\ lastId \in Nat
      /\ writer' \in [Calls -> Stages]
  BY <1>1 DEF LedgerTypeOK, Stages
<1>3. WriterTypes' /\ ReaderTypes'
  BY <1>1, <1>2, TypeParts DEF WriterTypes, ReaderTypes, readerVars
<1>4. /\ c \notin rows /\ rowId'[c] = lastId + 1
      /\ \A d \in Calls \ {c} : rowId'[d] = rowId[d] /\ writer'[d] = writer[d]
      /\ writer'[c] = "inserted"
  BY <1>1 DEF IdInv, LedgerTypeOK
<1>5. \A d \in Calls : rowId[d] \in Nat /\ rowId[d] <= lastId
  BY DEF IdInv, LedgerTypeOK
<1>6. /\ \A d \in Calls : rowId'[d] <= lastId'
      /\ \A d, e \in Calls : rowId'[d] = rowId'[e] => d = e \/ rowId'[d] = 0
  <2>1. \A d \in Calls : rowId'[d] <= lastId'
    BY <1>1, <1>2, <1>4, <1>5
  <2>2. \A d \in Calls \ {c} : rowId'[d] # rowId'[c]
    BY <1>2, <1>4, <1>5
  <2>3. \A d, e \in Calls \ {c} : rowId'[d] = rowId'[e] => d = e \/ rowId'[d] = 0
    BY <1>4 DEF IdInv
  <2> QED BY <2>1, <2>2, <2>3
<1>7. polled' = polled /\ latest' = latest /\ polled \subseteq rows /\ rows \subseteq Calls
      /\ latest \in Nat
  BY <1>1 DEF readerVars, LedgerTypeOK
<1>8. /\ \A d \in rows : rowId'[d] > Older
      /\ Older <= lastId'
      /\ \A d \in polled : rowId'[d] > latest
      /\ latest <= Older \/ \E d \in rows : rowId'[d] = latest
      /\ latest <= lastId'
  BY <1>1, <1>2, <1>4, <1>7 DEF IdInv, Older
<1>9. /\ \A d \in Calls : writer'[d] \in {"new", "unique", "funded"} => rowId'[d] = 0
      /\ \A d \in Calls : writer'[d] = "inserted" => rowId'[d] > Older
      /\ \A d \in Calls : writer'[d] \in {"new", "unique", "funded", "inserted"} => d \notin rows
  <2>1. rowId'[c] > Older /\ c \notin rows /\ writer'[c] \notin {"new", "unique", "funded"}
    BY <1>2, <1>4 DEF IdInv, Older
  <2>2. \A d \in Calls \ {c} :
          /\ writer'[d] \in {"new", "unique", "funded"} => rowId'[d] = 0
          /\ writer'[d] = "inserted" => rowId'[d] > Older
          /\ writer'[d] \in {"new", "unique", "funded", "inserted"} => d \notin rows
    BY <1>4 DEF IdInv
  <2> QED BY <2>1, <2>2
<1>10. IdInv'
  BY <1>1, <1>6, <1>7, <1>8, <1>9 DEF IdInv
<1> QED BY <1>3, <1>10 DEF LedgerTypeOK, WriterTypes, ReaderTypes

LEMMA CommitKeepsRows ==
  ASSUME LedgerTypeOK, IdInv, NEW c \in Calls, CommitRow(c)
  PROVE  LedgerTypeOK' /\ IdInv'
<1>1. /\ writer[c] = "inserted" /\ rows' = rows \cup {c}
      /\ \E what \in {"committed", "failed"} : writer' = [writer EXCEPT ![c] = what]
      /\ UNCHANGED <<transfer, rowId, lastId, seen, acknowledged, raced, readerVars>>
      /\ drifted' \in BOOLEAN
  BY DEF CommitRow, CallIs
<1>2. writer' \in [Calls -> Stages]
  BY <1>1 DEF LedgerTypeOK, Stages
<1>3. WriterTypes' /\ ReaderTypes'
  BY <1>1, <1>2, TypeParts DEF WriterTypes, ReaderTypes, readerVars
<1>4. IsFiniteSet(rows')
  BY <1>1, FS_AddElement DEF IdInv
<1>5. IdInv'
  BY <1>1, <1>2, <1>4 DEF IdInv, LedgerTypeOK, readerVars
<1> QED BY <1>3, <1>5 DEF LedgerTypeOK, WriterTypes, ReaderTypes

LEMMA ReaderKeepsRows ==
  ASSUME LedgerTypeOK, IdInv,
         \/ BeginLoad \/ EndLoad \/ Poll \/ Process \/ ReaderRestarts \/ ProcessOlder
         \/ UNCHANGED ledgerVars
  PROVE  LedgerTypeOK' /\ IdInv'
<1>1. UNCHANGED writerVars
  BY DEF BeginLoad, EndLoad, Poll, Process, ReaderRestarts, ProcessOlder, ledgerVars, writerVars
<1>2. WriterTypes'
  BY <1>1, TypeParts DEF WriterTypes, writerVars
<1>3. transfer \in [Calls -> Transfers] /\ rows \in SUBSET Calls /\ rowId \in [Calls -> Nat]
      /\ polled \subseteq rows /\ lastId \in Nat /\ latest \in Nat
  BY DEF LedgerTypeOK
<1>4. SUFFICES /\ ReaderTypes'
               /\ latest' <= lastId
               /\ latest' <= Older \/ \E c \in rows : rowId[c] = latest'
               /\ \A c \in polled' : rowId[c] > latest'
  BY <1>1, <1>2 DEF IdInv, writerVars, LedgerTypeOK, WriterTypes, ReaderTypes
<1>5. CASE BeginLoad \/ UNCHANGED ledgerVars
  BY <1>1, <1>5, TypeParts DEF BeginLoad, ledgerVars, writerVars, ReaderTypes, IdInv
<1>6. CASE EndLoad
  <2>1. Balance(loading) \in Int
    BY <1>3, BalanceTypes, FS_Subset DEF LedgerTypeOK, IdInv
  <2> QED BY <1>1, <1>6, <2>1, TypeParts DEF EndLoad, writerVars, ReaderTypes, IdInv
<1>7. CASE Poll
  BY <1>1, <1>7, TypeParts DEF Poll, writerVars, ReaderTypes, IdInv
<1>8. CASE Process
  <2>1. PICK c \in polled :
          /\ \A d \in polled : rowId[c] <= rowId[d]
          /\ polled' = polled \ {c}
          /\ latest' = IF polled = {c} THEN rowId[c] ELSE latest
          /\ cached' = IF cached = Uncached THEN Uncached ELSE Applied(cached, c)
          /\ drifted' \in BOOLEAN
          /\ UNCHANGED <<loading, loads>>
    BY <1>8 DEF Process
  <2>2. c \in Calls /\ c \in rows /\ rowId[c] \in Nat /\ rowId[c] <= lastId
    BY <1>3, <2>1 DEF IdInv
  <2>3. cached' \in Int \cup {Uncached}
    <3>1. Effect(c) \in Int
      BY <1>3, <2>2, EffectTypes
    <3> QED BY <2>1, <3>1 DEF Applied, LedgerTypeOK
  <2>4. latest' \in Nat /\ polled' \subseteq rows
    BY <1>3, <2>1, <2>2
  <2>5. ReaderTypes'
    BY <1>1, <2>1, <2>3, <2>4, TypeParts DEF ReaderTypes, writerVars
  <2>6. polled' # {} => latest' = latest
    BY <2>1
  <2> QED BY <2>1, <2>2, <2>5, <2>6 DEF IdInv
<1>9. CASE ReaderRestarts
  <2>1. /\ latest' \in Nat /\ latest' <= lastId
        /\ latest' <= Older \/ \E c \in rows : rowId[c] = latest'
    <3>1. latest' = 0 \/ latest' = Max({Older} \cup {rowId[c] : c \in rows})
      BY <1>9 DEF ReaderRestarts
    <3>2. Older \in Nat /\ Older <= lastId /\ \A c \in rows : rowId[c] <= lastId
      BY <1>3 DEF IdInv, Older
    <3>3. CASE latest' = 0
      BY <1>3, <3>3 DEF Older
    <3>4. CASE latest' = Max({Older} \cup {rowId[c] : c \in rows})
      <4> DEFINE m == Max({Older} \cup {rowId[c] : c \in rows})
      <4>1. /\ m \in Nat /\ m <= lastId
            /\ m = Older \/ \E c \in rows : rowId[c] = m
        BY <1>3, <3>2, Highest
      <4> HIDE DEF m
      <4>2. m = Older => m <= Older
        BY <3>2
      <4> QED BY <3>4, <4>1, <4>2 DEF m
    <3> QED BY <3>1, <3>3, <3>4
  <2> QED BY <1>9, <2>1, TypeParts DEF ReaderRestarts, ReaderTypes
<1>10. CASE ProcessOlder
  <2>1. /\ latest < Older /\ latest' = Older /\ polled' = polled
        /\ cached' = IF cached = Uncached THEN Uncached ELSE cached + Opening
        /\ drifted' \in BOOLEAN /\ UNCHANGED <<loading, loads>>
    BY <1>10 DEF ProcessOlder
  <2>2. cached' \in Int \cup {Uncached}
    BY <2>1, LedgerAssumption DEF LedgerTypeOK
  <2>3. \A c \in polled : rowId[c] > Older
    BY <1>3 DEF IdInv
  <2>4. ReaderTypes'
    BY <1>1, <2>1, <2>2, TypeParts DEF ReaderTypes, writerVars, Older
  <2> QED BY <2>1, <2>3, <2>4 DEF IdInv, Older
<1> QED BY <1>5, <1>6, <1>7, <1>8, <1>9, <1>10

\* Forgetting an id.
LEMMA ForgetKeepsRows ==
  ASSUME LedgerTypeOK, IdInv, NEW p \in WriterPods, NEW u \in Uuids, Forget(p, u)
  PROVE  LedgerTypeOK' /\ IdInv'
<1>1. /\ UNCHANGED <<transfer, rowId, lastId, rows, acknowledged, raced, readerVars, drifted>>
      /\ seen' = [seen EXCEPT ![p] = @ \ {u}]
      /\ writer' = [c \in Calls |->
                      IF writer[c] = "201" /\ transfer[c].pod = p /\ transfer[c].uuid = u
                        THEN "forgotten" ELSE writer[c]]
  BY DEF Forget
<1>2. \A c \in Calls : writer'[c] = writer[c] \/ (writer[c] = "201" /\ writer'[c] = "forgotten")
  BY <1>1
<1>3. writer' \in [Calls -> Stages] /\ seen' \in [WriterPods -> SUBSET Uuids]
  BY <1>1 DEF LedgerTypeOK, Stages
<1>4. WriterTypes' /\ ReaderTypes'
  BY <1>1, <1>3, TypeParts DEF WriterTypes, ReaderTypes, readerVars
<1>5. IdInv'
  BY <1>1, <1>2 DEF IdInv, readerVars
<1> QED BY <1>4, <1>5 DEF LedgerTypeOK, WriterTypes, ReaderTypes

LEMMA RowsStep == LedgerTypeOK /\ IdInv /\ [LedgerNext]_ledgerVars => LedgerTypeOK' /\ IdInv'
BY CallKeepsRows, InsertKeepsRows, CommitKeepsRows, ForgetKeepsRows, ReaderKeepsRows
   DEF LedgerNext, CallStep

LEMMA RowsInit == LedgerInit => LedgerTypeOK /\ IdInv
<1> SUFFICES ASSUME LedgerInit PROVE LedgerTypeOK /\ IdInv
  OBVIOUS
<1>1. IdInv
  BY FS_EmptySet DEF LedgerInit, IdInv, Older
<1>2. LedgerTypeOK
  BY DEF LedgerInit, LedgerTypeOK, Stages, Older
<1> QED BY <1>1, <1>2

\* The types of the ledger writer, the table and the balance reader.
THEOREM LedgerTyped == LedgerSpec => []LedgerTypeOK
BY RowsInit, RowsStep, PTL DEF LedgerSpec

-----------------------------------------------------------------------------
(* The cached balance *)

\* Rows the poll thread will still bring to the callback, and rows the cached
\* balance, or the one that is being loaded, consists of.
Pending == polled \cup {c \in rows : rowId[c] > Horizon}
Reflected == (rows \ Pending) \cup loading

\* Unless it has drifted, a cached balance is the sum of the reflected rows, and
\* a load in progress has seen every row that will not be brought to it.
CacheInv ==
  /\ loads => cached = Uncached
  /\ loads /\ ~drifted => rows \ Pending \subseteq loading
  /\ cached # Uncached /\ ~drifted => cached = Balance(Reflected)

\* A call that commits no row leaves all that as it is.
LEMMA CallKeepsCache ==
  ASSUME LedgerTypeOK, IdInv, CacheInv, NEW c \in Calls,
         CheckRequest(c) \/ CheckBalance(c) \/ CallFails(c) \/ InsertRow(c) \/ Acknowledge(c)
  PROVE  CacheInv'
<1>1. UNCHANGED <<transfer, rows, readerVars, drifted>>
  BY DEF CheckRequest, CheckBalance, CallFails, InsertRow, Acknowledge
<1>2. \A d \in rows : rowId'[d] = rowId[d]
  BY DEF CheckRequest, CheckBalance, CallFails, InsertRow, Acknowledge, LedgerTypeOK, IdInv
<1>3. Horizon' = Horizon
  <2>1. {rowId'[d] : d \in polled} = {rowId[d] : d \in polled}
    BY <1>2 DEF LedgerTypeOK
  <2> QED BY <1>1, <2>1 DEF Horizon, readerVars
<1>4. Pending' = Pending /\ Reflected' = Reflected
  BY <1>1, <1>2, <1>3 DEF Pending, Reflected, readerVars
<1>5. Balance(Reflected)' = Balance(Reflected)
  BY <1>1, <1>4, BalanceKept
<1> QED BY <1>1, <1>4, <1>5 DEF CacheInv, readerVars

LEMMA ForgetKeepsCache ==
  ASSUME CacheInv, NEW p \in WriterPods, NEW u \in Uuids, Forget(p, u)
  PROVE  CacheInv'
<1>1. UNCHANGED <<transfer, rowId, rows, readerVars, drifted>>
  BY DEF Forget
<1>2. Pending' = Pending /\ Reflected' = Reflected
  BY <1>1 DEF Pending, Reflected, Horizon, readerVars
<1>3. Balance(Reflected)' = Balance(Reflected)
  BY <1>1, <1>2, BalanceKept
<1> QED BY <1>1, <1>2, <1>3 DEF CacheInv, readerVars

\* A row that is committed is pending, or the balance drifts.
LEMMA CommitKeepsCache ==
  ASSUME LedgerTypeOK, IdInv, CacheInv, NEW c \in Calls, CommitRow(c)
  PROVE  CacheInv'
<1>1. /\ writer[c] = "inserted" /\ rows' = rows \cup {c}
      /\ UNCHANGED <<transfer, rowId, readerVars>>
      /\ drifted' = (drifted \/ ((cached # Uncached \/ loads) /\ rowId[c] < Horizon))
  BY DEF CommitRow
<1>2. c \notin rows /\ Horizon' = Horizon
  BY <1>1 DEF IdInv, Horizon, readerVars
<1>3. rowId[c] # Horizon
  <2>1. \A d \in rows : rowId[d] # rowId[c]
    BY <1>1, <1>2 DEF IdInv, LedgerTypeOK, Older
  <2>2. rowId[c] # latest
    BY <1>1, <2>1 DEF IdInv, LedgerTypeOK, Older
  <2> QED BY <2>1, <2>2, HorizonTypes DEF LedgerTypeOK
<1>4. ASSUME cached # Uncached \/ loads, ~drifted'
      PROVE  /\ ~drifted /\ Reflected' = Reflected /\ rows' \ Pending' = rows \ Pending
  <2>1. ~drifted /\ ~ (rowId[c] < Horizon)
    BY <1>1, <1>4
  <2>2. rowId[c] > Horizon
    BY <1>3, <2>1, HorizonTypes DEF LedgerTypeOK
  <2>3. rows' \ Pending' = rows \ Pending
    BY <1>1, <1>2, <2>2 DEF Pending, readerVars
  <2> QED BY <1>1, <2>1, <2>3 DEF Reflected, readerVars
<1>5. Reflected' = Reflected => Balance(Reflected)' = Balance(Reflected)
  BY <1>1, BalanceKept
<1> QED BY <1>1, <1>4, <1>5 DEF CacheInv, readerVars

LEMMA PollKeepsCache ==
  ASSUME LedgerTypeOK, IdInv, CacheInv, Poll
  PROVE  CacheInv'
<1>1. /\ polled = {} /\ polled' = {c \in rows : rowId[c] > latest}
      /\ UNCHANGED <<transfer, rows, rowId, cached, loading, loads, latest, drifted>>
  BY DEF Poll, writerVars
<1>2. latest \in Nat /\ rowId \in [Calls -> Nat] /\ polled' \in SUBSET Calls /\ rows \in SUBSET Calls
  BY <1>1 DEF LedgerTypeOK
<1>3. Horizon = latest
  BY <1>1, HorizonTypes
<1>4. Horizon' \in Nat /\ \A c \in polled' : rowId[c] <= Horizon'
  <2>1. lastId \in Nat /\ latest <= lastId /\ \A c \in polled' : rowId[c] <= lastId
    BY <1>2 DEF LedgerTypeOK, IdInv
  <2>2. Horizon' = Max({latest} \cup {rowId[c] : c \in polled'})
    BY <1>1 DEF Horizon
  <2> QED BY <1>2, <2>1, <2>2, Highest
<1>5. latest <= Horizon'
  <2>1. lastId \in Nat /\ latest <= lastId /\ \A c \in polled' : rowId[c] <= lastId
    BY <1>2 DEF LedgerTypeOK, IdInv
  <2>2. Horizon' = Max({latest} \cup {rowId[c] : c \in polled'})
    BY <1>1 DEF Horizon
  <2> QED BY <1>2, <2>1, <2>2, Highest
<1>6. Pending' = Pending
  <2>1. Pending = {c \in rows : rowId[c] > latest}
    BY <1>1, <1>3 DEF Pending
  <2>2. \A c \in rows : rowId[c] > Horizon' => rowId[c] > latest
    BY <1>2, <1>4, <1>5
  <2> QED BY <1>1, <2>1, <2>2 DEF Pending
<1>7. Reflected' = Reflected /\ Balance(Reflected)' = Balance(Reflected)
  BY <1>1, <1>6, BalanceKept DEF Reflected
<1> QED BY <1>1, <1>6, <1>7 DEF CacheInv

\* The poll thread takes the rows in the order of their ids: what it has not
\* taken yet is above what it takes.
LEMMA ProcessTakesOne ==
  ASSUME LedgerTypeOK, IdInv, NEW c \in polled,
         \A d \in polled : rowId[c] <= rowId[d],
         polled' = polled \ {c},
         latest' = IF polled = {c} THEN rowId[c] ELSE latest,
         UNCHANGED <<rows, rowId>>
  PROVE  Horizon' = Horizon /\ Pending' = Pending \ {c}
<1>1. /\ latest \in Nat /\ rowId \in [Calls -> Nat] /\ polled \in SUBSET Calls
      /\ c \in Calls /\ rowId[c] \in Nat /\ lastId \in Nat
      /\ rowId[c] > latest /\ rowId[c] <= lastId
      /\ polled \subseteq rows
  BY DEF LedgerTypeOK, IdInv
<1>2. /\ Horizon \in Nat /\ \A d \in polled : rowId[d] <= Horizon /\ rowId[d] \in Nat
      /\ Horizon = latest \/ \E d \in polled : rowId[d] = Horizon
  BY <1>1, HorizonTypes
<1>3. Horizon' = Max({latest'} \cup {rowId[d] : d \in polled'})
  BY DEF Horizon
<1>4. /\ latest' \in Nat /\ polled' \in SUBSET Calls /\ latest' <= lastId
      /\ \A d \in polled' : rowId[d] <= lastId
  BY <1>1 DEF IdInv
<1>5. /\ Horizon' \in Nat /\ latest' <= Horizon'
      /\ \A d \in polled' : rowId[d] <= Horizon'
      /\ Horizon' = latest' \/ \E d \in polled' : rowId[d] = Horizon'
  <2> DEFINE low == latest'
             rest == polled'
  <2>1. /\ low \in Nat /\ rest \in SUBSET Calls /\ low <= lastId
        /\ \A d \in rest : rowId[d] <= lastId
    BY <1>4
  <2>2. Horizon' = Max({low} \cup {rowId[d] : d \in rest})
    BY <1>3
  <2> HIDE DEF low, rest
  <2>3. /\ Horizon' \in Nat /\ low <= Horizon'
        /\ \A d \in rest : rowId[d] <= Horizon'
        /\ Horizon' = low \/ \E d \in rest : rowId[d] = Horizon'
    BY <1>1, <2>1, <2>2, Highest
  <2> QED BY <2>3 DEF low, rest
<1>6. Horizon' = Horizon
  <2>1. CASE polled = {c}
    <3>1. polled' = {} /\ latest' = rowId[c]
      BY <2>1
    <3>2. Horizon = rowId[c]
      BY <1>1, <1>2, <2>1
    <3> QED BY <1>5, <3>1, <3>2
  <2>2. CASE polled # {c}
    <3>1. PICK d \in polled' : TRUE
      BY <2>2
    <3>2. latest' = latest /\ d \in polled /\ d # c
      BY <2>2, <3>1
    <3>3. rowId[d] # rowId[c]
      BY <1>1, <3>2 DEF IdInv
    <3>4. rowId[c] < rowId[d]
      BY <1>1, <3>2, <3>3
    <3>5. rowId[d] <= Horizon /\ rowId[d] <= Horizon'
      BY <1>2, <1>5, <3>2
    <3>6. Horizon # rowId[c] /\ Horizon # latest
      BY <1>1, <1>2, <3>2, <3>4, <3>5
    <3>7. Horizon <= Horizon'
      <4>1. PICK e \in polled : rowId[e] = Horizon
        BY <1>2, <3>6
      <4>2. e \in polled'
        BY <3>6, <4>1
      <4> QED BY <1>5, <4>1, <4>2
    <3>8. Horizon' <= Horizon
      <4>1. Horizon' # latest
        BY <1>1, <1>2, <3>2, <3>4, <3>5
      <4>2. PICK e \in polled' : rowId[e] = Horizon'
        BY <1>5, <3>2, <4>1
      <4> QED BY <1>2, <4>2
    <3> QED BY <1>2, <1>5, <3>7, <3>8
  <2> QED BY <2>1, <2>2
<1>7. ~ (rowId[c] > Horizon)
  BY <1>2
<1> QED BY <1>6, <1>7 DEF Pending

LEMMA ProcessKeepsCache ==
  ASSUME LedgerTypeOK, IdInv, CacheInv, Process
  PROVE  CacheInv'
<1>1. PICK c \in polled :
        /\ \A d \in polled : rowId[c] <= rowId[d]
        /\ polled' = polled \ {c}
        /\ latest' = IF polled = {c} THEN rowId[c] ELSE latest
        /\ cached' = IF cached = Uncached THEN Uncached ELSE Applied(cached, c)
        /\ drifted' = (drifted \/ (cached # Uncached /\ c \in loading)
                                \/ (loads /\ c \notin loading))
        /\ UNCHANGED <<transfer, rows, rowId, loading, loads>>
  BY DEF Process, writerVars
<1>2. /\ c \in rows /\ c \in Calls /\ rows \in SUBSET Calls /\ IsFiniteSet(rows)
      /\ loading \subseteq rows /\ transfer \in [Calls -> Transfers]
  BY DEF LedgerTypeOK, IdInv
<1>3. Pending' = Pending \ {c} /\ c \in Pending
  <2>1. Pending' = Pending \ {c}
    BY <1>1, ProcessTakesOne
  <2> QED BY <2>1 DEF Pending
<1>4. rows' \ Pending' = (rows \ Pending) \cup {c}
  BY <1>1, <1>2, <1>3
<1>5. loads' /\ ~drifted' => rows' \ Pending' \subseteq loading'
  <2> SUFFICES ASSUME loads', ~drifted' PROVE rows' \ Pending' \subseteq loading'
    OBVIOUS
  <2>1. loads /\ ~drifted /\ c \in loading
    BY <1>1
  <2> QED BY <1>1, <1>4, <2>1 DEF CacheInv
<1>6. cached' # Uncached /\ ~drifted' => cached' = Balance(Reflected)'
  <2> SUFFICES ASSUME cached' # Uncached, ~drifted' PROVE cached' = Balance(Reflected)'
    OBVIOUS
  <2>1. cached # Uncached /\ ~drifted /\ c \notin loading
    BY <1>1
  <2>2. cached' = cached + Effect(c) /\ cached = Balance(Reflected)
    BY <1>1, <2>1 DEF Applied, CacheInv
  <2>3. c \notin Reflected /\ Reflected' = Reflected \cup {c}
    BY <1>1, <1>3, <1>4, <2>1 DEF Reflected
  <2>4. Reflected \in SUBSET Calls /\ IsFiniteSet(Reflected)
    BY <1>2, FS_Subset DEF Reflected
  <2>5. Balance(Reflected \cup {c}) = Balance(Reflected) + Effect(c)
    BY <1>2, <2>3, <2>4, BalanceAdd
  <2>6. Balance(Reflected)' = Balance(Reflected \cup {c})
    BY <1>1, <2>3, BalanceKept
  <2> QED BY <2>2, <2>5, <2>6
<1>7. loads' => cached' = Uncached
  BY <1>1 DEF CacheInv
<1> QED BY <1>5, <1>6, <1>7 DEF CacheInv

\* No row of a call lies between the two starting points.
LEMMA OlderKeepsPending ==
  ASSUME LedgerTypeOK, IdInv, ProcessOlder
  PROVE  rows' \ Pending' = rows \ Pending
<1>1. /\ latest < Older /\ latest' = Older /\ UNCHANGED <<rows, rowId, polled>>
  BY DEF ProcessOlder, writerVars
<1>2. /\ rowId \in [Calls -> Nat] /\ polled \in SUBSET rows /\ rows \in SUBSET Calls
      /\ polled \in SUBSET Calls /\ latest \in Nat /\ lastId \in Nat /\ Older \in Nat
      /\ Older <= lastId /\ \A c \in rows : rowId[c] > Older
      /\ \A c \in polled : rowId[c] <= lastId
  BY DEF LedgerTypeOK, IdInv, Older
<1>3. /\ Horizon \in Nat /\ latest <= Horizon
      /\ \A c \in polled : rowId[c] <= Horizon
      /\ Horizon = latest \/ \E c \in polled : rowId[c] = Horizon
  BY HorizonTypes
<1>4. /\ Horizon' \in Nat /\ Older <= Horizon'
      /\ \A c \in polled : rowId[c] <= Horizon'
      /\ Horizon' = Older \/ \E c \in polled : rowId[c] = Horizon'
  <2>1. Horizon' = Max({Older} \cup {rowId[c] : c \in polled})
    BY <1>1 DEF Horizon
  <2> QED BY <1>2, <2>1, Highest
<1>5. \A c \in rows \ polled : rowId[c] > Horizon' <=> rowId[c] > Horizon
  <2>1. CASE polled = {}
    BY <1>1, <1>2, <1>3, <1>4, <2>1
  <2>2. CASE polled # {}
    <3>1. \A c \in polled : rowId[c] \in Nat /\ rowId[c] > Older
      BY <1>2
    <3>2. (\E c \in polled : rowId[c] = Horizon) /\ (\E c \in polled : rowId[c] = Horizon')
      BY <1>1, <1>2, <1>3, <1>4, <2>2, <3>1
    <3>3. Horizon = Horizon'
      BY <1>3, <1>4, <3>2
    <3> QED BY <3>3
  <2> QED BY <2>1, <2>2
<1> QED BY <1>1, <1>2, <1>5 DEF Pending

LEMMA OthersKeepCache ==
  ASSUME LedgerTypeOK, IdInv, CacheInv,
         BeginLoad \/ EndLoad \/ ReaderRestarts \/ ProcessOlder \/ UNCHANGED ledgerVars
  PROVE  CacheInv'
<1>1. CASE BeginLoad
  BY <1>1 DEF BeginLoad, writerVars, CacheInv
<1>2. CASE EndLoad
  <2>1. /\ loads /\ ~loads' /\ UNCHANGED <<transfer, rows, rowId, loading, latest, polled, drifted>>
        /\ cached' = Balance(loading) \/ cached' = cached
    BY <1>2 DEF EndLoad, writerVars
  <2>2. Pending' = Pending
    BY <2>1 DEF Pending, Horizon
  <2>3. Reflected' = Reflected
    BY <2>1, <2>2 DEF Reflected
  <2>4. ~drifted => Reflected = loading
    BY <2>1 DEF Reflected, CacheInv
  <2>5. Balance(Reflected)' = Balance(Reflected)
    BY <2>1, <2>3, BalanceKept
  <2> QED BY <2>1, <2>4, <2>5 DEF CacheInv
<1>3. CASE ReaderRestarts
  BY <1>3 DEF ReaderRestarts, CacheInv
<1>4. CASE UNCHANGED ledgerVars
  <2>1. Pending' = Pending /\ Reflected' = Reflected
    BY <1>4 DEF ledgerVars, Pending, Reflected, Horizon
  <2>2. Balance(Reflected)' = Balance(Reflected)
    BY <1>4, <2>1, BalanceKept DEF ledgerVars
  <2> QED BY <1>4, <2>1, <2>2 DEF ledgerVars, CacheInv
<1>5. CASE ProcessOlder
  <2>1. /\ latest < Older /\ latest' = Older
        /\ UNCHANGED <<transfer, rows, rowId, loading, loads, polled>>
        /\ cached' = IF cached = Uncached THEN Uncached ELSE cached + Opening
        /\ drifted' = (drifted \/ cached # Uncached)
    BY <1>5 DEF ProcessOlder, writerVars
  <2>2. loads /\ ~drifted' => rows' \ Pending' = rows \ Pending
    BY <1>5, OlderKeepsPending
  <2> QED BY <2>1, <2>2 DEF CacheInv
<1> QED BY <1>1, <1>2, <1>3, <1>4, <1>5

LEMMA CacheStep == LedgerTypeOK /\ IdInv /\ CacheInv /\ [LedgerNext]_ledgerVars => CacheInv'
BY CallKeepsCache, CommitKeepsCache, ForgetKeepsCache, PollKeepsCache, ProcessKeepsCache,
   OthersKeepCache
   DEF LedgerNext, CallStep

LEMMA CacheInit == LedgerInit => CacheInv
BY DEF LedgerInit, CacheInv

\* For any number of calls, pods and amounts, and however loads, polls, commits
\* and restarts interleave: when the poll thread has caught up, the cached
\* balance is that of the table, unless one of the three coincidences the model
\* names has made it drift.
THEOREM CaughtUpExact == LedgerSpec => []ExactWhenCaughtUp
<1>1. LedgerTypeOK /\ IdInv /\ CacheInv => ExactWhenCaughtUp
  <2> SUFFICES ASSUME LedgerTypeOK, IdInv, CacheInv, cached # Uncached, ~drifted, polled = {},
                      \A c \in rows : rowId[c] <= latest
               PROVE  cached = Balance(rows)
    BY DEF ExactWhenCaughtUp
  <2>1. Horizon = latest
    BY HorizonTypes
  <2>2. Pending = {}
    BY <2>1 DEF Pending, LedgerTypeOK
  <2>3. Reflected = rows
    BY <2>2 DEF Reflected, LedgerTypeOK
  <2> QED BY <2>3 DEF CacheInv
<1> QED BY <1>1, RowsInit, RowsStep, CacheInit, CacheStep, PTL DEF LedgerSpec

-----------------------------------------------------------------------------
(* Overdrawing *)

\* A payment the balance has been found to cover, whose row is not there yet.
Reserves(c) == transfer[c].debit /\ writer[c] \in {"funded", "inserted"}

\* As long as no payment is checked while another is under way, at most one has
\* been found covered, and the rows cover it.
FundsInv ==
  ~raced /\ ~drifted =>
    /\ Balance(rows) >= 0
    /\ \A c \in Calls : Reserves(c) => Balance(rows) >= transfer[c].amount
    /\ \A c, d \in Calls : Reserves(c) /\ Reserves(d) => c = d

\* Steps that add no row and find no payment covered.
LEMMA FundsKept ==
  ASSUME FundsInv, UNCHANGED <<transfer, rows>>, ~raced' => ~raced, ~drifted' => ~drifted,
         \A c \in Calls : Reserves(c)' => Reserves(c)
  PROVE  FundsInv'
<1>1. Balance(rows)' = Balance(rows)
  BY BalanceKept
<1> QED BY <1>1 DEF FundsInv

\* A payment is found covered: the rows that the cached balance does not reflect
\* are deposits.
LEMMA CheckKeepsFunds ==
  ASSUME LedgerTypeOK, IdInv, CacheInv, FundsInv, NEW c \in Calls, CheckBalance(c)
  PROVE  FundsInv'
<1>1. writer[c] = "unique" /\ UNCHANGED <<transfer, rows, drifted>>
  BY DEF CheckBalance
<1>2. CASE ~transfer[c].debit \/ writer' = [writer EXCEPT ![c] = "failed"]
  <2>1. ~raced' => ~raced
    BY DEF CheckBalance
  <2>2. \A d \in Calls \ {c} : writer'[d] = writer[d]
    BY DEF CheckBalance, CallIs, LedgerTypeOK
  <2>3. ~Reserves(c)'
    BY <1>1, <1>2 DEF Reserves, LedgerTypeOK
  <2>4. \A d \in Calls : Reserves(d)' => Reserves(d)
    BY <1>1, <2>2, <2>3 DEF Reserves
  <2> QED BY <1>1, <2>1, <2>4, FundsKept
<1>3. CASE transfer[c].debit /\ writer' # [writer EXCEPT ![c] = "failed"]
  <2>1. /\ cached # Uncached /\ cached >= transfer[c].amount
        /\ writer' = [writer EXCEPT ![c] = "funded"]
        /\ raced' = (raced \/ \E d \in Calls \ {c} : UnderWay(d))
    BY <1>3 DEF CheckBalance, CallIs, Covers
  <2> SUFFICES ASSUME ~raced', ~drifted'
               PROVE  /\ Balance(rows)' >= 0
                      /\ \A d \in Calls : Reserves(d)' => Balance(rows)' >= transfer'[d].amount
                      /\ \A d, e \in Calls : Reserves(d)' /\ Reserves(e)' => d = e
    BY DEF FundsInv
  <2>2. ~raced /\ ~drifted /\ \A d \in Calls \ {c} : ~UnderWay(d)
    BY <1>1, <2>1
  <2>3. \A d \in Calls : Reserves(d)' => d = c
    <3>1. \A d \in Calls \ {c} : writer'[d] = writer[d]
      BY <2>1 DEF LedgerTypeOK
    <3>2. \A d \in Calls \ {c} : Reserves(d) => UnderWay(d)
      BY DEF Reserves, UnderWay
    <3> QED BY <1>1, <2>2, <3>1, <3>2 DEF Reserves
  <2>4. /\ rows \in SUBSET Calls /\ IsFiniteSet(rows) /\ loading \subseteq rows
        /\ transfer \in [Calls -> Transfers] /\ c \notin rows
        /\ latest \in Nat /\ rowId \in [Calls -> Nat]
    BY <1>1 DEF LedgerTypeOK, IdInv
  <2>5. \A d \in rows \ Reflected : ~transfer[d].debit
    <3> SUFFICES ASSUME NEW d \in rows \ Reflected, transfer[d].debit PROVE FALSE
      OBVIOUS
    <3>1. d \in Pending /\ d # c /\ d \in Calls
      BY <2>4 DEF Reflected
    <3>2. d \notin polled /\ ~(rowId[d] > latest)
      BY <2>2, <3>1 DEF UnderWay
    <3>3. rowId[d] > Horizon /\ latest <= Horizon /\ Horizon \in Nat /\ rowId[d] \in Nat
      BY <2>4, <3>1, <3>2, HorizonTypes DEF Pending
    <3> QED BY <2>4, <3>2, <3>3
  <2>6. Reflected \in SUBSET rows
    BY <2>4 DEF Reflected
  <2>7. Balance(Reflected) <= Balance(rows)
    BY <2>4, <2>5, <2>6, BalanceGrows
  <2>8. cached = Balance(Reflected)
    BY <2>1, <2>2 DEF CacheInv
  <2>9. Balance(rows) \in Int /\ Balance(Reflected) \in Int
    BY <2>4, <2>6, BalanceTypes, FS_Subset
  <2>10. transfer[c].amount \in Nat
    BY <2>4, EffectTypes
  <2>11. Balance(rows)' = Balance(rows)
    BY <1>1, BalanceKept
  <2>12. Balance(rows)' >= transfer[c].amount /\ Balance(rows)' >= 0
    BY <2>1, <2>7, <2>8, <2>9, <2>10, <2>11
  <2> QED BY <1>1, <2>3, <2>12
<1> QED BY <1>2, <1>3

LEMMA CommitKeepsFunds ==
  ASSUME LedgerTypeOK, IdInv, FundsInv, NEW c \in Calls, CommitRow(c)
  PROVE  FundsInv'
<1>1. /\ writer[c] = "inserted" /\ rows' = rows \cup {c}
      /\ UNCHANGED <<transfer, raced>>
      /\ \E what \in {"committed", "failed"} : writer' = [writer EXCEPT ![c] = what]
      /\ ~drifted' => ~drifted
  BY DEF CommitRow, CallIs
<1>2. /\ rows \in SUBSET Calls /\ IsFiniteSet(rows) /\ c \in Calls \ rows
      /\ transfer \in [Calls -> Transfers]
  BY <1>1 DEF LedgerTypeOK, IdInv
<1>3. Balance(rows)' = Balance(rows) + Effect(c)
  <2>1. Balance(rows)' = Balance(rows \cup {c})
    BY <1>1, BalanceKept
  <2> QED BY <1>2, <2>1, BalanceAdd
<1>4. \A d \in Calls : Reserves(d)' => d # c /\ Reserves(d)
  BY <1>1 DEF Reserves, LedgerTypeOK
<1>5. Balance(rows) \in Int /\ transfer[c].amount \in Nat
  BY <1>2, BalanceTypes, EffectTypes
<1> SUFFICES ASSUME ~raced', ~drifted'
             PROVE  /\ Balance(rows)' >= 0
                    /\ \A d \in Calls : Reserves(d)' => Balance(rows)' >= transfer'[d].amount
                    /\ \A d, e \in Calls : Reserves(d)' /\ Reserves(e)' => d = e
  BY DEF FundsInv
<1>6. /\ Balance(rows) >= 0
      /\ \A d \in Calls : Reserves(d) => Balance(rows) >= transfer[d].amount
      /\ \A d, e \in Calls : Reserves(d) /\ Reserves(e) => d = e
  BY <1>1 DEF FundsInv
<1>7. CASE transfer[c].debit
  <2>1. Reserves(c)
    BY <1>1, <1>7 DEF Reserves
  <2>2. Effect(c) = -transfer[c].amount
    BY <1>2, <1>7, EffectTypes
  <2>3. \A d \in Calls : ~Reserves(d)'
    BY <1>4, <1>6, <2>1
  <2> QED BY <1>3, <1>5, <1>6, <2>1, <2>2, <2>3
<1>8. CASE ~transfer[c].debit
  <2>1. Effect(c) = transfer[c].amount
    BY <1>2, <1>8, EffectTypes
  <2>2. Balance(rows)' >= Balance(rows) /\ Balance(rows)' \in Int
    BY <1>3, <1>5, <2>1
  <2>3. ASSUME NEW d \in Calls, Reserves(d)' PROVE Balance(rows)' >= transfer'[d].amount
    <3>1. Balance(rows) >= transfer[d].amount
      BY <1>4, <1>6, <2>3
    <3>2. transfer[d].amount \in Nat
      BY <1>2, EffectTypes
    <3> QED BY <1>1, <1>5, <2>2, <3>1, <3>2
  <2>4. Balance(rows)' >= 0
    BY <1>5, <1>6, <2>2
  <2> QED BY <1>4, <1>6, <2>3, <2>4
<1> QED BY <1>7, <1>8

LEMMA FundsStep ==
  ASSUME LedgerTypeOK, IdInv, CacheInv, FundsInv, [LedgerNext]_ledgerVars
  PROVE  FundsInv'
<1>1. ASSUME NEW c \in Calls, CheckRequest(c) \/ CallFails(c) \/ InsertRow(c) \/ Acknowledge(c)
      PROVE  FundsInv'
  <2>1. /\ UNCHANGED <<transfer, rows, raced, drifted>>
        /\ \E what \in {"unique", "failed", "inserted", "201"} : writer' = [writer EXCEPT ![c] = what]
        /\ writer'[c] = "inserted" => writer[c] = "funded"
    BY <1>1 DEF CheckRequest, CallFails, InsertRow, Acknowledge, CallIs, LedgerTypeOK
  <2>2. \A d \in Calls : Reserves(d)' => Reserves(d)
    BY <2>1 DEF Reserves, LedgerTypeOK
  <2> QED BY <2>1, <2>2, FundsKept
<1>2. CASE \/ BeginLoad \/ EndLoad \/ Poll \/ Process \/ ReaderRestarts \/ ProcessOlder
           \/ UNCHANGED ledgerVars
  <2>1. UNCHANGED <<transfer, rows, writer, raced>>
    BY <1>2 DEF BeginLoad, EndLoad, Poll, Process, ReaderRestarts, ProcessOlder, ledgerVars,
                writerVars
  <2>2. ~drifted' => ~drifted
    <3>1. CASE Process \/ ProcessOlder
      BY <3>1 DEF Process, ProcessOlder
    <3>2. CASE drifted' = drifted
      BY <3>2
    <3> QED BY <1>2, <3>1, <3>2 DEF BeginLoad, EndLoad, Poll, ReaderRestarts, ledgerVars
  <2>3. \A d \in Calls : Reserves(d)' => Reserves(d)
    BY <2>1 DEF Reserves
  <2> QED BY <2>1, <2>2, <2>3, FundsKept
<1>3. ASSUME NEW p \in WriterPods, NEW u \in Uuids, Forget(p, u) PROVE FundsInv'
  <2>1. UNCHANGED <<transfer, rows, raced, drifted>>
    BY <1>3 DEF Forget
  <2>2. \A d \in Calls : writer'[d] = writer[d] \/ writer'[d] = "forgotten"
    BY <1>3 DEF Forget
  <2>3. \A d \in Calls : Reserves(d)' => Reserves(d)
    BY <2>1, <2>2 DEF Reserves
  <2> QED BY <2>1, <2>3, FundsKept
<1> QED BY <1>1, <1>2, <1>3, CheckKeepsFunds, CommitKeepsFunds DEF LedgerNext, CallStep

\* For any number of concurrent payments and deposits: if no payment is checked
\* against the cached balance before an earlier one has reached it, and the
\* cached balance has not drifted, the account is never overdrawn.
THEOREM OverdraftNeedsRace == LedgerSpec => []OverdrawnOnlyByRace
<1>1. LedgerInit => FundsInv
  <2> SUFFICES ASSUME LedgerInit PROVE FundsInv
    OBVIOUS
  <2>1. Balance(rows) = Opening
    BY BalanceOfNothing DEF LedgerInit
  <2>2. \A c \in Calls : ~Reserves(c)
    BY DEF LedgerInit, Reserves
  <2> QED BY <2>1, <2>2, LedgerAssumption DEF FundsInv
<1>2. LedgerTypeOK /\ IdInv /\ CacheInv /\ FundsInv /\ [LedgerNext]_ledgerVars => FundsInv'
  BY FundsStep
<1>3. FundsInv => OverdrawnOnlyByRace
  BY DEF FundsInv, OverdrawnOnlyByRace
<1> QED BY <1>1, <1>2, <1>3, RowsInit, RowsStep, CacheInit, CacheStep, PTL DEF LedgerSpec
=============================================================================
