------------------------------ MODULE Payments ------------------------------
(***************************************************************************)
(* Payments and deposits of one signed-in user from several tabs: the      *)
(* frontend's payment() and deposit() first add the new contact the form   *)
(* may name, with add_contact() of the contacts service, and then submit   *)
(* the transaction.                                                        *)
(*                                                                         *)
(* The duplicate check reads the contacts, the insertion is another        *)
(* statement, and the table has no key.  A page that stops waiting leaves  *)
(* its service call running.  The ledger writer is external here: it books *)
(* a transaction or refuses it (module Ledger).                            *)
(***************************************************************************)
EXTENDS Integers

CONSTANTS
  Tabs,     \* forms submitted
  Labels,   \* contact labels
  NoLabel,  \* the form names no contact to be stored
  Targets,  \* pairs of an account and a routing number
  Self      \* the user's own

ASSUME PaymentsAssumption == NoLabel \notin Labels

VARIABLES
  slip,      \* label and target of each form
  contacts,  \* rows of the contacts table: label, target and the form that sent it
  service,   \* the service call each form's page has made last
  tab,       \* what each page waits for or shows
  booked,    \* forms whose transaction is in the ledger
  before     \* history: forms whose contact call was over when this one's began

paymentVars == <<slip, contacts, service, tab, booked, before>>

Slips == [label : Labels \cup {NoLabel}, to : Targets]
Contacts == [label : Labels, to : Targets, form : Tabs]
ServiceStates == {"none", "contact", "allowed", "transaction", "201", "refused"}
TabStates == {"new", "adding", "added", "submitting", "successful", "failed", "error 500"}

PaymentsTypeOK ==
  /\ slip \in [Tabs -> Slips]
  /\ contacts \subseteq Contacts
  /\ service \in [Tabs -> ServiceStates]
  /\ tab \in [Tabs -> TabStates]
  /\ booked \subseteq Tabs
  /\ before \in [Tabs -> SUBSET Tabs]

PaymentsInit ==
  /\ slip \in [Tabs -> Slips]
  /\ contacts = {} /\ booked = {}
  /\ service = [t \in Tabs |-> "none"]
  /\ tab = [t \in Tabs |-> "new"]
  /\ before = [t \in Tabs |-> {}]

ServiceIs(t, what) == service' = [service EXCEPT ![t] = what]
TabShows(t, what) == tab' = [tab EXCEPT ![t] = what]

-----------------------------------------------------------------------------
(* The contacts service. *)

\* Mutant of Allowed: only the very same contact is refused.
AllowedUnlessEqual(o) ==
  \A c \in contacts : c.to # o.to \/ c.label # o.label

\* _check_contact_allowed()
Allowed(o) ==
  /\ o.to # Self
  /\ \A c \in contacts : c.to # o.to /\ c.label # o.label

\* Token, fields and duplicates are checked; any of the checks, or the statement,
\* may turn the contact away.
check_contact(t) ==
  /\ service[t] = "contact"
  /\ \/ Allowed(slip[t]) /\ ServiceIs(t, "allowed")
     \/ ServiceIs(t, "refused")
  /\ UNCHANGED <<slip, contacts, tab, booked, before>>

\* add_contact(): the acknowledgement of the insertion may be lost.
add_contact(t) ==
  /\ service[t] = "allowed"
  /\ \/ /\ contacts' = contacts \cup {[label |-> slip[t].label, to |-> slip[t].to, form |-> t]}
        /\ ServiceIs(t, "201") \/ ServiceIs(t, "refused")
     \/ ServiceIs(t, "refused") /\ UNCHANGED contacts
  /\ UNCHANGED <<slip, tab, booked, before>>

\* The ledger writer books the transaction or answers 4xx or 5xx, the latter
\* even for one it has booked.
BookTransaction(t) ==
  /\ service[t] = "transaction"
  /\ \/ booked' = booked \cup {t} /\ (ServiceIs(t, "201") \/ ServiceIs(t, "refused"))
     \/ ServiceIs(t, "refused") /\ UNCHANGED booked
  /\ UNCHANGED <<slip, contacts, tab, before>>

-----------------------------------------------------------------------------
(* The pages. *)

ContactOver(t) == slip[t].label # NoLabel /\ service[t] \in {"201", "refused", "transaction"}

\* _add_contact() is called only for a form that adds a contact with a label.
Submit(t) ==
  /\ tab[t] = "new"
  /\ IF slip[t].label # NoLabel
       THEN /\ TabShows(t, "adding") /\ ServiceIs(t, "contact")
            /\ before' = [before EXCEPT ![t] = {u \in Tabs : ContactOver(u)}]
       ELSE TabShows(t, "added") /\ UNCHANGED <<service, before>>
  /\ UNCHANGED <<slip, contacts, booked>>

\* The session has ended, or a deposit comes from the bank's own routing number.
SubmitInvalid(t) ==
  /\ tab[t] = "new"
  /\ TabShows(t, "failed")
  /\ UNCHANGED <<slip, contacts, service, booked, before>>

\* Mutant of ContactAnswered: the response is not checked.
ContactAnsweredUnchecked(t) ==
  /\ tab[t] = "adding" /\ service[t] \in {"201", "refused"}
  /\ TabShows(t, "added")
  /\ UNCHANGED <<slip, contacts, service, booked, before>>

\* raise_for_status() of _add_contact()
ContactAnswered(t) ==
  /\ tab[t] = "adding" /\ service[t] \in {"201", "refused"}
  /\ TabShows(t, IF service[t] = "201" THEN "added" ELSE "failed")
  /\ UNCHANGED <<slip, contacts, service, booked, before>>

\* Only now is the amount read; deposit() does not catch what Decimal() raises.
ReadAmount(t) ==
  /\ tab[t] = "added"
  /\ \/ TabShows(t, "submitting") /\ ServiceIs(t, "transaction")
     \/ (TabShows(t, "failed") \/ TabShows(t, "error 500")) /\ UNCHANGED service
  /\ UNCHANGED <<slip, contacts, booked, before>>

\* raise_for_status() of _submit_transaction()
TransactionAnswered(t) ==
  /\ tab[t] = "submitting" /\ service[t] \in {"201", "refused"}
  /\ TabShows(t, IF service[t] = "201" THEN "successful" ELSE "failed")
  /\ UNCHANGED <<slip, contacts, service, booked, before>>

\* BACKEND_TIMEOUT passes, or the connection breaks; the service goes on.
TimesOut(t) ==
  /\ tab[t] \in {"adding", "submitting"}
  /\ TabShows(t, "failed")
  /\ UNCHANGED <<slip, contacts, service, booked, before>>

PaymentsStep(t) ==
  \/ check_contact(t) \/ add_contact(t) \/ BookTransaction(t)
  \/ Submit(t) \/ SubmitInvalid(t) \/ ContactAnswered(t) \/ ReadAmount(t)
  \/ TransactionAnswered(t) \/ TimesOut(t)

PaymentsNext == \E t \in Tabs : PaymentsStep(t)

PaymentsSpec == PaymentsInit /\ [][PaymentsNext]_paymentVars

-----------------------------------------------------------------------------
\* Two contacts share a label or an account only if the calls that stored them
\* ran at the same time (contacts.py:181): a call that began when another was
\* over never repeats its contact, however many pages were given up meanwhile.
DuplicatesNeedOverlap ==
  \A c, d \in contacts :
    c.form # d.form /\ (c.label = d.label \/ c.to = d.to) =>
      c.form \notin before[d.form] /\ d.form \notin before[c.form]

\* A transaction of a form that names a new contact is booked only after that
\* contact was stored, and a page says "successful" only for a booked one.
BookedAfterContact ==
  /\ \A t \in booked : slip[t].label # NoLabel => \E c \in contacts : c.form = t
  /\ \A t \in Tabs : tab[t] = "successful" => t \in booked
=============================================================================
