------------------------------- MODULE SignUp -------------------------------
(***************************************************************************)
(* Signing up and logging in: the frontend's signup() and _login_helper()  *)
(* call create_user() and login() of the user service, whose look-up,      *)
(* account number and insertion are separate statements on the users       *)
(* table.                                                                  *)
(*                                                                         *)
(* A form is one submission by a browser; the page waits a limited time    *)
(* for the service, which goes on all the same.  A password is abstracted  *)
(* to the one who knows it.                                                *)
(***************************************************************************)
EXTENDS Integers, FiniteSets

CONSTANTS
  Forms,  \* submissions of the sign-up or the login form
  Names,  \* user names
  Passwords,
  AccountIds,  \* ten-digit account numbers
  NoId

ASSUME SignUpAssumption == NoId \notin AccountIds

VARIABLES
  form,        \* name and password of each form
  users,       \* rows of the users table
  creation,    \* create_user() for each form
  picked,      \* its account number
  signupPage,  \* what the browser of each form waits for or was shown
  session      \* account of the token the browser holds

signUpVars == <<form, users, creation, picked, signupPage, session>>

UserRows == [name : Names, password : Passwords, accountid : AccountIds]

SignUpTypeOK ==
  /\ form \in [Forms -> [name : Names, password : Passwords]]
  /\ users \subseteq UserRows
  /\ creation \in [Forms -> {"none", "lookup", "absent", "numbered", "201", "400", "409", "500"}]
  /\ picked \in [Forms -> AccountIds \cup {NoId}]
  /\ signupPage \in [Forms -> {"new", "creating", "login", "home", "Account creation failed",
                         "Login Failed"}]
  /\ session \in [Forms -> AccountIds \cup {NoId}]

SignUpInit ==
  /\ form \in [Forms -> [name : Names, password : Passwords]]
  /\ users = {}
  /\ creation = [f \in Forms |-> "none"]
  /\ picked = [f \in Forms |-> NoId]
  /\ signupPage = [f \in Forms |-> "new"]
  /\ session = [f \in Forms |-> NoId]

Answer(f, code) == creation' = [creation EXCEPT ![f] = code]
PageShows(f, what) == signupPage' = [signupPage EXCEPT ![f] = what]

-----------------------------------------------------------------------------
(* The user service and its table. *)

get_user(name) == {u \in users : u.name = name}

\* __validate_new_user() and the check that the name is free; the statement may
\* fail as every other one.
create_user(f) ==
  /\ creation[f] = "lookup"
  /\ \/ Answer(f, "400")
     \/ Answer(f, "500")
     \/ Answer(f, IF get_user(form[f].name) # {} THEN "409" ELSE "absent")
  /\ UNCHANGED <<form, users, picked, signupPage, session>>

\* A random number no row has at this moment.
generate_accountid(f) ==
  /\ creation[f] = "absent"
  /\ \E id \in AccountIds \ {u.accountid : u \in users} :
       picked' = [picked EXCEPT ![f] = id]
  /\ Answer(f, "numbered")
  /\ UNCHANGED <<form, users, signupPage, session>>

NewRow(f) ==
  [name |-> form[f].name, password |-> form[f].password, accountid |-> picked[f]]

\* PRIMARY KEY (accountid) and UNIQUE (username) of the schema.
Admits(row) == \A u \in users : u.accountid # row.accountid /\ u.name # row.name

\* A refused row, a failing statement and an acknowledgement that is lost all
\* raise SQLAlchemyError.
add_user(f) ==
  /\ creation[f] = "numbered"
  /\ \/ /\ Admits(NewRow(f))
        /\ users' = users \cup {NewRow(f)}
        /\ Answer(f, "201") \/ Answer(f, "500")
     \/ Answer(f, "500") /\ UNCHANGED users
  /\ UNCHANGED <<form, picked, signupPage, session>>

-----------------------------------------------------------------------------
(* The frontend's pages. *)

\* signup() posts the form.
Post(f) ==
  /\ signupPage[f] = "new"
  /\ PageShows(f, "creating")
  /\ Answer(f, "lookup")
  /\ UNCHANGED <<form, users, picked, session>>

\* A user who has an account starts with login().
PostLogin(f) ==
  /\ signupPage[f] = "new"
  /\ PageShows(f, "login")
  /\ UNCHANGED <<form, users, creation, picked, session>>

\* 201 goes on to _login_helper(), every other answer is a failure.
SignedUp(f) ==
  /\ signupPage[f] = "creating" /\ creation[f] \in {"201", "400", "409", "500"}
  /\ PageShows(f, IF creation[f] = "201" THEN "login" ELSE "Account creation failed")
  /\ UNCHANGED <<form, users, creation, picked, session>>

\* BACKEND_TIMEOUT passes, or the connection breaks.
GiveUp(f) ==
  /\ signupPage[f] = "creating" /\ creation[f] \in {"lookup", "absent", "numbered", "201"}
  /\ PageShows(f, "Account creation failed")
  /\ UNCHANGED <<form, users, creation, picked, session>>

\* Mutant of Knows: any row of that name will do.
KnowsName(f, row) == row.name = form[f].name

\* bcrypt.checkpw()
Knows(f, row) == row.name = form[f].name /\ row.password = form[f].password

\* login(): the token names the account of the row; 404, 401, 500 and a timeout
\* all show "Login Failed".
_login_helper(f) ==
  /\ signupPage[f] = "login"
  /\ \/ \E row \in users : /\ Knows(f, row)
                           /\ session' = [session EXCEPT ![f] = row.accountid]
                           /\ PageShows(f, "home")
     \/ PageShows(f, "Login Failed") /\ UNCHANGED session
  /\ UNCHANGED <<form, users, creation, picked>>

SignUpStep(f) ==
  \/ Post(f) \/ PostLogin(f) \/ SignedUp(f) \/ GiveUp(f) \/ _login_helper(f)
  \/ create_user(f) \/ generate_accountid(f) \/ add_user(f)

SignUpNext == \E f \in Forms : SignUpStep(f)

SignUpSpec == SignUpInit /\ [][SignUpNext]_signUpVars

-----------------------------------------------------------------------------
\* Only the sign-up whose own row was stored is answered 201, and nobody else
\* has its name or number: of the sign-ups that pass the look-up of
\* userservice.py:92 together, one is.
CreatedIsOwn ==
  \A f \in Forms : creation[f] = "201" =>
    \A g \in Forms :
      /\ NewRow(f) \in users
      /\ g # f /\ creation[g] = "201" => picked[g] # picked[f] /\ form[g].name # form[f].name

\* Whoever gets in, by whatever races and retries: one user name is one account
\* and one password, and two names are two accounts.
AccountPerName ==
  \A f, g \in Forms : session[f] # NoId /\ session[g] # NoId =>
    /\ form[f].name = form[g].name <=> session[f] = session[g]
    /\ form[f].name = form[g].name => form[f].password = form[g].password
=============================================================================
