------------------------------- MODULE Pages -------------------------------
(***************************************************************************)
(* The frontend's pages as one browser sees them: a request passes the     *)
(* waiting room, is answered with a page or a redirect, and the browser    *)
(* follows a redirect with a GET.                                          *)
(*                                                                         *)
(* Whether the waiting room lets the browser pass is a choice here (module *)
(* WaitingRoom says how it is made); a seat ends only while a page is      *)
(* shown, since every request prolongs it.  "oauth" is the response_type   *)
(* and client_id a login is asked with.                                    *)
(***************************************************************************)
EXTENDS Integers

CONSTANT Nowhere

VARIABLES
  registered,  \* the OAuth client of the environment exists
  token,       \* the cookie: none, one that verifies, one that does not
  consented,   \* the consent cookie
  inside,      \* the waiting room lets the browser pass
  asking,      \* what the browser is asking for
  shown,       \* the page it shows
  hops         \* redirects since the user's last click

pageVars == <<registered, token, consented, inside, asking, shown, hops>>

Paths == {"/", "/home", "/login", "/signup", "/consent", "/payment", "/logout"}
OAuth == {"no", "client", "other"}
Askings ==
  [method : {"GET", "POST"}, path : Paths, oauth : OAuth]
    \cup [method : {"GET"}, path : {"/waiting"}, target : Paths]
Shown ==
  [page : {"home", "signup", "consent", "external", "401", "405", "503", "blank"}]
    \cup [page : {"login"}, oauth : OAuth] \cup [page : {"waiting"}, target : Paths]

PagesTypeOK ==
  /\ registered \in BOOLEAN /\ consented \in BOOLEAN /\ inside \in BOOLEAN
  /\ token \in {"none", "verified", "invalid"}
  /\ asking \in Askings \cup {Nowhere}
  /\ shown \in Shown
  /\ hops \in Nat

PagesInit ==
  /\ registered \in BOOLEAN
  /\ token = "none" /\ consented = FALSE /\ inside = FALSE
  /\ asking = Nowhere /\ shown = [page |-> "blank"] /\ hops = 0

GET(path, oauth) == [method |-> "GET", path |-> path, oauth |-> oauth]
POST(path, oauth) == [method |-> "POST", path |-> path, oauth |-> oauth]

Render(page) == asking' = Nowhere /\ shown' = [page |-> page] /\ UNCHANGED hops
Redirect(to) == asking' = to /\ hops' = hops + 1 /\ UNCHANGED shown

\* verify_token()
SignedIn == token = "verified"

\* Mutant of AlreadySignedIn: a token that is there is taken to be valid.
AlreadySignedInUnverified == token # "none"

\* The login and sign-up pages are for those who are not authenticated yet.
AlreadySignedIn == SignedIn

-----------------------------------------------------------------------------
(* The waiting room. *)

Gated == asking # Nowhere /\ asking.path # "/waiting"
Admitted == inside' = TRUE
Asks(method, path) == Gated /\ inside /\ asking.method = method /\ asking.path = path

\* handle_waiting_room() turns a request away: of what was asked, only the path
\* is kept.
TurnAway ==
  /\ Gated /\ ~inside
  /\ Redirect([method |-> "GET", path |-> "/waiting", target |-> asking.path])
  /\ UNCHANGED <<registered, token, consented, inside>>

\* There is a seat for a newcomer.
LetIn ==
  /\ Gated /\ ~inside
  /\ inside' = TRUE
  /\ UNCHANGED <<registered, token, consented, asking, shown, hops>>

\* Redis does not answer.
RoomDown ==
  /\ asking # Nowhere
  /\ Render("503")
  /\ UNCHANGED <<registered, token, consented, inside>>

\* waiting_page(): once admitted, on to the target, by GET.
waiting_page ==
  /\ asking # Nowhere /\ asking.path = "/waiting"
  /\ \/ Admitted /\ Redirect(GET(asking.target, "no"))
     \/ /\ ~inside /\ UNCHANGED <<inside, hops>>
        /\ asking' = Nowhere
        /\ shown' = [page |-> "waiting", target |-> asking.target]
  /\ UNCHANGED <<registered, token, consented>>

-----------------------------------------------------------------------------
(* The handlers, which run inside. *)

\* home() waits for its three calls and leaves blank what fails.
home ==
  /\ Asks("GET", "/home")
  /\ IF SignedIn THEN Render("home") ELSE Redirect(GET("/login", "no"))
  /\ UNCHANGED <<registered, token, consented, inside>>

LoginForm(oauth) ==
  asking' = Nowhere /\ shown' = [page |-> "login", oauth |-> oauth] /\ UNCHANGED hops

\* login_page(): only with a registered client is the flow one of its own.
login_page ==
  /\ Asks("GET", "/login")
  /\ IF registered /\ asking.oauth # "no"
       THEN IF asking.oauth = "other" THEN Redirect(GET("/login", "no"))
            ELSE IF AlreadySignedIn THEN Redirect(GET("/consent", "no"))
                 ELSE LoginForm("client")
       ELSE IF AlreadySignedIn THEN Redirect(GET("/home", "no")) ELSE LoginForm(asking.oauth)
  /\ UNCHANGED <<registered, token, consented, inside>>

\* root() calls home() or login_page() itself.
root ==
  /\ Asks("GET", "/")
  /\ IF SignedIn THEN Render("home") ELSE LoginForm("no")
  /\ UNCHANGED <<registered, token, consented, inside>>

\* login() and, for a user just created, signup() end in _login_helper(); a token
\* made with another clock or key does not verify here.
AfterLogin(oauth) ==
  \/ /\ token' \in {"verified", "invalid"}
     /\ Redirect(GET(IF oauth # "no" THEN "/consent" ELSE "/home", "no"))
  \/ Redirect(GET("/login", "no")) /\ UNCHANGED token

login ==
  /\ Asks("POST", "/login")
  /\ AfterLogin(asking.oauth)
  /\ UNCHANGED <<registered, consented, inside>>

signup ==
  /\ Asks("POST", "/signup")
  /\ AfterLogin("no")
  /\ UNCHANGED <<registered, consented, inside>>

signup_page ==
  /\ Asks("GET", "/signup")
  /\ IF AlreadySignedIn THEN Redirect(GET("/home", "no")) ELSE Render("signup")
  /\ UNCHANGED <<registered, token, consented, inside>>

\* consent_page(): the redirect to the login names no client.
consent_page ==
  /\ Asks("GET", "/consent")
  /\ IF SignedIn THEN Render(IF consented THEN "external" ELSE "consent")
     ELSE Redirect(GET("/login", "other"))
  /\ UNCHANGED <<registered, token, consented, inside>>

\* consent(): the browser leaves for redirect_uri, with or without a code.
consent ==
  /\ Asks("POST", "/consent")
  /\ Render("external")
  /\ consented' \in {TRUE, consented}
  /\ UNCHANGED <<registered, token, inside>>

\* payment() and deposit() (module Payments) go home with a message.
payment ==
  /\ Asks("POST", "/payment")
  /\ IF SignedIn THEN Redirect(GET("/home", "no")) ELSE Render("401")
  /\ UNCHANGED <<registered, token, consented, inside>>

logout ==
  /\ Asks("POST", "/logout")
  /\ token' = "none" /\ consented' = FALSE
  /\ Redirect(GET("/login", "no"))
  /\ UNCHANGED <<registered, inside>>

\* These paths have no handler for GET.
MethodNotAllowed ==
  /\ Asks("GET", "/payment") \/ Asks("GET", "/logout")
  /\ Render("405")
  /\ UNCHANGED <<registered, token, consented, inside>>

Handler ==
  \/ TurnAway \/ LetIn \/ RoomDown \/ waiting_page
  \/ home \/ login_page \/ root \/ login \/ signup \/ signup_page
  \/ consent_page \/ consent \/ payment \/ logout \/ MethodNotAllowed

-----------------------------------------------------------------------------
(* The user, while a page is shown. *)

UserAsks(what) ==
  /\ asking' = what /\ hops' = 0
  /\ UNCHANGED <<registered, token, consented, inside, shown>>

\* An address is typed, a link followed, or the page's form submitted.
Click ==
  /\ asking = Nowhere
  /\ \/ \E path \in {"/", "/home", "/signup", "/consent"} : UserAsks(GET(path, "no"))
     \/ \E oauth \in OAuth : UserAsks(GET("/login", oauth))
     \/ shown.page = "login" /\ UserAsks(POST("/login", shown.oauth))
     \/ shown.page = "signup" /\ UserAsks(POST("/signup", "no"))
     \/ shown.page = "consent" /\ UserAsks(POST("/consent", "no"))
     \/ \E path \in {"/payment", "/logout"} : shown.page = "home" /\ UserAsks(POST(path, "no"))

\* waiting.html reports that the turn has come, and moves to its target.
TurnComes ==
  /\ asking = Nowhere /\ shown.page = "waiting"
  /\ asking' = GET(shown.target, "no") /\ hops' = 0
  /\ inside' = TRUE
  /\ UNCHANGED <<registered, token, consented, shown>>

\* The seat ends while a page is shown, the token at any time.
Lapse ==
  /\ \/ asking = Nowhere /\ inside' = FALSE /\ UNCHANGED token
     \/ token' \in {"none", "invalid"} /\ token # "none" /\ UNCHANGED inside
  /\ UNCHANGED <<registered, consented, asking, shown, hops>>

PagesNext == Handler \/ Click \/ TurnComes \/ Lapse

PagesSpec == PagesInit /\ [][PagesNext]_pageVars

-----------------------------------------------------------------------------
\* A click ends on a page after at most four redirects, whatever the state of the
\* token, the seat, the consent and the OAuth client: the pages that redirect
\* each other when a token is missing, or present, never do so in a circle.
RedirectsEnd == hops <= 4

\* frontend.py:293 says that when the turn comes, the browser goes to the page
\* it had asked for.  The room keeps neither the method nor the form.
TurnReachesTarget == shown.page # "405"
=============================================================================
