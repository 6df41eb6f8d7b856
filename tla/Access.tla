-------------------------------- MODULE Access --------------------------------
(***************************************************************************)
(* Who may use the views of c2cwsgiutils: the shared secret and the login  *)
(* with GitHub (auth.py), the index page with its links and the views of   *)
(* the login (index.py), seen from one browser with several tabs.          *)
(*                                                                         *)
(* The tabs share the cookies and the session.  A request is handled when  *)
(* it reaches the server, and changes the cookies when its response comes  *)
(* back; responses of different tabs come back in any order.  The          *)
(* application chooses the session of Pyramid: one that the server keeps,  *)
(* or one that is a cookie.  A cookie with the hash of a secret is written *)
(* as that secret.                                                         *)
(***************************************************************************)
EXTENDS Naturals, FiniteSets

CONSTANTS
  Tabs,         \* the tabs of the browser
  Secrets,      \* the values that C2C_SECRET takes
  None,         \* no value
  MaxEvents     \* bound: changes of the secret and of the permission, and logins

ASSUME AccessAssumption == MaxEvents \in Nat

VARIABLES
  settings,   \* the configuration
  permitted,  \* whether GitHub grants the user the access to the repository
  events,     \* how many bounded events there were
  cookie,     \* the cookie with the secret: a secret, or None
  jwt,        \* whether there is a cookie with the details of a GitHub user
  state,      \* session["oauth_state"], as the next request has it: the login it is of, or 0
  flow,       \* flow[t]: the login that the tab t sent to GitHub, or 0
  answer,     \* answer[t]: the response under way to the tab t
  page,       \* page[t]: the sections of the index page shown in t
  fresh,      \* history: tabs whose page was made with the present secret and cookies
  out,        \* history: the user logged out, and has not authenticated since
  after,      \* history: tabs with a request without credentials sent since the last logout
  overlapped  \* history: tabs during whose login another one wrote to the session

accessVars == <<settings, permitted, events, cookie, jwt, state, flow, answer, page, fresh, out,
                after, overlapped>>

------------------------------------------------------------------------------
(* auth.py                                                                 *)

\* auth_type: GitHub needs all its settings, and a secret for the cookie that is long enough.
AuthType ==
  IF settings.secret # None THEN "SECRET"
  ELSE IF settings.client /\ settings.repository /\ settings.key = "long" THEN "GITHUB"
  ELSE "NONE"

\* _is_auth_secret: the parameter, else the header, else the cookie; an empty value logs out, a
\* wrong one is refused, and the right one is written to the cookie (again).
IsAuthSecret(param, header) ==
  LET given == IF param # None THEN param ELSE IF header # None THEN header ELSE cookie IN
  IF given = "" THEN [ok |-> FALSE, does |-> "delete", value |-> None]
  ELSE IF given = settings.secret THEN [ok |-> TRUE, does |-> "set", value |-> given]
  ELSE [ok |-> FALSE, does |-> "nothing", value |-> None]

\* is_auth_user
IsAuthUser(param, header) ==
  CASE AuthType = "SECRET" -> IsAuthSecret(param, header)
    [] AuthType = "GITHUB" -> [ok |-> jwt, does |-> "nothing", value |-> None]
    [] AuthType = "NONE" -> [ok |-> FALSE, does |-> "nothing", value |-> None]

\* check_access: GitHub is asked about the repository each time.
CheckAccess(param, header) ==
  IsAuthUser(param, header).ok /\ (AuthType = "GITHUB" => permitted)

------------------------------------------------------------------------------
(* index.py                                                                *)

Public == {"health_check", "read_stats_json"}
Protected == {"versions", "debug", "db_maintenance", "logging_level", "sql_profiler"}

\* A section is there when its view is, which is enabled by its own setting alone: is_enabled
\* never finds that there is no authentication.
Linked(section) == section \in settings.enabled

\* Faulty variant: an user who is authenticated sees all the sections.
SectionsOfUser(param, header) ==
  {s \in Public \cup (IF IsAuthUser(param, header).ok \/ cookie # None THEN Protected ELSE {}) : Linked(s)}

\* _index
Sections(param, header) ==
  {s \in Public \cup (IF CheckAccess(param, header) THEN Protected ELSE {}) : Linked(s)}

------------------------------------------------------------------------------
Flags == [client : BOOLEAN, repository : BOOLEAN, key : {"none", "short", "long"},
          secret : Secrets \cup {None}, session : {"none", "cookie", "server"},
          enabled : {Public \cup Protected, {"debug"}}]

Effects == {"nothing", "set", "delete", "jwt", "forget", "login", "mismatch"}
Answers == [does : Effects, value : Secrets \cup {None}, shows : SUBSET (Public \cup Protected),
            session : 0..MaxEvents]

ASSUME NoneIsNothing == None \notin Secrets \cup Answers

AccessTypeOK ==
  /\ settings \in Flags
  /\ permitted \in BOOLEAN /\ events \in 0..MaxEvents
  /\ cookie \in Secrets \cup {None} /\ jwt \in BOOLEAN
  /\ state \in 0..MaxEvents /\ flow \in [Tabs -> 0..MaxEvents]
  /\ answer \in [Tabs -> Answers \cup {None}]
  /\ page \in [Tabs -> SUBSET (Public \cup Protected)]
  /\ out \in BOOLEAN
  /\ fresh \subseteq Tabs /\ after \subseteq Tabs /\ overlapped \subseteq Tabs

AccessInit ==
  /\ settings \in {f \in Flags : \/ f.secret = None /\ (f.session = "none" \/ (f.client /\ f.repository))
                                 \/ /\ ~f.client /\ ~f.repository
                                    /\ f.session = "none" /\ f.key = "none"}
  /\ permitted = TRUE /\ events = 0
  /\ cookie = None /\ jwt = FALSE /\ state = 0
  /\ flow = [t \in Tabs |-> 0]
  /\ answer = [t \in Tabs |-> None]
  /\ page = [t \in Tabs |-> {}]
  /\ out = FALSE /\ fresh = {} /\ after = {} /\ overlapped = {}

Event == events < MaxEvents /\ events' = events + 1

Respond(t, does, value, shows, session) ==
  answer' = [answer EXCEPT ![t] = [does |-> does, value |-> value, shows |-> shows, session |-> session]]

\* The index page, with or without a secret in the form, and an API key when it is not a browser.
GetIndex(t, param, header) ==
  LET user == IsAuthUser(param, header) IN
  /\ answer[t] = None
  /\ Respond(t, user.does, user.value, Sections(param, header), 0)
  /\ fresh' = fresh \cup {t}
  /\ after' = IF param = None /\ header = None THEN after \cup {t} ELSE after \ {t}
  /\ UNCHANGED <<settings, permitted, events, cookie, jwt, state, flow, page, out, overlapped>>

\* Whether the tab u waits for GitHub or, with a session on the server, for its redirect.
LoggingIn(u) ==
  \/ flow[u] # 0
  \/ settings.session = "server" /\ answer[u] # None /\ answer[u].does = "login"

\* The login of t writes its state to the session.
Overlaps(t) == (overlapped \ {t}) \cup {u \in Tabs \ {t} : LoggingIn(u)}

\* Faulty variant: the session keeps the state of the first login.
GithubLoginKeeping(t) ==
  /\ AuthType = "GITHUB" /\ answer[t] = None /\ Event
  /\ Respond(t, "login", None, {}, events + 1)
  /\ state' = IF settings.session = "server" /\ state = 0 THEN events + 1 ELSE state
  /\ overlapped' = IF settings.session = "server" THEN Overlaps(t) ELSE overlapped \ {t}
  /\ UNCHANGED <<settings, permitted, cookie, jwt, flow, page, fresh, out, after>>

\* _github_login: the state of this login replaces the one in the session, and the response sends
\* the browser to GitHub.  A session that is a cookie changes with the response.
GithubLogin(t) ==
  /\ AuthType = "GITHUB" /\ answer[t] = None /\ Event
  /\ Respond(t, "login", None, {}, events + 1)
  /\ state' = IF settings.session = "server" THEN events + 1 ELSE state
  /\ overlapped' = IF settings.session = "server" THEN Overlaps(t) ELSE overlapped \ {t}
  /\ UNCHANGED <<settings, permitted, cookie, jwt, flow, page, fresh, out, after>>

\* _github_login_callback: GitHub sends the browser back, with an error, or with a code that gives
\* a token unless it is of another login than the one the session knows of.  A session that is
\* a cookie may be written again as it was read.
GithubCallback(t, refused, again) ==
  LET does == IF settings.session # "none" /\ (state = 0 \/ (~refused /\ state # flow[t]))
              THEN "mismatch" ELSE IF refused THEN "nothing" ELSE "jwt"
  IN
  /\ flow[t] # 0 /\ answer[t] = None
  /\ flow' = [flow EXCEPT ![t] = 0]
  /\ Respond(t, does, None, {}, IF again /\ settings.session = "cookie" THEN state ELSE 0)
  /\ after' = after \ {t}
  /\ UNCHANGED <<settings, permitted, events, cookie, jwt, state, page, fresh, out, overlapped>>

\* Faulty variant: only the cookie of the secret is deleted.
GithubLogoutOfSecret(t) ==
  /\ AuthType = "GITHUB" /\ answer[t] = None
  /\ Respond(t, "delete", None, {}, 0)
  /\ UNCHANGED <<settings, permitted, events, cookie, jwt, state, flow, page, fresh, out, after,
                 overlapped>>

\* _github_logout, a route that exists for GitHub only.
GithubLogout(t) ==
  /\ AuthType = "GITHUB" /\ answer[t] = None
  /\ Respond(t, "forget", None, {}, 0)
  /\ UNCHANGED <<settings, permitted, events, cookie, jwt, state, flow, page, fresh, out, after,
                 overlapped>>

\* The response comes back, and with it the cookies it sets or deletes, the session among them.
Receive(t) ==
  LET does == answer[t].does
      logout == does \in {"delete", "forget"}
      writes == settings.session = "cookie" /\ answer[t].session # 0
  IN
  /\ answer[t] # None
  /\ cookie' = CASE does = "set" -> answer[t].value [] logout -> None [] OTHER -> cookie
  /\ jwt' = CASE does = "jwt" -> TRUE [] does = "forget" -> FALSE [] OTHER -> jwt
  /\ state' = IF writes THEN answer[t].session ELSE state
  /\ flow' = IF does = "login" THEN [flow EXCEPT ![t] = answer[t].session] ELSE flow
  /\ page' = [page EXCEPT ![t] = answer[t].shows]
  /\ answer' = [answer EXCEPT ![t] = None]
  /\ fresh' = IF logout \/ (does = "set" /\ answer[t].value # settings.secret) THEN {} ELSE fresh
  /\ out' = (logout \/ (out /\ (does \notin {"set", "jwt"} \/ t \in after)))
  /\ after' = IF logout THEN {} ELSE after
  /\ overlapped' = IF writes THEN Overlaps(t) ELSE overlapped
  /\ UNCHANGED <<settings, permitted, events>>

\* The operator deploys another secret, or GitHub another permission.
ChangeSecret(s) ==
  /\ AuthType = "SECRET" /\ s # settings.secret /\ Event
  /\ settings' = [settings EXCEPT !.secret = s]
  /\ fresh' = {}
  /\ UNCHANGED <<permitted, cookie, jwt, state, flow, answer, page, out, after, overlapped>>

ChangePermission ==
  /\ AuthType = "GITHUB" /\ Event
  /\ permitted' = ~permitted
  /\ fresh' = {}
  /\ UNCHANGED <<settings, cookie, jwt, state, flow, answer, page, out, after, overlapped>>

AccessNext ==
  \/ \E t \in Tabs :
       \/ \E param, header \in Secrets \cup {"", None} : GetIndex(t, param, header)
       \/ GithubLogin(t) \/ GithubLogout(t) \/ Receive(t)
       \/ \E refused, again \in BOOLEAN : GithubCallback(t, refused, again)
  \/ \E s \in Secrets : ChangeSecret(s)
  \/ ChangePermission

AccessSpec == AccessInit /\ [][AccessNext]_accessVars

------------------------------------------------------------------------------
\* What the index page links to can be used: until the user logs out, and the secret or the
\* permission changes, the views behind a protected section accept the cookies of the browser,
\* whichever of a parameter, a header and a cookie the page was asked for with.  (A late response
\* that was made with the previous secret changes it, too.)
LinkedIsAccepted ==
  \A t \in fresh : page[t] \cap Protected # {} /\ answer[t] = None =>
    CheckAccess(None, None)

\* After a logout, of either kind, access comes back by a secret that is given again, a login that
\* is completed, or the response to a request that was sent before the logout arrived: each request
\* with the cookie writes it again, and a response that is late undoes the logout.  No other
\* request of any tab does, whatever responses come between.
LogoutHolds == out => ~IsAuthUser(None, None).ok

\* A login is refused for its state only if another tab wrote to the session meanwhile: by a login
\* handled before the callback of this one when the server keeps the session, by the response to
\* a login or a callback when it is a cookie.  No login that was completed, refused or given up
\* earlier makes a later one fail.
LoneLoginCompletes ==
  \A t \in Tabs : answer[t] # None /\ answer[t].does = "mismatch" => t \in overlapped
===============================================================================
