----------------------------- MODULE LoginServer -----------------------------
(***************************************************************************)
(* The login in the browser (loginserver, login).  The CLI serves a page   *)
(* on localhost; the dashboard sends the browser there with a token in the *)
(* fragment, and a script posts it to /authenticate.  Each request has a   *)
(* goroutine of its own; all of them, the goroutine that shuts the server  *)
(* down and the command share the fields err, jwt and temporaryToken of    *)
(* Service, without a lock.  The first request that comes to a verdict     *)
(* cancels the context, and so does a timeout of 15 minutes.               *)
(***************************************************************************)
EXTENDS Naturals, FiniteSets

CONSTANTS Requests,   \* requests that may come to a verdict
          Users,      \* users; the token of a user is the user itself
          NoToken, BadToken, SignUp  \* no token, one not parsed, the pseudo-token

ASSUME TokensAssumption == {NoToken, BadToken, SignUp} \cap Users = {}

Tokens == Users \cup {BadToken, SignUp}
Errors == {"none", "origin", "form", "token", "signup", "shutdown"}

VARIABLES
    ctx,       \* Service.ctx: live, canceled, expired
    server,    \* waitServer: waits, closed the listener, is over
    err, jwt, temporaryToken,   \* fields of Service; jwt is its e-mail
    req,       \* where the goroutine of a request is
    sends,     \* what a request brings
    page,      \* the page the browser is sent to
    workflow,  \* where browserWorkflowAuth is
    username, token,  \* Credentials, as far as they were read
    saved,     \* ~/.lcp: user and token of the remote
    result     \* how the login ended

fields    == <<err, jwt, temporaryToken>>
browser   == <<req, sends, page>>
command   == <<workflow, username, token, saved, result>>
loginVars == <<ctx, server, err, jwt, temporaryToken, req, sends, page, workflow,
               username, token, saved, result>>

-----------------------------------------------------------------------------
\* A user is logged in already, or none is.
LoginInit ==
    /\ ctx = "live"
    /\ server = "wait"
    /\ err = "none"
    /\ jwt = NoToken
    /\ temporaryToken = NoToken
    /\ req = [r \in Requests |-> "off"]
    /\ sends = [r \in Requests |-> NoToken]
    /\ page = [r \in Requests |-> "none"]
    /\ workflow = "serve"
    /\ username = NoToken
    /\ token = NoToken
    /\ saved \in {<<u, u>> : u \in Users \cup {NoToken}}
    /\ result = "none"

\* The deadline of Listen.
Expire ==
    /\ ctx = "live"
    /\ ctx' = "expired"
    /\ UNCHANGED <<server, fields, browser, command>>

At(r, from, to) == req[r] = from /\ req' = [req EXCEPT ![r] = to]

\* A request is accepted.  The home page without a foreign referer has no
\* effect, and neither have the paths that are not found.
Accept(r) ==
    /\ server = "wait"
    /\ \/ At(r, "off", "reject") /\ UNCHANGED sends
       \/ /\ At(r, "off", "post")
          /\ \E t \in Tokens : sends' = [sends EXCEPT ![r] = t]
    /\ UNCHANGED <<ctx, server, fields, page, command>>

\* homeHandler, authenticateHandler: the origin or the form is not good.
Reject(r) ==
    /\ At(r, "reject", "cancel")
    /\ err' \in {"origin", "form"}
    /\ page' = [page EXCEPT ![r] = "failure"]
    /\ UNCHANGED <<ctx, server, jwt, temporaryToken, sends, command>>

\* authenticateHandler: the token is put in the field...
Post(r) ==
    /\ At(r, "post", "parse")
    /\ temporaryToken' = sends[r]
    /\ UNCHANGED <<ctx, server, err, jwt, sends, page, command>>

\* Mutant: the pseudo-token of a sign-up is no error.
ParseSignUp(r) ==
    /\ At(r, "parse", "redirect")
    /\ err' = IF temporaryToken = BadToken THEN "token" ELSE "none"
    /\ jwt' = IF temporaryToken \in Users THEN temporaryToken ELSE NoToken
    /\ UNCHANGED <<ctx, server, temporaryToken, sends, page, command>>

\* ... and parsed from there.
Parse(r) ==
    /\ At(r, "parse", "redirect")
    /\ err' = CASE temporaryToken = SignUp   -> "signup"
                [] temporaryToken = BadToken -> "token"
                [] OTHER                     -> "none"
    /\ jwt' = CASE temporaryToken = SignUp   -> jwt
                [] temporaryToken = BadToken -> NoToken
                [] OTHER                     -> temporaryToken
    /\ UNCHANGED <<ctx, server, temporaryToken, sends, page, command>>

\* Mutant: the page of success is where every request with a token goes.
RedirectAlways(r) ==
    /\ At(r, "redirect", "cancel")
    /\ page' = [page EXCEPT ![r] = "success"]
    /\ UNCHANGED <<ctx, server, fields, sends, command>>

redirectToDashboard(r) ==
    /\ At(r, "redirect", "cancel")
    /\ page' = [page EXCEPT ![r] = CASE err = "none"   -> "success"
                                     [] err = "signup" -> "confirm"
                                     [] OTHER          -> "failure"]
    /\ UNCHANGED <<ctx, server, fields, sends, command>>

\* ctxCancel, the last thing a handler does.
Cancel(r) ==
    /\ At(r, "cancel", "over")
    /\ ctx' = IF ctx = "live" THEN "canceled" ELSE ctx
    /\ UNCHANGED <<server, fields, sends, page, command>>

Handler(r) == Accept(r) \/ Reject(r) \/ Post(r) \/ Parse(r)
              \/ redirectToDashboard(r) \/ Cancel(r)

Active == {r \in Requests : req[r] \notin {"off", "over"}}

-----------------------------------------------------------------------------
\* waitServer: Shutdown closes the listener, so that Serve returns...
CloseListener ==
    /\ server = "wait"
    /\ ctx # "live"
    /\ server' = "closed"
    /\ UNCHANGED <<ctx, fields, browser, command>>

\* Mutant: Shutdown waits for the requests, however long they take.
ShutdownPatient ==
    /\ server = "closed"
    /\ Active = {}
    /\ server' = "over"
    /\ UNCHANGED <<ctx, fields, browser, command>>

\* ... and returns: with the error of the context if a request is not over, or
\* a connection is new.  That it was canceled is not an error of the service.
Shutdown ==
    /\ server = "closed"
    /\ server' = "over"
    /\ err' \in (IF ctx = "expired" THEN {"shutdown"} ELSE {err})
                 \cup (IF Active = {} THEN {err} ELSE {})
    /\ UNCHANGED <<ctx, jwt, temporaryToken, browser, command>>

\* The login ends without a change of the configuration.
GiveUp(r) ==
    /\ workflow' = "done"
    /\ result' = r
    /\ UNCHANGED <<username, token, saved>>

\* Serve returns the error after waitServer is over.
Serve ==
    /\ workflow = "serve"
    /\ server = "over"
    /\ \/ err # "none" /\ GiveUp("failed")
       \/ /\ err = "none"
          /\ workflow' = "username"
          /\ UNCHANGED <<username, token, saved, result>>
    /\ UNCHANGED <<ctx, server, fields, browser>>

\* Credentials: three fields, one after the other.
ReadUsername ==
    /\ workflow = "username"
    /\ username' = jwt
    /\ workflow' = "token"
    /\ UNCHANGED <<ctx, server, fields, browser, token, saved, result>>

ReadToken ==
    /\ workflow = "token"
    /\ token' = temporaryToken
    /\ workflow' = "error"
    /\ UNCHANGED <<ctx, server, fields, browser, username, saved, result>>

ReadError ==
    /\ workflow = "error"
    /\ \/ err # "none" /\ GiveUp("failed")
       \/ /\ err = "none"
          /\ workflow' = "save"
          /\ UNCHANGED <<username, token, saved, result>>
    /\ UNCHANGED <<ctx, server, fields, browser>>

\* saveUser: the configuration is saved, or the login fails.
saveUser ==
    /\ workflow = "save"
    /\ \/ GiveUp("unsaved")
       \/ /\ saved' = <<username, token>>
          /\ workflow' = "done"
          /\ result' = "ok"
          /\ UNCHANGED <<username, token>>
    /\ UNCHANGED <<ctx, server, fields, browser>>

Service == CloseListener \/ Shutdown
Main    == Serve \/ ReadUsername \/ ReadToken \/ ReadError \/ saveUser

LoginNext == Expire \/ (\E r \in Requests : Handler(r)) \/ Service \/ Main

LoginSpec == LoginInit /\ [][LoginNext]_loginVars

\* The CLI runs and time passes; nothing is assumed of the browser, nor that a
\* request that began is ever over.
FairLoginSpec == /\ LoginSpec
                 /\ WF_loginVars(Expire) /\ WF_loginVars(Service) /\ WF_loginVars(Main)

-----------------------------------------------------------------------------
LoginTypeOK ==
    /\ ctx \in {"live", "canceled", "expired"}
    /\ server \in {"wait", "closed", "over"}
    /\ err \in Errors
    /\ jwt \in Users \cup {NoToken}
    /\ temporaryToken \in Tokens \cup {NoToken}
    /\ req \in [Requests -> {"off", "reject", "post", "parse", "redirect",
                             "cancel", "over"}]
    /\ sends \in [Requests -> Tokens \cup {NoToken}]
    /\ page \in [Requests -> {"none", "failure", "confirm", "success"}]
    /\ workflow \in {"serve", "username", "token", "error", "save", "done"}
    /\ username \in Users \cup {NoToken}
    /\ token \in Tokens \cup {NoToken}
    /\ saved \in (Users \cup {NoToken}) \X (Tokens \cup {NoToken})
    /\ result \in {"none", "ok", "failed", "unsaved"}

\* However the requests interleave, a login that was not timed out ends well
\* only if some request brought the token of a user and was let through: a
\* foreign origin, a sign-up or a bad token alone never logs in.
LoginNeedsUser ==
    result = "ok" /\ ctx # "expired" =>
        \E r \in Requests : sends[r] \in Users /\ req[r] \notin {"off", "post"}

\* With one request in time, the browser and the terminal say the same: the page
\* of success is shown if and only if its token was taken, and then it is the
\* token that is saved.
PageIsTrue ==
    \A r \in Requests :
        workflow = "done" /\ ctx = "canceled" /\ (\A o \in Requests \ {r} : req[o] = "off") =>
            /\ page[r] = "success" <=> result \in {"ok", "unsaved"}
            /\ result = "ok" => saved = <<sends[r], sends[r]>>

\* "Credentials for authenticated user or error": a login that ends well leaves
\* a user and a token.
CredentialsOrError == result = "ok" => saved[1] # NoToken /\ saved[2] # NoToken

\* The login ends, by a verdict or by the timeout, though a browser keeps a
\* request open for ever.
LoginEnds == <>(workflow = "done")
=============================================================================
