----------------------------- MODULE RequestPath -----------------------------
(***************************************************************************)
(* One request after the other: the view, the error views that make a      *)
(* response of its exception (errors.py), the rendering, and the callbacks *)
(* that count the request when it is finished (stats_pyramid/              *)
(* _pyramid_spy.py).  The exception handling is enabled, so that each      *)
(* exception has a view.                                                   *)
(*                                                                         *)
(* An error view works on a request.response of its own, that Pyramid      *)
(* takes away again when it is done; Pyramid keeps the exception on the    *)
(* request, unless the error view failed itself, which leaves the answer   *)
(* to the WSGI server.                                                     *)
(***************************************************************************)
EXTENDS Naturals, Sequences, FiniteSets

CONSTANT MaxRequests  \* bound: requests in a run

ASSUME PathAssumption == MaxRequests \in Nat

VARIABLES
  incoming,   \* the method, whether it may see details, and whether a route matches
  phase,      \* view, error, render or finished
  exception,  \* the exception of the view, kept until the end: its kind and its code
  kept,       \* the status of request.response, as the view left it
  status,     \* the status that the client gets
  author,     \* who made that response: the data of the view, the view, an error view, the server
  callbacks,  \* the finished callbacks: route or render, in order
  counted,    \* what they counted: the kind and the status
  shown,      \* what the response says of the exception
  logged,     \* what the log says of it
  served      \* how many requests there were before

pathVars ==
  <<incoming, phase, exception, kept, status, author, callbacks, counted, shown, logged, served>>

NoError == [kind |-> "none", code |-> 0]

\* The codes stand for their hundreds; an exception that is not of HTTP has none, except the
\* one of a boto client, which has that of its answer, or 0 for one that is not a number.
Errors ==
  {[kind |-> k, code |-> 0] : k \in {"integrity", "interrupted", "beaker", "other"}} \cup
  {[kind |-> "boto", code |-> c] : c \in {0, 404, 503}} \cup
  {[kind |-> "http", code |-> c] : c \in {204, 302, 401, 404, 500, 503}}

PathTypeOK ==
  /\ incoming \in [method : {"GET", "OPTIONS"}, auth : BOOLEAN, route : BOOLEAN]
  /\ phase \in {"view", "error", "render", "finished"}
  /\ exception \in Errors \cup {NoError}
  /\ kept \in {200, 204, 500}
  /\ author \in {"nobody", "data", "view", "error", "server"}
  /\ status \in {200, 204, 302, 400, 401, 404, 500, 503}
  /\ callbacks \in Seq({"route", "render"})
  /\ counted \in Seq({"route", "render"} \X {200, 204, 302, 401, 404, 500, 503, 599})
  /\ shown \subseteq {"message", "statement", "stacktrace"}
  /\ logged \subseteq {"message", "statement"}
  /\ served \in 0..MaxRequests

\* _request_callback: a new request has the route callback.
NewRequest ==
  /\ incoming' \in [method : {"GET", "OPTIONS"}, auth : BOOLEAN, route : BOOLEAN]
  /\ phase' = "view" /\ exception' = NoError
  /\ kept' = 200 /\ status' = 200 /\ author' = "nobody"
  /\ callbacks' = <<"route">> /\ counted' = <<>> /\ shown' = {} /\ logged' = {}

PathInit ==
  /\ incoming \in [method : {"GET", "OPTIONS"}, auth : BOOLEAN, route : BOOLEAN]
  /\ phase = "view" /\ exception = NoError
  /\ kept = 200 /\ status = 200 /\ author = "nobody"
  /\ callbacks = <<"route">> /\ counted = <<>> /\ shown = {} /\ logged = {} /\ served = 0

------------------------------------------------------------------------------
\* A view that returns data, having set the status of request.response; without a route the
\* exception is HTTPNotFound.
ViewReturns(code) ==
  /\ phase = "view" /\ incoming.route
  /\ kept' = code /\ status' = code /\ author' = "data" /\ phase' = "render"
  /\ UNCHANGED <<incoming, exception, callbacks, counted, shown, logged, served>>

\* A view that returns a response of its own: nothing is rendered, and request.response has
\* the status it had.
ViewResponds(code) ==
  /\ phase = "view" /\ incoming.route
  /\ status' = code /\ author' = "view" /\ phase' = "finished"
  /\ UNCHANGED <<incoming, exception, kept, callbacks, counted, shown, logged, served>>

\* The view may have set the status of request.response before.
ViewRaises(e, code) ==
  /\ phase = "view"
  /\ ~incoming.route => e = [kind |-> "http", code |-> 404] /\ code = 200
  /\ exception' = e /\ kept' = code /\ phase' = "error"
  /\ UNCHANGED <<incoming, status, author, callbacks, counted, shown, logged, served>>

\* _do_error logs first, then takes the details away from who may not see them.
DoError(code, reduced, details) ==
  /\ status' = code /\ author' = "error"
  /\ logged' = details
  /\ shown' = IF incoming.auth THEN details \cup {"stacktrace"} ELSE details \ reduced
  /\ phase' = "render"
  /\ UNCHANGED <<incoming, exception, kept, callbacks, counted, served>>

\* The error view, or the rendering of its data, raises: Pyramid takes the exception off the
\* request, and the server answers what nobody caught.
ErrorViewFails ==
  /\ exception' = NoError /\ status' = 500 /\ author' = "server" /\ shown' = {}
  /\ phase' = "finished"

HttpError ==
  /\ phase = "error" /\ exception.kind = "http" /\ exception.code >= 400
  /\ author' = "error"
  /\ IF incoming.method = "OPTIONS"
     THEN status' = 200 /\ phase' = "finished" /\ UNCHANGED <<shown, logged>>
     ELSE /\ status' = exception.code /\ phase' = "render"
          /\ shown' = {"message"} /\ logged' = {"message"}
  /\ UNCHANGED <<incoming, exception, kept, callbacks, counted, served>>

IntegrityError ==
  /\ phase = "error" /\ exception.kind = "integrity"
  /\ DoError(400, {"statement"}, {"message", "statement"})

ClientInterrupted ==
  /\ phase = "error" /\ exception.kind = "interrupted"
  /\ DoError(500, {}, {"message"})

BotoClientError ==
  /\ phase = "error" /\ exception.kind = "boto" /\ exception.code # 0
  /\ DoError(exception.code, {}, {"message"})

\* int() of a code that is not a number, before anything is logged.
BotoClientErrorFails ==
  /\ phase = "error" /\ exception.kind = "boto" /\ exception.code = 0
  /\ ErrorViewFails
  /\ UNCHANGED <<incoming, kept, callbacks, counted, logged, served>>

OtherError ==
  /\ phase = "error" /\ exception.kind \in {"beaker", "other"}
  /\ DoError(IF exception.kind = "beaker" THEN 401 ELSE 500, {}, {"message"})

\* _passthrough: the exception is the response.
Passthrough ==
  /\ phase = "error" /\ exception.kind = "http" /\ exception.code < 400
  /\ status' = exception.code /\ author' = "error" /\ phase' = "finished"
  /\ UNCHANGED <<incoming, exception, kept, callbacks, counted, shown, logged, served>>

\* BeforeRender: one more callback, for the data of the view or of the error view.
Render ==
  /\ phase = "render"
  /\ callbacks' = Append(callbacks, "render") /\ phase' = "finished"
  /\ UNCHANGED <<incoming, exception, kept, status, author, counted, shown, logged, served>>

\* Rendering fails in the JSON, of the view or of the error view; the callback of this
\* rendering stays.
RenderFails ==
  /\ phase = "render"
  /\ callbacks' = Append(callbacks, "render")
  /\ \/ /\ exception = NoError
        /\ exception' = [kind |-> "other", code |-> 0] /\ phase' = "error"
        /\ UNCHANGED <<status, author, shown>>
     \/ exception # NoError /\ ErrorViewFails
  /\ UNCHANGED <<incoming, kept, counted, logged, served>>

\* Faulty variant: only the status of request.response is asked.
CountedResponse == kept

\* What finished_cb counts: the exception is asked first, then request.response.
CountedStatus ==
  IF exception # NoError THEN IF exception.kind = "http" THEN exception.code ELSE 599 ELSE kept

Finish ==
  /\ phase = "finished" /\ callbacks # <<>>
  /\ counted' = Append(counted, <<Head(callbacks), CountedStatus>>)
  /\ callbacks' = Tail(callbacks)
  /\ UNCHANGED <<incoming, phase, exception, kept, status, author, shown, logged, served>>

NextRequest ==
  /\ phase = "finished" /\ callbacks = <<>> /\ served < MaxRequests
  /\ served' = served + 1
  /\ NewRequest

PathNext ==
  \/ \E code \in {200, 204, 500} :
       ViewReturns(code) \/ ViewResponds(code) \/ \E e \in Errors : ViewRaises(e, code)
  \/ HttpError \/ IntegrityError \/ ClientInterrupted \/ BotoClientError \/ BotoClientErrorFails
  \/ OtherError \/ Passthrough \/ Render \/ RenderFails \/ Finish \/ NextRequest

PathSpec == PathInit /\ [][PathNext]_pathVars

------------------------------------------------------------------------------
\* The counters of a request, the route's and each rendering's, look at the exception and at
\* request.response, and not at the response.  They agree with it on a failure of the server
\* that comes from the data of the view or from an error view: a status of 500 or more is
\* counted as one, whatever the view had set before, and when the data of the view could not
\* be rendered too.
\* Nothing is promised of a response that the view made itself, nor of an error view that
\* fails: those count what is in request.response.  And what the response shows of the
\* exception, but the stack trace, is in the log.
FailureIsCounted ==
  phase = "finished" =>
    /\ author \in {"data", "error"} /\ status >= 500 =>
         \A i \in 1..Len(counted) : counted[i][2] >= 500
    /\ shown \subseteq logged \cup {"stacktrace"}
==============================================================================
