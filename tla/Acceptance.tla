------------------------------ MODULE Acceptance ------------------------------
(***************************************************************************)
(* The library for acceptance tests: retries (acceptance/__init__.py,      *)
(* utils.py), checked requests (connection.py), the print server           *)
(* (print.py) and the comparison of images (image.py).                     *)
(*                                                                         *)
(* A test does one job against a service that starts, answers, fails and   *)
(* restarts as it likes.  Time is a number; each try takes some.           *)
(***************************************************************************)
EXTENDS Naturals, FiniteSets

CONSTANTS
  WaitTimeout, \* the timeout of the test, in units of time
  Tries,       \* the tries of the decorator retry
  MaxTime      \* bound: the longest a test may take

ASSUME TestAssumption == MaxTime \in Nat

VARIABLES
  job,        \* wait_url, wait_ready, get_pdf, retry or image
  step,       \* the step of the job, and its verdict in the end
  clock,      \* the time since the job began
  tried,      \* how often the present function was tried
  report,     \* the report on the print server
  submitted,  \* how many were submitted
  response,   \* the last response that was looked at
  polled,     \* the report as the last poll saw it
  expected,   \* the expected image: none, or how it compares with the one to check
  compared    \* history: how the expected image was when it was compared

testVars == <<job, step, clock, tried, report, submitted, response, polled, expected, compared>>

Jobs == {"wait_url", "wait_ready", "get_pdf", "retry", "image"}
Steps == {"start", "poll", "download", "passed", "failed"}

\* What is looked at in a response; no response is a connection that is refused.
Responses == [status : {200, 404, 500}, cache : {"none", "no-cache", "max-age", "max-age=0"},
              cors : {"none", "any", "origin"}, json : BOOLEAN]
NoResponse == [status |-> 0, cache |-> "none", cors |-> "none", json |-> FALSE]

Images == {"same", "similar", "different", "other shape"}

TestTypeOK ==
  /\ job \in Jobs /\ step \in Steps
  /\ clock \in 0..(MaxTime + 1) /\ tried \in Nat
  /\ report \in {"none", "queued", "finished", "error"} /\ submitted \in Nat
  /\ response \in Responses \cup {NoResponse}
  /\ polled \in {"none", "queued", "finished", "error"}
  /\ expected \in Images \cup {"none"} /\ compared \in Images \cup {"none"}

TestInit ==
  /\ job \in Jobs /\ step = "start" /\ clock = 0 /\ tried = 0
  /\ report = "none" /\ submitted = 0
  /\ response = NoResponse /\ polled = "none"
  /\ expected \in (IF job = "image" THEN Images \cup {"none"} ELSE {"none"})
  /\ compared = "none"

------------------------------------------------------------------------------
(* connection.py: what the verbs accept.  They check the status and the    *)
(* cache and, with cors, the origin; the JSON ones the type as well.       *)

CheckResponse(r, cache) ==
  /\ r.status = 200
  /\ cache = "NO" => r.cache = "no-cache"
  /\ cache = "YES" => r.cache = "max-age"

\* Without credentials any origin has to be allowed.
CheckCors(r, credentials) == r.cors = (IF credentials THEN "origin" ELSE "any")

GetJson(r, cache, credentials) == CheckResponse(r, cache) /\ CheckCors(r, credentials) /\ r.json
PostJson(r, credentials) == GetJson(r, "NO", credentials)
GetRaw(r, cache, credentials) == CheckResponse(r, cache) /\ CheckCors(r, credentials)

------------------------------------------------------------------------------
(* Retries.                                                                *)

\* Faulty variant: the end of the timeout is no error.
GiveUpQuietly(next) == IF clock' > WaitTimeout THEN step' = "passed" ELSE step' = next

\* retry_timeout, when a try gave nothing or an error: another one, unless it is too late.
GiveUp(next) == IF clock' > WaitTimeout THEN step' = "failed" ELSE step' = next

\* One try of d units of time, counted from 1 for each function that is retried.
Try(d) ==
  /\ clock' = IF clock + d > MaxTime THEN MaxTime + 1 ELSE clock + d
  /\ tried' = tried + 1

\* retry: an error that is to be checked leads to the message of the next try.  The
\* message cannot be formatted, which is an error that is not checked.
RetryDecorated(succeeds) ==
  /\ job = "retry" /\ step = "start" /\ Try(1)
  /\ step' = IF succeeds THEN "passed" ELSE "failed"
  /\ UNCHANGED <<job, report, submitted, response, polled, expected, compared>>

\* wait_url: 200 is enough; anything else, or no answer, is tried again.
WaitUrl(r, d) ==
  /\ job = "wait_url" /\ step = "start" /\ Try(d)
  /\ response' = r
  /\ IF r.status = 200 THEN step' = "passed" ELSE GiveUp("start")
  /\ UNCHANGED <<job, report, submitted, polled, expected, compared>>

\* wait_ready: an assertion that fails is one more reason to try again.
WaitReady(r, credentials, d) ==
  /\ job = "wait_ready" /\ step = "start" /\ Try(d)
  /\ response' = r
  /\ IF GetJson(r, "YES", credentials) THEN step' = "passed" ELSE GiveUp("start")
  /\ UNCHANGED <<job, report, submitted, polled, expected, compared>>

------------------------------------------------------------------------------
(* print.py                                                                *)

\* get_pdf: the report is submitted, once; the timeout begins after it.
SubmitReport(r, credentials) ==
  /\ job = "get_pdf" /\ step = "start"
  /\ response' = r
  /\ IF r.status = 200 THEN report' = "queued" /\ submitted' = submitted + 1
     ELSE UNCHANGED <<report, submitted>>
  /\ step' = IF PostJson(r, credentials) THEN "poll" ELSE "failed"
  /\ UNCHANGED <<job, clock, tried, polled, expected, compared>>

\* _check_completion, tried until the report is done: a report that was lost is asked for until
\* the timeout, and one that ended by an error fails the test.
CheckCompletion(r, credentials, d) ==
  /\ job = "get_pdf" /\ step = "poll" /\ Try(d)
  /\ r.status = 200 => report # "none"
  /\ response' = r /\ polled' = report
  /\ IF GetJson(r, "NO", credentials) /\ report \in {"finished", "error"}
     THEN step' = IF report = "finished" THEN "download" ELSE "failed"
     ELSE GiveUp("poll")
  /\ UNCHANGED <<job, report, submitted, expected, compared>>

Download(r, credentials, pdf) ==
  /\ job = "get_pdf" /\ step = "download"
  /\ response' = r
  /\ step' = IF GetRaw(r, "NO", credentials) /\ pdf THEN "passed" ELSE "failed"
  /\ UNCHANGED <<job, clock, tried, report, submitted, polled, expected, compared>>

PrintServer ==
  /\ report = "queued"
  /\ report' \in {"finished", "error", "none"}
  /\ UNCHANGED <<job, step, clock, tried, submitted, response, polled, expected, compared>>

------------------------------------------------------------------------------
(* image.py                                                                *)

\* check_image: a mask of the wrong kind or shape fails before anything is written; without
\* an expected image the image becomes the expected one, and the test fails all the same.
CheckImage(generate, mask) ==
  /\ job = "image" /\ step = "start"
  /\ IF mask = "wrong" THEN step' = "failed" /\ UNCHANGED <<expected, compared>>
     ELSE IF generate THEN expected' = "same" /\ step' = "passed" /\ compared' = "same"
     ELSE IF expected = "none" THEN expected' = "same" /\ step' = "failed" /\ UNCHANGED compared
     ELSE /\ step' = IF expected \in {"same", "similar"} THEN "passed" ELSE "failed"
          /\ compared' = expected /\ UNCHANGED expected
  /\ UNCHANGED <<job, clock, tried, report, submitted, response, polled>>

\* The test is run again, for another image too.
RunAgain(image) ==
  /\ job = "image" /\ step \in {"passed", "failed"}
  /\ step' = "start" /\ compared' = "none"
  /\ expected' = IF expected = "none" THEN "none" ELSE image
  /\ UNCHANGED <<job, clock, tried, report, submitted, response, polled>>

TestNext ==
  \/ \E succeeds \in BOOLEAN : RetryDecorated(succeeds)
  \/ \E r \in Responses \cup {NoResponse}, credentials \in BOOLEAN :
       \/ \E d \in 1..2 : WaitReady(r, credentials, d) \/ CheckCompletion(r, credentials, d)
       \/ SubmitReport(r, credentials)
       \/ \E pdf \in BOOLEAN : Download(r, credentials, pdf)
  \/ \E r \in Responses \cup {NoResponse}, d \in 1..2 : WaitUrl(r, d)
  \/ PrintServer
  \/ \E generate \in BOOLEAN, mask \in {"none", "right", "wrong"} : CheckImage(generate, mask)
  \/ \E image \in Images : RunAgain(image)

TestSpec == TestInit /\ [][TestNext]_testVars

------------------------------------------------------------------------------
\* No test passes for another reason than what it tests: an answer 200 came in the try that
\* ended the wait, a report that was submitted once, whatever the retries, was finished and then
\* downloaded, an image was close enough to one that was expected before (or was generated).
NoFalsePass ==
  /\ submitted <= 1
  /\ step = "passed" =>
       CASE job \in {"wait_url", "wait_ready"} -> response.status = 200
         [] job = "get_pdf" -> submitted = 1 /\ polled = "finished" /\ response.status = 200
         [] job = "image" -> compared \in {"same", "similar"}
         [] OTHER -> TRUE

\* The decorator gives up after the number of tries that it was given.
RetriedToTheEnd == job = "retry" /\ step = "failed" => tried = Tries
==============================================================================
