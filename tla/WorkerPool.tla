------------------------------- MODULE WorkerPool -------------------------------
(***************************************************************************)
(* The publisher as a server that calls itself.  One process: an event     *)
(* loop accepts requests and runs the "async" handlers; the others wait in *)
(* line for one of a few worker threads.  Handlers on a worker call this   *)
(* same server back (pictures of the media gateway, uploads of redacted    *)
(* ones, /platform/ingest) and other services, each call with a timeout;   *)
(* an upload pushes to IPFS while it holds the event loop.                 *)
(***************************************************************************)
EXTENDS Naturals, Sequences, FiniteSets

CONSTANTS
  PoolSize,
  Configured,       \* of {"vlm", "redactor"}, the injectors of the pipeline
  OuterKinds,       \* kinds of requests that come from outside
  MaxBrowsers       \* bound

\* A step of a handler: a call to a handler of this server, or to a service outside.
Call(to, needed) == [to |-> to, needed |-> needed]

\* What each handler calls, in order; a needed call that fails ends the handler with an error,
\* which is an answer too.
DescribeCalls == <<Call("media_get", FALSE), Call("external", FALSE)>>
BlurCalls == <<Call("media_get", FALSE), Call("media_upload", FALSE)>>
PublishCalls == (IF "vlm" \in Configured THEN DescribeCalls ELSE <<>>)
                \o (IF "redactor" \in Configured THEN BlurCalls ELSE <<>>)
                \o <<Call("platform_ingest", TRUE)>>
RenderCalls == <<Call("media_get", FALSE)>>
IpfsGetCalls == <<Call("external", TRUE)>>
UploadCalls == <<Call("external", FALSE)>>
Script(kind) == CASE kind = "publish" -> PublishCalls
                  [] kind = "render_url" -> RenderCalls
                  [] kind = "ipfs_get" -> IpfsGetCalls
                  [] kind = "media_upload" -> UploadCalls
                  [] OTHER -> <<>>

\* blur_pii does not upload, and describe does not ask the model, without the picture.
AfterFailure(todo) ==
  CASE Head(todo).needed -> <<>>
    [] ~Head(todo).needed /\ Head(todo).to = "media_get" /\ Len(todo) > 2 -> Tail(Tail(todo))
    [] OTHER -> Tail(todo)

ASSUME PoolAssumption == PoolSize \in Nat \ {0} /\ Configured \subseteq {"vlm", "redactor"}

VARIABLES
  inFlight,   \* those not answered: id -> [kind, todo, state]
  line,       \* the ids of those that wait for a worker, in order
  browsers    \* how many requests there have been from outside

poolVars == <<inFlight, line, browsers>>

\* A request is known by the browser it comes from and the calls left when it was made, 0 for the
\* browser's own.  Its caller waits for it only as long as it has as many calls left.
Ids == DOMAIN inFlight
Id(browser, left) == [browser |-> browser, left |-> left]
New(kind) == [kind |-> kind, todo |-> Script(kind), state |-> "sent"]
Caller(i) == {c \in Ids : /\ i.left > 0 /\ c = Id(i.browser, 0)
                          /\ inFlight[c].state = "calling" /\ Len(inFlight[c].todo) = i.left}

Async(kind) == kind = "media_upload"
Runs(i) == inFlight[i].state \in {"running", "calling"}
LoopFree == \A i \in Ids : Async(inFlight[i].kind) => ~Runs(i)
Workers == {i \in Ids : ~Async(inFlight[i].kind) /\ Runs(i)}

With(reqs, i, r) == [j \in DOMAIN reqs \cup {i} |-> IF j = i THEN r ELSE reqs[j]]
Without(reqs, i) == [j \in DOMAIN reqs \ {i} |-> reqs[j]]
Moves(i, s) == inFlight' = [inFlight EXCEPT ![i].state = s]
Continues(reqs, i, todo) == With(reqs, i, [kind |-> reqs[i].kind, todo |-> todo, state |-> "running"])

-----------------------------------------------------------------------------
Browse(kind) ==
  /\ browsers < MaxBrowsers
  /\ browsers' = browsers + 1
  /\ inFlight' = With(inFlight, Id(browsers + 1, 0), New(kind))
  /\ UNCHANGED line

\* The loop takes a request: runs it itself, or puts it in the line of the pool.
Accept(i) ==
  /\ inFlight[i].state = "sent" /\ LoopFree
  /\ IF Async(inFlight[i].kind) THEN Moves(i, "running") /\ UNCHANGED line
     ELSE Moves(i, "waiting") /\ line' = Append(line, i)
  /\ UNCHANGED browsers

Dispatch ==
  /\ line # <<>> /\ LoopFree /\ Cardinality(Workers) < PoolSize
  /\ Moves(Head(line), "running")
  /\ line' = Tail(line)
  /\ UNCHANGED browsers

\* A handler calls, and holds its worker, or the loop, until it is answered or gives up.
CallOut(i) ==
  /\ inFlight[i].state = "running" /\ inFlight[i].todo # <<>>
  /\ LET to == Head(inFlight[i].todo).to
         calling == [inFlight EXCEPT ![i].state = "calling"]
     IN  inFlight' = IF to = "external" THEN calling
                     ELSE With(calling, Id(i.browser, Len(inFlight[i].todo)), New(to))
  /\ UNCHANGED <<line, browsers>>

\* A service outside answers; it need not.
ExternalAnswers(i) ==
  /\ inFlight[i].state = "calling" /\ Head(inFlight[i].todo).to = "external"
  /\ inFlight' = Continues(inFlight, i, Tail(inFlight[i].todo))
  /\ UNCHANGED <<line, browsers>>

\* Mutant of TimesOut: a client without a timeout for this server itself.
TimesOutOutside(i) ==
  /\ inFlight[i].state = "calling" /\ Head(inFlight[i].todo).to = "external"
  /\ inFlight' = Continues(inFlight, i, AfterFailure(inFlight[i].todo))
  /\ UNCHANGED <<line, browsers>>

\* The caller's client gives up; the call it has made is still carried out.
TimesOut(i) ==
  /\ inFlight[i].state = "calling"
  /\ inFlight' = Continues(inFlight, i, AfterFailure(inFlight[i].todo))
  /\ UNCHANGED <<line, browsers>>

\* A handler is done: the loop sends the answer, to the caller if it still waits.
Answer(i) ==
  /\ inFlight[i].state = "running" /\ inFlight[i].todo = <<>>
  /\ Async(inFlight[i].kind) \/ LoopFree
  /\ inFlight' = IF Caller(i) = {} THEN Without(inFlight, i)
                 ELSE LET c == CHOOSE c \in Caller(i) : TRUE
                      IN  Continues(Without(inFlight, i), c, Tail(inFlight[c].todo))
  /\ UNCHANGED <<line, browsers>>

PoolInit == inFlight = <<>> /\ line = <<>> /\ browsers = 0

ServerSteps == Dispatch \/ \E i \in Ids : Accept(i) \/ CallOut(i) \/ TimesOut(i) \/ Answer(i)

PoolNext == ServerSteps \/ (\E k \in OuterKinds : Browse(k)) \/ (\E i \in Ids : ExternalAnswers(i))

\* Safety of this part alone; its fairness is that of the whole publisher.
PoolSpec == PoolInit /\ [][PoolNext]_poolVars

-----------------------------------------------------------------------------
\* Every request is answered, also those the server makes to itself while every worker waits for
\* another, or the loop for IPFS: no service outside need ever answer (process_message, describe,
\* blur_pii, send, render_url, ipfs_get, media_upload with its push to IPFS).
EveryRequestAnswered == []<>(Ids = {})
=================================================================================
