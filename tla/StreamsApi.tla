----------------------------- MODULE StreamsApi -----------------------------
(***************************************************************************)
(* The camera routes of the HTTP interface (api/streams.py).  POST /streams*)
(* is a coroutine: it reads a health report, mints the lowest free name if *)
(* the caller gave none, hands the camera to the controller and reads a    *)
(* second report, each of the calls on a worker thread, all of them under  *)
(* one deadline.  When the deadline passes the caller is answered and the  *)
(* thread is left where it was, so what it does still happens.             *)
(*                                                                         *)
(* The controller is a runner (InprocessRunner, ShardFleet): here only what*)
(* the routes see of it, the names that are taken.  add_camera takes the   *)
(* name first and then asks for the camera to be read.  In process nothing *)
(* comes between; a fleet asks a shard, which may accept, refuse or not    *)
(* answer before the client's deadline.  A fleet drops the name of a camera*)
(* it had no answer for, though the shard may read it, now or later.       *)
(* A call may take any time, or never return.                              *)
(***************************************************************************)
EXTENDS Integers, Sequences, FiniteSets, FiniteSetsExt

CONSTANTS
    Posts,          \* requests that POST /streams
    Bodies,         \* [Posts -> the names its body may give, None among them]
    Indices,        \* n of the names cam-<n>
    Started,        \* how many cameras the command line may have started
    Crowds          \* bound: [posts |-> who arrives, removals |-> how many DELETEs and drains,
                    \*         silences |-> how many shards do not answer]

VARIABLES
    controller, \* [manages, cams]: whether it takes cameras at all, and the names taken
    post,       \* [Posts -> what the coroutine awaits, for which name]
    job,        \* [Posts -> the worker thread's call]
    answer,     \* [Posts -> the HTTP answer, or NoAnswer]
    taken,      \* [Posts -> names this request's calls have taken], history
    unheard,    \* [Posts -> those of them a shard was asked for and did not answer]
    placed,     \* [Posts -> those of them whose camera is or was read], history
    beaten,     \* [Posts -> names others have taken since it arrived, up to 2], history
    crowd       \* who arrives, and the removals and silences still to come

hands == <<taken, unheard, placed>>
vars == <<controller, post, job, answer, hands, beaten, crowd>>

None == -1
Idle == [at |-> "idle", own |-> None, id |-> None]
Unknown == {}
NoOutcome == [result |-> "none", report |-> Unknown]
NoJob == [at |-> "none", kind |-> "none", id |-> None, out |-> NoOutcome]
NoAnswer == [status |-> 0, id |-> None, listed |-> FALSE, duplicate |-> FALSE]

Taken == controller.cams

\* The names whose camera a shard is being asked for.
Pending == {job[p].id : p \in {q \in Posts : job[q].at = "asking"}}

-----------------------------------------------------------------------------
(* What a report says.                                                     *)

\* The controller's report, or a stand-in, or a refusal when a name has to come of it.
Health(needed, cams) ==
    {[result |-> IF needed THEN "failed" ELSE "report", report |-> Unknown],
     [result |-> "report", report |-> cams]}

CameraIds(report) == report

Mint(reported) == Min(Indices \ reported)

\* The cameras a report lists, one entry each, whichever runner wrote it.
Streams(report) == {[id |-> id] : id \in CameraIds(report)}

\* A camera the report does not list is a 201 all the same.
PlacedFrom(report, id) ==
    [NoAnswer EXCEPT !.status = 201, !.id = id, !.listed = \E info \in Streams(report) : info.id = id]

-----------------------------------------------------------------------------
Init ==
    /\ \E manages \in BOOLEAN, n \in Started :       \* with the cameras of the command line
         controller = [manages |-> manages, cams |-> 0 .. n - 1]
    /\ post = [p \in Posts |-> Idle]
    /\ job = [p \in Posts |-> NoJob]
    /\ answer = [p \in Posts |-> NoAnswer]
    /\ taken = [p \in Posts |-> {}] /\ unheard = taken /\ placed = taken
    /\ beaten = [p \in Posts |-> 0]
    /\ crowd \in Crowds

Awaiting(p) == post[p].at \in {"naming", "handing", "renaming", "rehanding", "reporting"}

\* The coroutine gives a call to the worker threads and awaits it.
Submits(p, at, kind, id) ==
    /\ post' = [post EXCEPT ![p].at = at, ![p].id = id]
    /\ job' = [job EXCEPT ![p] = [at |-> "called", kind |-> kind, id |-> id, out |-> NoOutcome]]

Settled(p) == [job EXCEPT ![p] = IF @.at = "done" THEN NoJob ELSE @]

Answers(p, a) ==
    /\ post' = [post EXCEPT ![p].at = "answered"]
    /\ answer' = [answer EXCEPT ![p] = a]

Refuses(p, status) == Answers(p, [NoAnswer EXCEPT !.status = status])

AddStream(p, own) ==
    /\ post[p] = Idle /\ p \in crowd.posts
    /\ IF ~controller.manages
       THEN Refuses(p, 501) /\ UNCHANGED job
       ELSE /\ post' = [post EXCEPT ![p] = [at |-> IF own = None THEN "naming" ELSE "handing",
                                            own |-> own, id |-> own]]
            /\ job' = [job EXCEPT ![p] =
                  IF own = None THEN [NoJob EXCEPT !.at = "called", !.kind = "health"]
                  ELSE [at |-> "called", kind |-> "add", id |-> own, out |-> NoOutcome]]
            /\ UNCHANGED answer
    /\ UNCHANGED <<controller, hands, beaten, crowd>>

RunHealth(p) ==
    /\ job[p].at = "called" /\ job[p].kind \in {"health", "report"}
    /\ \E out \in Health(job[p].kind = "health", controller.cams) :
          job' = [job EXCEPT ![p].at = "done", ![p].out = out]
    /\ UNCHANGED <<controller, post, answer, hands, beaten, crowd>>

\* add_camera: refused if the name is taken, the runner is down or the camera is wrong,
\* else the name is taken and the camera asked for.
RunAdd(p) ==
    /\ job[p].at = "called" /\ job[p].kind = "add"
    /\ \/ /\ \E refusal \in {"down", "invalid"} :
               job' = [job EXCEPT ![p].at = "done", ![p].out.result = refusal]
          /\ UNCHANGED <<controller, taken, beaten>>
       \/ /\ job[p].id \in Taken
          /\ job' = [job EXCEPT ![p].at = "done", ![p].out.result = "duplicate"]
          /\ UNCHANGED <<controller, taken, beaten>>
       \/ /\ job[p].id \notin Taken
          /\ job' = [job EXCEPT ![p].at = "asking"]
          /\ controller' = [controller EXCEPT !.cams = @ \cup {job[p].id}]
          /\ taken' = [taken EXCEPT ![p] = @ \cup {job[p].id}]
          /\ beaten' = [q \in Posts |->
                    IF q # p /\ Awaiting(q) /\ post[q].own = None /\ beaten[q] < 2
                    THEN beaten[q] + 1 ELSE beaten[q]]
    /\ UNCHANGED <<post, answer, unheard, placed, crowd>>

\* The camera is accepted, and the name kept.
Accepted(p) ==
    /\ job[p].at = "asking"
    /\ job' = [job EXCEPT ![p].at = "done", ![p].out.result = "placed"]
    /\ placed' = [placed EXCEPT ![p] = @ \cup {job[p].id}]
    /\ UNCHANGED <<controller, post, answer, taken, unheard, beaten, crowd>>

\* It is refused everywhere, or a shard asked for it does not answer: the name is free.
NotAccepted(p) ==
    /\ job[p].at = "asking"
    /\ controller' = [controller EXCEPT !.cams = @ \ {job[p].id}]
    /\ job' = [job EXCEPT ![p].at = "done", ![p].out.result = "down"]
    /\ \/ UNCHANGED <<unheard, crowd>>
       \/ /\ crowd.silences > 0
          /\ crowd' = [crowd EXCEPT !.silences = @ - 1]
          /\ unheard' = [unheard EXCEPT ![p] = @ \cup {job[p].id}]
    /\ UNCHANGED <<post, answer, taken, placed, beaten>>

\* The shard that did not answer starts the camera all the same.
PlacedUnheard(p) ==
    /\ \E id \in unheard[p] \ placed[p] : placed' = [placed EXCEPT ![p] = @ \cup {id}]
    /\ UNCHANGED <<controller, post, job, answer, taken, unheard, beaten, crowd>>

\* The event loop resumes the coroutine with what its call returned.
Names(p, next) ==
    /\ IF job[p].out.result = "failed"
       THEN Refuses(p, 503) /\ job' = Settled(p)
       ELSE Submits(p, next, "add", Mint(CameraIds(job[p].out.report))) /\ UNCHANGED answer

\* A duplicate of a name the server minted is minted once more.
Retries(p) == post[p].at = "handing" /\ post[p].own = None /\ job[p].out.result = "duplicate"

\* Fault: the report after the placement refuses like the one before it.
LastReport_Needed == "health"

LastReport == "report"

HandedOver(p) ==
    \/ /\ job[p].out.result = "placed"
       /\ Submits(p, "reporting", LastReport, post[p].id) /\ UNCHANGED answer
    \/ /\ job[p].out.result # "placed" /\ Retries(p)
       /\ Submits(p, "renaming", "health", post[p].id) /\ UNCHANGED answer
    \/ /\ job[p].out.result # "placed" /\ ~Retries(p)
       /\ Answers(p, [NoAnswer EXCEPT !.status = IF job[p].out.result = "down" THEN 503 ELSE 400,
                                      !.duplicate = job[p].out.result = "duplicate"])
       /\ job' = Settled(p)

Reported(p) ==
    /\ IF job[p].out.result = "failed" THEN Refuses(p, 503)
       ELSE Answers(p, PlacedFrom(job[p].out.report, post[p].id))
    /\ job' = Settled(p)

Resume(p) ==
    /\ Awaiting(p) /\ job[p].at = "done"
    /\ CASE post[p].at = "naming" -> Names(p, "handing")
         [] post[p].at = "renaming" -> Names(p, "rehanding")
         [] post[p].at \in {"handing", "rehanding"} -> HandedOver(p)
         [] post[p].at = "reporting" -> Reported(p)
    /\ UNCHANGED <<controller, hands, beaten, crowd>>

UnderDeadline(p) == Awaiting(p)

\* fail_after: a call that no thread has taken yet is withdrawn, another runs on alone.
Deadline(p) ==
    /\ UnderDeadline(p)
    /\ Refuses(p, 504)
    /\ \/ job' = Settled(p)
       \/ job[p].at = "called" /\ job' = [job EXCEPT ![p] = NoJob]
    /\ UNCHANGED <<controller, hands, beaten, crowd>>

-----------------------------------------------------------------------------
(* The other routes answer in one call, on the thread of the request.      *)

RemoveStream(id) ==
    /\ controller.manages /\ crowd.removals > 0 /\ id \in Taken \ Pending
    /\ controller' = [controller EXCEPT !.cams = @ \ {id}]
    /\ crowd' = [crowd EXCEPT !.removals = @ - 1]
    /\ UNCHANGED <<post, job, answer, hands, beaten>>

\* A camera that is being asked for keeps its name.
DrainStreams ==
    /\ controller.manages /\ crowd.removals > 0 /\ Taken # {}
    /\ controller' = [controller EXCEPT !.cams = @ \cap Pending]
    /\ crowd' = [crowd EXCEPT !.removals = @ - 1]
    /\ UNCHANGED <<post, job, answer, hands, beaten>>

Next ==
    \/ \E p \in Posts :
          \/ \E own \in Bodies[p] : AddStream(p, own)
          \/ RunHealth(p) \/ RunAdd(p) \/ Accepted(p) \/ NotAccepted(p) \/ PlacedUnheard(p)
          \/ Resume(p) \/ Deadline(p)
    \/ \E id \in Indices : RemoveStream(id)
    \/ DrainStreams

Spec == Init /\ [][Next]_vars

-----------------------------------------------------------------------------
\* A POST starts one camera or none, whatever shard was slow to answer: a 201 names
\* the one it placed; a 400 or 501 placed none and never will; a 503 may come of a
\* shard that did not answer, and then of that one camera alone; a 504 may still place
\* the one it was placing (add_stream's retry, its lenient last report and abandoned
\* threads; FleetRunner.add_camera's roll-back of a call that raised).
OnePostOneCamera ==
    \A p \in Posts :
        /\ Cardinality(placed[p] \cup unheard[p]) <= 1
        /\ answer[p].status = 201 => placed[p] = {answer[p].id} /\ unheard[p] = {}
        /\ answer[p].status \in {400, 501} => placed[p] = {} /\ unheard[p] = {}
        /\ answer[p].status = 503 => placed[p] \subseteq unheard[p]
        /\ answer[p].status \in {400, 501, 503} => job[p].at \notin {"called", "asking"}

\* A caller that gave no name is told of a duplicate only when others took
\* names between report and placement both times: never because a report
\* could not be had (_mint, _health(needed=True)).
RefusedOnlyIfBeatenTwice ==
    \A p \in Posts :
        answer[p].duplicate /\ post[p].own = None => beaten[p] >= 2

=============================================================================
