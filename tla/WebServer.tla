----------------------------- MODULE WebServer -----------------------------
(***************************************************************************)
(* `finddups serve` (cmd/serve.go) and what its shutdown does to the       *)
(* requests of Deletions.  On a signal the server takes no more requests   *)
(* and waits for those that run, for ten seconds; then it closes the       *)
(* database and exits.  An execution that takes longer goes on removing    *)
(* files until then, but can record nothing any more.  Reviews and         *)
(* `finddups delete` run beside the server, in processes of their own.     *)
(***************************************************************************)
EXTENDS Deletions

CONSTANT Command  \* the sessions that are `finddups delete`; the others are web requests

ASSUME CommandAssumption == Command \subseteq Session

WebRequest == Session \ Command

VARIABLE
  server  \* "up", "draining" after the signal, "closing" with a closed store, "down"

webVars == <<vars, server>>

WebInit == Init /\ server = "down"

Serve ==
  /\ server = "down"
  /\ server' = "up"
  /\ UNCHANGED vars

Serving == server \in {"up", "draining"}

\* POST /api/deletions/execute: a web request asks for no confirmation.
Request(e) ==
  /\ server = "up"
  /\ GetPendingDeletions(e)
  /\ pc'[e] = "run"
  /\ UNCHANGED server

\* MarkDeleted and MarkDeleteFailed fail, "database is closed", and the loop of
\* ExecuteDeletions goes on.
RecordOnClosedStore(e) ==
  /\ server = "closing"
  /\ pc[e] = "record"
  /\ lost' = lost \cup Unrecorded(e)
  /\ NextDeletion(e)
  /\ UNCHANGED <<disk, table, marking, server>>

Handle(e) ==
  \/ (\E row \in Row : RemoveFile(e, row)) /\ UNCHANGED server
  \/ Serving /\ RecordOutcome(e) /\ UNCHANGED server
  \/ RecordOnClosedStore(e)

\* A process of its own: the server does nothing to it.
RunCommand(e) ==
  /\ GetPendingDeletions(e) \/ Confirm(e) \/ Decline(e) \/ Work(e) \/ KillSession(e)
  /\ UNCHANGED server

(***************************************************************************)
(* The end of the server.                                                  *)
(***************************************************************************)

\* SIGINT or SIGTERM: server.Shutdown closes the listener.
Signal ==
  /\ server = "up"
  /\ server' = "draining"
  /\ UNCHANGED vars

\* Shutdown finds no request running, and RunServe returns.
Drained ==
  /\ server = "draining"
  /\ \A e \in WebRequest : pc[e] = "idle"
  /\ server' = "closing"
  /\ UNCHANGED vars

\* Mutant: Shutdown(context.Background()).
NoDeadline == FALSE /\ UNCHANGED webVars

\* The context of Shutdown expires, and RunServe returns its error.
DeadlinePasses ==
  /\ server = "draining"
  /\ server' = "closing"
  /\ UNCHANGED vars

\* ListenAndServe fails, and RunServe returns at once.
ListenFails ==
  /\ server = "up"
  /\ server' = "closing"
  /\ UNCHANGED vars

\* The requests end with their process.
EndAll ==
  /\ server' = "down"
  /\ lost' = lost \cup UNION {Unrecorded(e) : e \in WebRequest}
  /\ pc' = [e \in Session |-> IF e \in Command THEN pc[e] ELSE "idle"]
  /\ todo' = [e \in Session |-> IF e \in Command THEN todo[e] ELSE {}]
  /\ current' = [e \in Session |-> IF e \in Command THEN current[e] ELSE NoRow]
  /\ outcome' = [e \in Session |-> IF e \in Command THEN outcome[e] ELSE "none"]
  /\ UNCHANGED <<disk, table, marking>>

\* RunServe has returned and the deferred store.Close is done.
Exit == server = "closing" /\ EndAll

Kill == "kill" \in Faults /\ server # "down" /\ EndAll

WebNext ==
  \/ Serve \/ Signal \/ Drained \/ DeadlinePasses \/ ListenFails \/ Exit \/ Kill
  \/ \E e \in WebRequest : Request(e) \/ Handle(e)
  \/ \E e \in Command : RunCommand(e)
  \/ \E g \in Group : \E keep \in g : Serving /\ MarkGroupForDeletion(g, keep) /\ UNCHANGED server
  \/ \E f \in File : Serving /\ UnmarkForDeletion(f) /\ UNCHANGED server
  \/ \E r \in Reviewer, g \in Group : \E keep \in g : ChooseKeeper(r, g, keep) /\ UNCHANGED server
  \/ \E r \in Reviewer, f \in File : MarkForDeletion(r, f) /\ UNCHANGED server
  \/ \E r \in Reviewer : KillReview(r) /\ UNCHANGED server

\* The timer runs and the main goroutine goes on.  A request may hang forever:
\* nothing makes os.Remove return.  A command that was confirmed goes on.
WebSpec ==
  /\ WebInit
  /\ [][WebNext]_webVars
  /\ WF_webVars(DeadlinePasses)
  /\ WF_webVars(Exit)
  /\ \A e \in Command : WF_webVars(Work(e) /\ UNCHANGED server)

(***************************************************************************)
(* Properties.                                                             *)
(***************************************************************************)

\* The server is in one of its states, and one that is down has no request.
ServerTypeOK ==
  /\ server \in {"up", "draining", "closing", "down"}
  /\ server = "down" => \A e \in WebRequest : pc[e] = "idle"

\* A server that was told to stop stops, though a request may hang.
ShutdownEnds == (server = "draining") ~> (server = "down")

\* A `finddups delete` that has been confirmed comes to its end, whatever the
\* server and others do to its rows and files meanwhile, if every removal
\* returns.
CommandsEnd == \A e \in Command : (pc[e] = "run") ~> (pc[e] = "idle")
=============================================================================
