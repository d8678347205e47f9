------------------------------- MODULE LogStream -------------------------------
(***************************************************************************)
(* Following the log of one job over server-sent events: the endpoint's    *)
(* generator (job_router.py, stream_logs), the log file and the subscriber *)
(* list of the store (jobstore.py), the runner that writes lines and ends  *)
(* the job (runner.py), and garbage collection of the job meanwhile.       *)
(*                                                                         *)
(* A line is the number of its append_log_line call; its event id is its   *)
(* position in the file.  The job is created before Init: streams of a job *)
(* that is not in the store are refused with 404.                          *)
(***************************************************************************)
EXTENDS Integers, Sequences

CONSTANTS
    Streams,      \* clients that follow the log
    MaxLines,     \* bound: lines the runner writes before it ends the job
    MaxConnects   \* bound: connections of one client

ASSUME ConstantAssumption ==
    /\ MaxLines \in Nat
    /\ MaxConnects \in Nat

End == [id |-> 0, line |-> 0]    \* "event: end"

VARIABLES
    log,        \* the log file: its lines, none when it is not there
    written,    \* how many lines were ever appended
    ended,      \* Job.status of the live object is final
    stored,     \* the job is in the store
    wpc,        \* the runner
    cpc,        \* one request to cancel the job
    subs,       \* _log_subscribers of the job
    spc,        \* the generator of each stream
    lastId,     \* its last_idx
    event,      \* its asyncio.Event
    connected,  \* the client has not hung up
    wire,       \* events yielded and not yet received
    got,        \* events the client received, over all its connections
    connects

writerVars == <<log, written, ended, stored, wpc>>
serverVars == <<subs, spc, lastId, event>>
clientVars == <<connected, wire, got, connects>>
vars == <<writerVars, cpc, serverVars, clientVars>>

Init ==
    /\ log = << >>
    /\ written = 0
    /\ ended = FALSE
    /\ stored = TRUE
    /\ wpc = "work"
    /\ cpc = "idle"
    /\ subs = {}
    /\ spc = [s \in Streams |-> "closed"]
    /\ lastId = [s \in Streams |-> 0]
    /\ event = [s \in Streams |-> FALSE]
    /\ connected = [s \in Streams |-> FALSE]
    /\ wire = [s \in Streams |-> << >>]
    /\ got = [s \in Streams |-> << >>]
    /\ connects = [s \in Streams |-> 0]

-----------------------------------------------------------------------------
(* The runner: append_log_line and update_job each change the store under its
   lock and call the subscribers afterwards. *)

\* Mutant: nobody is woken.
NotifyNobody == UNCHANGED event
\* _notify_log_subscribers
Notify == event' = [s \in Streams |-> s \in subs \/ event[s]]

\* append_log_line
AppendLine ==
    /\ written' = written + 1
    /\ log' = Append(log, written')

\* The worker's critical sections and what comes after them.
RunnerStep(from, to) == wpc = from /\ wpc' = to /\ UNCHANGED <<cpc, clientVars>>
RunnerAppends(from, to) ==
    RunnerStep(from, to) /\ AppendLine /\ UNCHANGED <<ended, stored, serverVars>>
RunnerNotifies(from, to) ==
    RunnerStep(from, to) /\ Notify
        /\ UNCHANGED <<log, written, ended, stored, subs, spc, lastId>>
RunnerEnds(from, to) ==
    RunnerStep(from, to) /\ ended' = TRUE /\ UNCHANGED <<log, written, stored, serverVars>>

WriteLine  == written < MaxLines /\ RunnerAppends("work", "notify")
NotifyLine == RunnerNotifies("notify", "work")

\* Success and failure: the status first, then the last line, then update_job.
EndJob         == RunnerEnds("work", "lastLine")
WriteLastLine  == RunnerAppends("lastLine", "notifyLast")
NotifyLastLine == RunnerNotifies("notifyLast", "save")

\* A job that was cancelled: the line first, then the status.
CancelJob    == RunnerAppends("work", "notifyCancel")
NotifyCancel == RunnerNotifies("notifyCancel", "setCanceled")
SetCanceled  == RunnerEnds("setCanceled", "save")

Save ==
    /\ RunnerStep("save", "notifySave")
    /\ stored' = TRUE
    /\ UNCHANGED <<log, written, ended, serverVars>>

NotifySave == RunnerNotifies("notifySave", "done")

Runner ==
    \/ WriteLine \/ NotifyLine \/ EndJob \/ WriteLastLine \/ NotifyLastLine
    \/ CancelJob \/ NotifyCancel \/ SetCanceled
    \/ Save \/ NotifySave

\* cancel_job finds the job unfinished, then writes "canceling", whatever the
\* status is by then, then saves it.
CancelStep(from, to) == cpc = from /\ cpc' = to /\ UNCHANGED <<wpc, clientVars>>

CancelRead ==
    /\ CancelStep("idle", "write")
    /\ stored /\ ~ ended
    /\ UNCHANGED <<writerVars, serverVars>>

CancelWrite ==
    /\ CancelStep("write", "save")
    /\ ended' = FALSE
    /\ UNCHANGED <<log, written, stored, serverVars>>

CancelSave ==
    /\ CancelStep("save", "notify")
    /\ stored' = TRUE
    /\ UNCHANGED <<log, written, ended, serverVars>>

CancelNotify ==
    /\ CancelStep("notify", "done")
    /\ Notify
    /\ UNCHANGED <<writerVars, subs, spc, lastId>>

Canceller == CancelWrite \/ CancelSave \/ CancelNotify

\* cleanup_jobs drops a job that has ended: the file, then the subscribers are
\* woken and forgotten, then the job, all under the store's lock.
Remove ==
    /\ stored /\ ended
    /\ log' = << >>
    /\ Notify
    /\ subs' = {}
    /\ stored' = FALSE
    /\ UNCHANGED <<written, ended, wpc, cpc, spc, lastId, clientVars>>

-----------------------------------------------------------------------------
(* The generator *)

At(s, label)      == spc[s] = label
Goto(s, label)    == spc' = [spc EXCEPT ![s] = label]
Move(s, from, to) == At(s, from) /\ Goto(s, to) /\ UNCHANGED <<writerVars, cpc>>

\* Mutant: a client without a Last-Event-ID starts at -1, unclamped.
LastReceivedUnclamped(s) == IF got[s] = << >> THEN -1 ELSE got[s][Len(got[s])].id
\* Mutant: Last-Event-ID is ignored.
LastReceivedIgnored(s) == 0
\* The ids a client has: Last-Event-ID is the last of them.
LastReceived(s) == IF got[s] = << >> THEN 0 ELSE got[s][Len(got[s])].id
Finished(s)     == got[s] # << >> /\ got[s][Len(got[s])] = End

\* A request: the job must exist; the position is the client's.
Connect(s) ==
    /\ At(s, "closed") /\ ~ connected[s]
    /\ connects[s] < MaxConnects /\ ~ Finished(s)
    /\ stored
    /\ connects' = [connects EXCEPT ![s] = @ + 1]
    /\ connected' = [connected EXCEPT ![s] = TRUE]
    /\ lastId' = [lastId EXCEPT ![s] = LastReceived(s)]
    /\ event' = [event EXCEPT ![s] = FALSE]
    /\ Goto(s, "subscribe")
    /\ UNCHANGED <<writerVars, cpc, subs, wire, got>>

Subscribe(s) ==
    /\ Move(s, "subscribe", "clear")
    /\ subs' = subs \cup {s}
    /\ UNCHANGED <<lastId, event, clientVars>>

\* event.clear() and the check for a client that has gone; the check may fail,
\* and then the stream goes on.
Clear(s) ==
    /\ \/ Move(s, "clear", "read")
       \/ ~ connected[s] /\ Move(s, "clear", "close")
    /\ event' = [event EXCEPT ![s] = FALSE]
    /\ UNCHANGED <<subs, lastId, clientVars>>

\* read_log_chunk: the lines after the first last_idx ones, with their ids.
Chunk(s) ==
    [k \in 1 .. Len(log) - lastId[s] |->
        [id |-> lastId[s] + k, line |-> log[lastId[s] + k]]]

\* Everything new goes out, line by line, and last_idx follows.
SendChunk(s, last) ==
    /\ wire' = [wire EXCEPT ![s] = IF connected[s] THEN @ \o Chunk(s) \o last ELSE @]
    /\ lastId' = [lastId EXCEPT ![s] = @ + Len(Chunk(s))]

Read(s) ==
    /\ Move(s, "read", "status")
    /\ SendChunk(s, << >>)
    /\ UNCHANGED <<subs, event, connected, got, connects>>

\* Mutant: only a job that is gone ends the stream.
CheckStatusStored(s) ==
    /\ Move(s, "status", IF stored THEN "wait" ELSE "close")
    /\ UNCHANGED <<subs, lastId, event, clientVars>>

\* get_job: gone, ended, or to be waited for.
CheckStatus(s) ==
    /\ Move(s, "status", IF ~ stored THEN "close" ELSE IF ended THEN "final" ELSE "wait")
    /\ UNCHANGED <<subs, lastId, event, clientVars>>

\* "Ensure we sent everything", then event: end.
ReadFinal(s) ==
    /\ Move(s, "final", "close")
    /\ SendChunk(s, <<End>>)
    /\ UNCHANGED <<subs, event, connected, got, connects>>

\* wait_for(event.wait(), timeout): the event, or the idle recheck.
Wake(s) ==
    /\ Move(s, "wait", "clear")
    /\ UNCHANGED <<subs, lastId, event, clientVars>>

\* Mutant: the callback stays.
CloseSubscribed(s) ==
    Move(s, "close", "closed") /\ UNCHANGED <<subs, lastId, event, clientVars>>

\* The finally clause: unsubscribe; the response is over.
Close(s) ==
    /\ Move(s, "close", "closed")
    /\ subs' = subs \ {s}
    /\ UNCHANGED <<lastId, event, clientVars>>

\* The framework cancels the generator of a client that has gone, wherever it
\* awaits or yields; one that has not begun has nothing to undo.
Cancel(s) ==
    /\ ~ connected[s]
    /\ \/ Move(s, "subscribe", "closed")
       \/ \E from \in {"clear", "read", "status", "final", "wait"} : Move(s, from, "close")
    /\ UNCHANGED <<subs, lastId, event, clientVars>>

Serve(s) ==
    \/ Subscribe(s) \/ Clear(s) \/ Read(s) \/ CheckStatus(s) \/ ReadFinal(s)
    \/ Wake(s) \/ Close(s)

-----------------------------------------------------------------------------
(* The client and its connection *)

Receive(s) ==
    /\ connected[s] /\ wire[s] # << >>
    /\ got' = [got EXCEPT ![s] = Append(@, Head(wire[s]))]
    /\ wire' = [wire EXCEPT ![s] = Tail(@)]
    /\ UNCHANGED <<writerVars, cpc, serverVars, connected, connects>>

\* The connection breaks, or the response was closed; what is in flight on a
\* broken connection is lost.
Disconnect(s) ==
    /\ connected[s]
    /\ connected' = [connected EXCEPT ![s] = FALSE]
    /\ wire' = [wire EXCEPT ![s] = << >>]
    /\ UNCHANGED <<writerVars, cpc, serverVars, got, connects>>

Next ==
    \/ Runner \/ CancelRead \/ Canceller \/ Remove
    \/ \E s \in Streams : Connect(s) \/ Serve(s) \/ Cancel(s) \/ Receive(s)
                            \/ Disconnect(s)

Spec == Init /\ [][Next]_vars

\* The runner ends its job, the event loop runs every generator, and what is
\* sent on a connection that holds arrives.  The idle recheck may happen at any
\* time and is never counted on: a generator that waits is only sure to go on
\* when its event is set.
Fairness ==
    /\ WF_vars(Runner) /\ WF_vars(Canceller)
    /\ \A s \in Streams :
        /\ WF_vars(Serve(s) /\ (At(s, "wait") => event[s]))
        /\ WF_vars(Receive(s))

FairSpec == Spec /\ Fairness

-----------------------------------------------------------------------------
(* Properties *)

Event == [id : Nat, line : Nat]

\* Every variable has its type.
TypeOK ==
    /\ log \in Seq(Nat)
    /\ written \in 0 .. MaxLines + 1
    /\ ended \in BOOLEAN
    /\ stored \in BOOLEAN
    /\ wpc \in {"work", "notify", "lastLine", "notifyLast", "notifyCancel",
               "setCanceled", "save", "notifySave", "done"}
    /\ cpc \in {"idle", "write", "save", "notify", "done"}
    /\ subs \subseteq Streams
    /\ spc \in [Streams -> {"closed", "subscribe", "clear", "read", "status", "final",
                          "wait", "close"}]
    /\ lastId \in [Streams -> Nat]
    /\ event \in [Streams -> BOOLEAN]
    /\ connected \in [Streams -> BOOLEAN]
    /\ wire \in [Streams -> Seq(Event)]
    /\ got \in [Streams -> Seq(Event)]
    /\ connects \in [Streams -> 0 .. MaxConnects]

\* docs/service-api.md:9: over all connections of a client the ids are 1, 2, 3,
\* ... with no gap and no repetition, and the lines come in the order written.
IdsInOrder ==
    \A s \in Streams : \A k \in 1 .. Len(got[s]) :
        got[s][k] # End =>
            /\ got[s][k].id = k
            /\ k > 1 => got[s][k - 1].line < got[s][k].line

\* A subscriber is a generator that will unsubscribe: garbage collection and
\* hang-ups leave no callback behind.
NoStaleSubscriber == \A s \in subs : ~ At(s, "closed")

\* No wake-up is lost: as long as its stream is open and subscribed, the event
\* alone brings every line to a client that stays.
Open(s) == connected[s] /\ s \in subs /\ ~ At(s, "close")
LinesArrive ==
    \A s \in Streams : \A n \in 1 .. MaxLines :
        (Open(s) /\ Len(log) >= n) ~> (Len(got[s]) >= n \/ ~ Open(s) \/ Len(log) < n)

\* Every stream comes to its end once the job has, unless a late cancel takes
\* the job's end back (job_router.py:133).
StreamsEnd == <>[]ended => <>[](\A s \in Streams : At(s, "closed"))

\* job_router.py:198, before event: end: "Ensure we sent everything".
EndAfterEverything ==
    \A s \in Streams : Finished(s) /\ stored /\ log # << >> =>
        \A n \in 1 .. Len(log) : \E k \in 1 .. Len(got[s]) : got[s][k].line = log[n]
=============================================================================
