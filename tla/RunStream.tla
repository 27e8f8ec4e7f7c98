------------------------------ MODULE RunStream ------------------------------
(***************************************************************************)
(* The replay-first event stream of primer-agents (internal/sse) and its   *)
(* TypeScript subscriber (client/ts), composed with the durable runs they  *)
(* read.  Each run has one subscriber, which connects, may lose the        *)
(* connection, and connects again with the last sequence it was given.     *)
(*                                                                         *)
(* Events are named by their sequence: next_event_seq starts at 1 and an   *)
(* append holds the row's lock, so the log of a run is numbered 1, 2, ...  *)
(* in commit order.  Every query and every frame written is one step, so   *)
(* the run moves on between a page, its frames and the status check.       *)
(***************************************************************************)
EXTENDS RunLifecycle, Naturals, Sequences

CONSTANTS
    Runs,       \* run ids
    PageSize,   \* cfg.PageSize
    MaxLog,     \* bound: events in one run's log
    MaxBreaks   \* bound: lost connections and failed handlers

(* EventRepo.List takes a limit outside 1..500 for 100, and a page of 100  *)
(* would then look like a short one.  The service runs with 50.            *)
ASSUME StreamAssumption ==
    PageSize \in 1..500 /\ MaxLog \in Nat /\ MaxBreaks \in Nat

VARIABLES
    status, providerStarted, log,   \* the durable runs
    phase,         \* where Stream stands for each run's subscriber
    cursor,        \* Stream's cursor
    page,          \* sequences of the page that are still to be written
    pageLen,       \* len(events) of the page read last
    wire,          \* frames written and not yet read by the subscriber
    received,      \* sequences handed to onFrame, over all connections
    lastEventId,   \* the subscriber's resume cursor
    breaks         \* how much of MaxBreaks is used

durableVars == <<status, providerStarted, log>>
serverVars == <<phase, cursor, page, pageLen>>
clientVars == <<received, lastEventId>>
vars == <<durableVars, serverVars, wire, clientVars, breaks>>

Durable == INSTANCE DurableRuns

(* "done" is Stream's return after the final page, "broken" any other. *)
Returned == {"done", "broken"}
Serving == {"page", "write", "check", "final", "writeFinal", "wait"}

(* Types of the subscriber's and the handler's state. *)
TypeOK ==
    /\ Durable!DurableTypeOK
    /\ phase \in [Runs -> {"off"} \cup Serving \cup Returned]
    /\ cursor \in [Runs -> Nat]
    /\ page \in [Runs -> Seq(Nat)]
    /\ pageLen \in [Runs -> Nat]
    /\ wire \in [Runs -> Seq(Nat)]
    /\ received \in [Runs -> Seq(Nat)]
    /\ lastEventId \in [Runs -> Nat]
    /\ breaks \in Nat

Init ==
    /\ Durable!Init
    /\ phase = [r \in Runs |-> "off"]
    /\ cursor = [r \in Runs |-> 0]
    /\ page = [r \in Runs |-> <<>>]
    /\ pageLen = [r \in Runs |-> 0]
    /\ wire = [r \in Runs |-> <<>>]
    /\ received = [r \in Runs |-> <<>>]
    /\ lastEventId = [r \in Runs |-> 0]
    /\ breaks = 0

Goto(r, where) == phase' = [phase EXCEPT ![r] = where]

(* The runs change under their own specification. *)
RunStep ==
    /\ Durable!Next
    /\ \A r \in Runs : Len(log'[r]) <= MaxLog
    /\ UNCHANGED <<serverVars, wire, clientVars, breaks>>

-----------------------------------------------------------------------------
(* Stream *)

(* Variant: the subscriber asks for its last event again, and ParseCursor  *)
(* lets a negative cursor through.                                         *)
ConnectOneBack(r) ==
    /\ phase[r] = "off"
    /\ status[r] # "absent"
    /\ cursor' = [cursor EXCEPT ![r] = lastEventId[r] - 1]
    /\ Goto(r, "page")
    /\ UNCHANGED <<durableVars, page, pageLen, wire, clientVars, breaks>>

(* streamRunEvents sends its cursor as Last-Event-ID; the handler checks   *)
(* that the run exists, ParseCursor reads the header, Stream starts there. *)
Connect(r) ==
    /\ phase[r] = "off"
    /\ status[r] # "absent"
    /\ cursor' = [cursor EXCEPT ![r] = lastEventId[r]]
    /\ Goto(r, "page")
    /\ UNCHANGED <<durableVars, page, pageLen, wire, clientVars, breaks>>

(* Variant: sequence >= cursor. *)
PageAfterInclusive(r, c) ==
    LET n == IF Len(log[r]) <= c THEN 0 ELSE Len(log[r]) - c
    IN [i \in 1..(IF n < PageSize THEN n ELSE PageSize) |-> IF c = 0 THEN i ELSE c + i - 1]

(* EventRepo.List: sequence > cursor, ascending, at most PageSize rows. *)
PageAfter(r, c) ==
    LET n == IF Len(log[r]) <= c THEN 0 ELSE Len(log[r]) - c
    IN [i \in 1..(IF n < PageSize THEN n ELSE PageSize) |-> c + i]

ReadPage(r) ==
    /\ page' = [page EXCEPT ![r] = PageAfter(r, cursor[r])]
    /\ pageLen' = [pageLen EXCEPT ![r] = Len(PageAfter(r, cursor[r]))]
    /\ UNCHANGED <<durableVars, cursor, wire, clientVars, breaks>>

ListPage(r) ==
    /\ phase[r] = "page"
    /\ ReadPage(r)
    /\ Goto(r, "write")

(* writeFrame: the id of the frame is the durable sequence. *)
WriteFrame(r) ==
    /\ phase[r] \in {"write", "writeFinal"}
    /\ page[r] # <<>>
    /\ wire' = [wire EXCEPT ![r] = Append(@, Head(page[r]))]
    /\ cursor' = [cursor EXCEPT ![r] = Head(page[r])]
    /\ page' = [page EXCEPT ![r] = Tail(@)]
    /\ UNCHANGED <<durableVars, phase, pageLen, clientVars, breaks>>

(* A page shorter than PageSize means the cursor has caught up, and only   *)
(* then is the run's status looked at.                                     *)
PageWritten(r) ==
    /\ phase[r] = "write"
    /\ page[r] = <<>>
    /\ Goto(r, IF pageLen[r] < PageSize THEN "check" ELSE "wait")
    /\ UNCHANGED <<durableVars, cursor, page, pageLen, wire, clientVars, breaks>>

(* Variant: a terminal run ends the stream without a final catch-up. *)
CheckTerminalNoCatchUp(r) ==
    /\ phase[r] = "check"
    /\ Goto(r, IF IsTerminal(status[r]) THEN "done" ELSE "wait")
    /\ UNCHANGED <<durableVars, cursor, page, pageLen, wire, clientVars, breaks>>

CheckTerminal(r) ==
    /\ phase[r] = "check"
    /\ Goto(r, IF IsTerminal(status[r]) THEN "final" ELSE "wait")
    /\ UNCHANGED <<durableVars, cursor, page, pageLen, wire, clientVars, breaks>>

(* The final catch-up, one page. *)
FinalPage(r) ==
    /\ phase[r] = "final"
    /\ ReadPage(r)
    /\ Goto(r, "writeFinal")

FinalWritten(r) ==
    /\ phase[r] = "writeFinal"
    /\ page[r] = <<>>
    /\ Goto(r, "done")
    /\ UNCHANGED <<durableVars, cursor, page, pageLen, wire, clientVars, breaks>>

(* Variant: the loop ends with the run. *)
WakeWhileActive(r) ==
    /\ phase[r] = "wait"
    /\ ~IsTerminal(status[r])
    /\ Goto(r, "page")
    /\ UNCHANGED <<durableVars, cursor, page, pageLen, wire, clientVars, breaks>>

(* A notification, the keep-alive tick or the poll interval: each leads    *)
(* back to the top of the loop, so a lost notification only costs time.    *)
Wake(r) ==
    /\ phase[r] = "wait"
    /\ Goto(r, "page")
    /\ UNCHANGED <<durableVars, cursor, page, pageLen, wire, clientVars, breaks>>

SpendBreak == breaks < MaxBreaks /\ breaks' = breaks + 1

(* A query fails, MaxLifetime is over or the process stops: Stream returns *)
(* and the frames already written still arrive.                            *)
HandlerFails(r) ==
    /\ phase[r] \in Serving
    /\ SpendBreak
    /\ Goto(r, "broken")
    /\ page' = [page EXCEPT ![r] = <<>>]
    /\ UNCHANGED <<durableVars, cursor, pageLen, wire, clientVars>>

-----------------------------------------------------------------------------
(* The subscriber *)

(* One frame: the cursor is set, then onFrame is called. *)
OnFrame(r) ==
    /\ wire[r] # <<>>
    /\ lastEventId' = [lastEventId EXCEPT ![r] = Head(wire[r])]
    /\ received' = [received EXCEPT ![r] = Append(@, Head(wire[r]))]
    /\ wire' = [wire EXCEPT ![r] = Tail(@)]
    /\ UNCHANGED <<durableVars, serverVars, breaks>>

(* The body ends after its last frame. *)
EndOfBody(r) ==
    /\ phase[r] \in Returned
    /\ wire[r] = <<>>
    /\ Goto(r, "off")
    /\ UNCHANGED <<durableVars, cursor, page, pageLen, wire, clientVars, breaks>>

(* The connection is lost, or aborted: frames in flight are gone. *)
Disconnect(r) ==
    /\ phase[r] # "off"
    /\ SpendBreak
    /\ Goto(r, "off")
    /\ wire' = [wire EXCEPT ![r] = <<>>]
    /\ page' = [page EXCEPT ![r] = <<>>]
    /\ UNCHANGED <<durableVars, cursor, pageLen, clientVars>>

-----------------------------------------------------------------------------
(* The specification *)

ServerStep(r) ==
    \/ ListPage(r) \/ WriteFrame(r) \/ PageWritten(r) \/ CheckTerminal(r)
    \/ FinalPage(r) \/ FinalWritten(r) \/ Wake(r)

ClientStep(r) == OnFrame(r) \/ EndOfBody(r)

Next ==
    \/ RunStep
    \/ \E r \in Runs : \/ Connect(r) \/ ServerStep(r) \/ ClientStep(r)
                       \/ HandlerFails(r) \/ Disconnect(r)

Spec == Init /\ [][Next]_vars

(* Handlers and subscribers run, and a subscriber whose stream ended       *)
(* connects again.  Nothing is assumed of the runs.                        *)
FairSpec ==
    /\ Spec
    /\ \A r \in Runs : WF_vars(Connect(r)) /\ WF_vars(ServerStep(r)) /\ WF_vars(ClientStep(r))

-----------------------------------------------------------------------------
(* Properties *)

(* Over any number of lost connections, what the subscriber was given,     *)
(* what is in flight and what is about to be written is the log from its   *)
(* beginning: no committed event is skipped, repeated or reordered.        *)
Outgoing(r) == received[r] \o wire[r] \o page[r]
StreamIsPrefix ==
    \A r \in Runs :
        /\ Len(Outgoing(r)) <= Len(log[r])
        /\ \A i \in 1..Len(Outgoing(r)) : Outgoing(r)[i] = i

TerminalEventSent(r) == \A i \in 1..Len(log[r]) : IsTerminal(log[r][i]) => i <= cursor[r]

(* A stream that ends on its own after a final page that was not full has  *)
(* sent the run's terminal event, although the page before it, its frames  *)
(* and the status check are separate steps.                                *)
CatchUpSendsTerminalEvent ==
    \A r \in Runs : phase[r] = "done" /\ pageLen[r] < PageSize => TerminalEventSent(r)

(* The comment on the final catch-up, that it picks up any terminal event  *)
(* just written, without the condition on the size of the page.            *)
FinishedStreamHasTerminalEvent == \A r \in Runs : phase[r] = "done" => TerminalEventSent(r)

(* The runbook's promise that no events are lost: every committed event    *)
(* reaches a subscriber that keeps coming back.                            *)
EveryEventArrives ==
    \A r \in Runs : \A n \in 1..MaxLog : (Len(log[r]) >= n) ~> (Len(received[r]) >= n)
=============================================================================
