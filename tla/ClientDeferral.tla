--------------------------- MODULE ClientDeferral ---------------------------
(***************************************************************************)
(* One connection attempt from the moment its playerConnecting event is    *)
(* posted (InitConnectMethod.cpp) until it is answered, with the deferral  *)
(* that resources control (fx::ClientDeferral).                            *)
(*                                                                         *)
(* The main thread runs the event, the functions that resources call and   *)
(* the answer; the HTTP thread runs the cancel handler when the player     *)
(* gives up, between any two steps of the main thread.  A call of a        *)
(* resource is one step.  The reference counts are modelled by held (the   *)
(* shared slot *deferrals) and by the local deferralsRef of the event's    *)
(* callback, which lives while pc is not "over".                           *)
(*                                                                         *)
(* Messages, cards and their answers, handover data and the keepalive      *)
(* timer write to the response or wait for input and decide nothing; of    *)
(* them the model keeps that presentCard and update make a state for a     *)
(* resource that has not called defer.                                     *)
(***************************************************************************)
CONSTANT Resource

VARIABLES
  pc,          \* the callback of the event: "posted", "event", "decide", "answer",
               \* "over", "crashed" (handover data read through a null pointer)
  ds,          \* m_deferralStates: "none", "open", "done", "rejected"
  ranEvents, pending, completed,   \* m_ranEvents, m_pending, m_completed
  canceled,    \* a resource cancelled playerConnecting
  earlyReject, \* rejected while the callback of the event runs
  held,        \* *deferrals is not null
  cbRef,       \* *cbRef is not null
  conn,        \* the HTTP connection: "open", "cancelling" (in the handler), "closed"
  armed,       \* the request has its cancel handler
  client,      \* the client is in the registry
  passed,      \* allowClient has run: passedValidation
  response     \* what was written: "ok", "error", "end"

flags == <<ranEvents, pending, completed>>
vars ==
  <<pc, ds, flags, canceled, earlyReject, held, cbRef, conn, armed, client, passed, response>>

Init ==
  /\ pc = "posted"
  /\ ds = [r \in Resource |-> "none"]
  /\ ranEvents = FALSE /\ pending = FALSE /\ completed = FALSE
  /\ canceled = FALSE /\ earlyReject = FALSE
  /\ held = TRUE /\ cbRef = TRUE
  /\ conn \in {"open", "closed"}   \* closed: before the cancel handler was set
  /\ armed = TRUE /\ client = TRUE
  /\ passed = FALSE /\ response = {}

-----------------------------------------------------------------------------
(* The deferral *)

\* The weak reference to the client resolves; the callback of the event has it locked.
ClientLocked == client \/ pc # "over"

\* Written through cbRef, or not at all once the player has given up; the end of
\* the response takes the cancel handler away.
Write(verdict) ==
  IF cbRef THEN response' = response \cup {verdict, "end"} /\ armed' = FALSE
           ELSE UNCHANGED <<response, armed>>

\* The callback that InitConnectMethod sets with SetResolveCallback.
Resolve ==
  /\ passed' = ClientLocked
  /\ Write("ok")
  /\ cbRef' = FALSE /\ held' = FALSE
  /\ UNCHANGED earlyReject

\* The one it sets with SetRejectCallback; the weak references to earlyReject and
\* noReason resolve as long as the callback of the event runs.
Reject ==
  /\ earlyReject' = (pc # "over")
  /\ IF ClientLocked THEN Write("error") ELSE UNCHANGED <<response, armed>>
  /\ cbRef' = FALSE /\ held' = FALSE
  /\ UNCHANGED passed

\* Mutant: one resource that is done is enough.
AnyDone(states) == \E r \in Resource : states[r] = "done"

AllDone(states) == \A r \in Resource : states[r] # "open"

Rejected(states) == \E r \in Resource : states[r] = "rejected"

\* Mutant: no return after the reject callback.
SettleBoth(states) ==
  \/ /\ Rejected(states) /\ AllDone(states)
     /\ completed' = TRUE
     /\ passed' = TRUE
     /\ earlyReject' = (pc # "over")
     /\ Write("error")
     /\ cbRef' = FALSE /\ held' = FALSE
  \/ Rejected(states) /\ ~AllDone(states) /\ completed' = TRUE /\ Reject
  \/ ~Rejected(states) /\ AllDone(states) /\ completed' = TRUE /\ Resolve
  \/ /\ ~Rejected(states) /\ ~AllDone(states)
     /\ UNCHANGED <<completed, earlyReject, held, cbRef, armed, passed, response>>

\* UpdateDeferrals once the event has run: a rejection decides, then everyone done.
Settle(states) ==
  \/ Rejected(states) /\ completed' = TRUE /\ Reject
  \/ ~Rejected(states) /\ AllDone(states) /\ completed' = TRUE /\ Resolve
  \/ /\ ~Rejected(states) /\ ~AllDone(states)
     /\ UNCHANGED <<completed, earlyReject, held, cbRef, armed, passed, response>>

\* Mutant: m_ranEvents is not looked at.
UpdateDeferralsAtOnce(states) == pending' = pending /\ Settle(states)

\* Before that the update waits for RanEvents.
UpdateDeferrals(states) ==
  \/ ranEvents /\ pending' = pending /\ Settle(states)
  \/ /\ ~ranEvents /\ pending' = TRUE
     /\ UNCHANGED <<completed, earlyReject, held, cbRef, armed, passed, response>>

\* The weak reference of the functions resolves, and nothing is decided.
Callable == (held \/ pc = "event") /\ ~completed /\ pc \in {"event", "over"}

\* A resource calls a function of deferrals, in its handler or later.
Call(r, state) ==
  /\ Callable
  /\ ds' = [ds EXCEPT ![r] = state]
  /\ UpdateDeferrals(ds')
  /\ UNCHANGED <<pc, ranEvents, canceled, conn, client>>

Defer(r) == Call(r, "open")
Update(r) == Call(r, IF ds[r] = "none" THEN "open" ELSE ds[r])
Done(r) == Call(r, IF ds[r] = "rejected" THEN "rejected" ELSE "done")
DoneWithReason(r) == Call(r, "rejected")

\* presentCard makes a state as update does, and decides nothing.
PresentCard(r) ==
  /\ Callable
  /\ ds[r] = "none"
  /\ ds' = [ds EXCEPT ![r] = "open"]
  /\ UNCHANGED <<pc, flags, canceled, earlyReject, held, cbRef, conn, armed, client, passed, response>>

-----------------------------------------------------------------------------
(* The callback of the event *)

\* The player gave up before the event: it is not triggered, and sendError runs.
SkipEvent ==
  /\ pc = "posted" /\ ~held
  /\ pc' = "over"
  /\ response' = response \cup {"error", "end"} /\ armed' = FALSE
  /\ UNCHANGED <<ds, flags, canceled, earlyReject, held, cbRef, conn, client, passed>>

TriggerEvent ==
  /\ pc = "posted" /\ held
  /\ pc' = "event"
  /\ UNCHANGED <<ds, flags, canceled, earlyReject, held, cbRef, conn, armed, client, passed, response>>

\* CANCEL_EVENT in a handler.
CancelEvent ==
  /\ pc = "event"
  /\ canceled' = TRUE
  /\ UNCHANGED <<pc, ds, flags, earlyReject, held, cbRef, conn, armed, client, passed, response>>

\* Mutant: an update that came before the end of the event is forgotten.
RanEventsForgets ==
  /\ pc = "event" /\ pc' = "decide"
  /\ ranEvents' = TRUE /\ pending' = FALSE
  /\ UNCHANGED <<ds, completed, canceled, earlyReject, held, cbRef, conn, armed,
                 client, passed, response>>

\* RanEvents, after the handlers.
RanEvents ==
  /\ pc = "event" /\ pc' = "decide"
  /\ ranEvents' = TRUE /\ pending' = FALSE
  /\ \/ pending /\ Settle(ds)
     \/ ~pending /\ UNCHANGED <<completed, earlyReject, held, cbRef, armed, passed, response>>
  /\ UNCHANGED <<ds, canceled, conn, client>>

IsDeferred == \E r \in Resource : ds[r] # "none"

\* Mutant: the refusal leaves the deferral in its slot.
RefuseKeeps ==
  /\ canceled \/ earlyReject
  /\ pc' = "over"
  /\ response' = response \cup {"error", "end"} /\ armed' = FALSE
  /\ UNCHANGED held

\* Cancelled or rejected: the slot is cleared and sendError writes, past cbRef.
Refuse ==
  /\ canceled \/ earlyReject
  /\ pc' = "over"
  /\ held' = FALSE
  /\ response' = response \cup {"error", "end"} /\ armed' = FALSE

Decide ==
  /\ pc = "decide"
  /\ \/ Refuse
     \/ /\ ~canceled /\ ~earlyReject
        /\ pc' = IF IsDeferred THEN "over" ELSE "answer"
        /\ UNCHANGED <<held, response, armed>>
  /\ UNCHANGED <<ds, flags, canceled, earlyReject, cbRef, conn, client, passed>>

\* Nobody deferred: allowClient, the handover data of *deferrals, the answer.
Answer ==
  /\ pc = "answer"
  /\ passed' = TRUE
  /\ \/ /\ held
        /\ pc' = "over"
        /\ cbRef' = FALSE /\ held' = FALSE
        /\ response' = response \cup {"ok", "end"} /\ armed' = FALSE
     \/ ~held /\ pc' = "crashed" /\ UNCHANGED <<held, cbRef, response, armed>>
  /\ UNCHANGED <<ds, flags, canceled, earlyReject, conn, client>>

-----------------------------------------------------------------------------
(* The HTTP thread *)

\* The player closes the connection; the cancel handler clears cbRef ...
Close ==
  /\ conn = "open"
  /\ conn' = IF armed THEN "cancelling" ELSE "closed"
  /\ cbRef' = (cbRef /\ ~armed)
  /\ UNCHANGED <<pc, ds, flags, canceled, earlyReject, held, armed, client, passed, response>>

\* ... and the slot.
CancelHandler ==
  /\ conn = "cancelling"
  /\ conn' = "closed"
  /\ held' = FALSE /\ armed' = FALSE
  /\ UNCHANGED <<pc, ds, flags, canceled, earlyReject, cbRef, client, passed, response>>

-----------------------------------------------------------------------------
\* The client leaves the registry meanwhile: it timed out, or was dropped.
ClientDropped ==
  /\ client
  /\ client' = FALSE
  /\ UNCHANGED <<pc, ds, flags, canceled, earlyReject, held, cbRef, conn, armed, passed, response>>

Next ==
  \/ \E r \in Resource :
       Defer(r) \/ Update(r) \/ PresentCard(r) \/ Done(r) \/ DoneWithReason(r)
  \/ SkipEvent \/ TriggerEvent \/ CancelEvent \/ RanEvents \/ Decide \/ Answer
  \/ Close \/ CancelHandler \/ ClientDropped

Spec == Init /\ [][Next]_vars

-----------------------------------------------------------------------------
(* Properties *)

\* Types.  Nothing is decided before the handlers of the event have run.
TypeOK ==
  /\ pc \in {"posted", "event", "decide", "answer", "over", "crashed"}
  /\ ds \in [Resource -> {"none", "open", "done", "rejected"}]
  /\ ranEvents \in BOOLEAN /\ pending \in BOOLEAN /\ completed \in BOOLEAN
  /\ canceled \in BOOLEAN /\ earlyReject \in BOOLEAN
  /\ held \in BOOLEAN /\ cbRef \in BOOLEAN
  /\ conn \in {"open", "cancelling", "closed"} /\ armed \in BOOLEAN /\ client \in BOOLEAN
  /\ passed \in BOOLEAN /\ response \subseteq {"ok", "error", "end"}
  /\ completed => ranEvents

\* A player is let in only when every resource that deferred the connection is
\* done, whichever calls first, before or after the end of the event, and whoever
\* defers again; and none of them has given a reason to refuse.
PassedMeansAllDone == passed => \A r \in Resource : ds[r] \in {"none", "done"}

\* A player who is told an error is not let in, and one who is let in is not told
\* an error.  (The exception is an event that a resource cancelled.)
OneVerdict == ~canceled => ~(passed /\ "error" \in response)

\* Nobody waits for nothing: when no deferral is open the player has an answer,
\* also when the last done came before the deferrals were looked at.  (The
\* exception is a rejection of a client that has left the registry.)
AnsweredWhenDone ==
  pc = "over" /\ conn = "open" /\ AllDone(ds) => "end" \in response \/ (~client /\ Rejected(ds))

\* No deferral outlives its answer, or a player whose cancel handler has run: the
\* slot and the callbacks hold each other, and with them the ClientHolder, until
\* the slot is cleared.  Excepted is a connection that was closed before its
\* cancel handler was set (closed, and still armed): nobody calls that handler,
\* and the slot stays until the resources are done.
SlotCleared ==
  pc = "over" /\ ("end" \in response \/ (conn = "closed" /\ ~armed)) => ~held

\* "This event can be canceled to reject the player *instantly*": a player is not
\* let in by an event that a resource cancelled.
CanceledIsRefused == canceled => ~passed

=============================================================================
