--------------------------- MODULE DeferralProofs ---------------------------
(***************************************************************************)
(* Theorems about ClientDeferral, for every set of resources.              *)
(*                                                                         *)
(* The inductive invariant says what each stage of the attempt knows:      *)
(*  - Fresh: nothing is decided until the handlers have run;               *)
(*  - Waiting: an update before that is remembered in m_pending, so that   *)
(*    an unanswered deferral always has a resource that is not done;       *)
(*  - Decided: what a verdict leaves behind (the deferral completed, or    *)
(*    out of its slot), so that there is no second one;                    *)
(*  - Released: whatever ends the response also clears the slot.           *)
(***************************************************************************)
EXTENDS ClientDeferral, TLAPS

Fresh ==
  pc \in {"posted", "event"} =>
    ~ranEvents /\ ~completed /\ ~passed /\ ~earlyReject /\ response = {}

Waiting ==
  /\ ~ranEvents /\ ~pending => \A r \in Resource : ds[r] \in {"none", "open"}
  /\ pending => IsDeferred
  /\ pc = "posted" => ~IsDeferred
  /\ pc \in {"decide", "answer", "crashed"} => ranEvents
  /\ ~ranEvents /\ pc = "over" => ~IsDeferred /\ ~held
  /\ ranEvents /\ IsDeferred /\ AllDone(ds) => completed
  /\ pc \in {"answer", "crashed"} => ~IsDeferred

Decided ==
  /\ completed => IsDeferred /\ ~cbRef /\ ranEvents
  /\ passed => completed \/ pc = "crashed" \/ (pc = "over" /\ ~held)
  /\ passed => \A r \in Resource : ds[r] \in {"none", "done"}
  /\ "error" \in response => completed \/ (pc = "over" /\ ~held)
  /\ earlyReject => completed /\ ~passed
  /\ OneVerdict

Released == ("end" \in response \/ ~armed) => ~held

Answered ==
  /\ conn = "open" /\ ~cbRef =>
       "end" \in response \/ (pc = "over" /\ ~client /\ completed /\ Rejected(ds))
  /\ pc = "over" /\ ~completed /\ conn = "open" /\ AllDone(ds) => "end" \in response

Inv == TypeOK /\ Fresh /\ Waiting /\ Decided /\ Released /\ Answered

\* The invariant holds in the initial states.
LEMMA InitInv == Init => Inv
BY DEF Init, Inv, TypeOK, Fresh, Waiting, Decided, Released, Answered, OneVerdict, IsDeferred

\* A verdict of UpdateDeferrals, while the event's callback runs RanEvents or later.
LEMMA SettleInv ==
  ASSUME Inv, ~completed, Settle(ds'), ranEvents', UNCHANGED <<canceled, conn, client>>,
         ds' \in [Resource -> {"none", "open", "done", "rejected"}], pending' \in BOOLEAN,
         ranEvents' = TRUE,
         \/ pc = "over" /\ pc' = "over" /\ held
         \/ pc = "event" /\ pc' = "decide",
         IsDeferred'
  PROVE  Inv'
<1>1. TypeOK'
  BY DEF Inv, TypeOK, Settle, Resolve, Reject, Write, ClientLocked
<1>2. Fresh' /\ Released'
  BY DEF Inv, Fresh, Released, Settle, Resolve, Reject, Write, TypeOK
<1>3. Waiting'
  BY DEF Inv, Waiting, Settle, Resolve, Reject, TypeOK
<1>4. Decided'
  BY DEF Inv, Decided, OneVerdict, Settle, Resolve, Reject, Write, AllDone, Rejected, TypeOK, Fresh
<1>5. Answered'
  BY DEF Inv, Answered, Settle, Resolve, Reject, Write, AllDone, Rejected, TypeOK,
        ClientLocked, Decided, Fresh, Released
<1> QED
  BY <1>1, <1>2, <1>3, <1>4, <1>5 DEF Inv

\* A function that a resource calls keeps the invariant: before the end of the event
\* it is remembered, later it is looked at.
LEMMA CallInv ==
  ASSUME Inv, NEW r \in Resource, NEW state \in {"open", "done", "rejected"}, Call(r, state)
  PROVE  Inv'
<1>1. /\ ds' \in [Resource -> {"none", "open", "done", "rejected"}]
      /\ ds'[r] # "none"
  BY DEF Call, Inv, TypeOK
<1>2. IsDeferred'
  BY <1>1 DEF IsDeferred
<1>3. UpdateDeferrals(ds') /\ Callable /\ UNCHANGED <<pc, ranEvents, canceled, conn, client>>
  BY DEF Call
<1>4. CASE ranEvents
  <2>1. pc = "over" /\ held /\ ~completed /\ Settle(ds') /\ pending' = pending
    BY <1>3, <1>4 DEF Callable, Inv, Fresh, UpdateDeferrals
  <2>2. ranEvents = TRUE /\ pending \in BOOLEAN
    BY <1>4 DEF Inv, TypeOK
  <2> QED
    BY <1>1, <1>2, <1>3, <2>1, <2>2, SettleInv
<1>5. CASE ~ranEvents
  <2>1. /\ pending' = TRUE
        /\ UNCHANGED <<completed, earlyReject, held, cbRef, armed, passed, response>>
    BY <1>3, <1>5 DEF UpdateDeferrals
  <2>2. pc = "event"
    BY <1>3, <1>5 DEF Callable, Inv, Waiting
  <2>3. TypeOK'
    BY <1>1, <1>3, <2>1 DEF Inv, TypeOK
  <2>4. Fresh' /\ Waiting' /\ Released'
    BY <1>2, <1>3, <1>5, <2>1, <2>2 DEF Inv, Fresh, Waiting, Released
  <2>5. Decided'
    BY <1>3, <2>1, <2>2 DEF Inv, Fresh, Decided, OneVerdict
  <2>6. Answered'
    BY <1>3, <2>1, <2>2 DEF Inv, Answered
  <2> QED
    BY <2>3, <2>4, <2>5, <2>6 DEF Inv
<1> QED
  BY <1>4, <1>5

\* Every step keeps the invariant.
LEMMA StepInv == Inv /\ [Next]_vars => Inv'
<1> SUFFICES ASSUME Inv, [Next]_vars PROVE Inv'
  OBVIOUS
<1>1. ASSUME NEW r \in Resource, Defer(r) \/ Update(r) \/ Done(r) \/ DoneWithReason(r) PROVE Inv'
  <2>1. ds[r] \in {"none", "open", "done", "rejected"}
    BY DEF Inv, TypeOK
  <2> QED
    BY <1>1, <2>1, CallInv DEF Defer, Update, Done, DoneWithReason
<1>2. ASSUME NEW r \in Resource, PresentCard(r) PROVE Inv'
  <2>1. ds' \in [Resource -> {"none", "open", "done", "rejected"}] /\ ds'[r] = "open"
    BY <1>2 DEF PresentCard, Inv, TypeOK
  <2>2. \A s \in Resource : s # r => ds'[s] = ds[s]
    BY <1>2 DEF PresentCard, Inv, TypeOK
  <2>3. ~AllDone(ds') /\ IsDeferred' /\ ~completed /\ pc \in {"event", "over"}
    BY <1>2, <2>1 DEF PresentCard, Callable, AllDone, IsDeferred
  <2>4. UNCHANGED <<pc, flags, canceled, earlyReject, held, cbRef, conn, armed, client, passed,
                    response>>
    BY <1>2 DEF PresentCard
  <2>5. TypeOK' /\ Fresh' /\ Released'
    BY <2>1, <2>4 DEF Inv, TypeOK, Fresh, Released, flags
  <2>6. Waiting'
    BY <1>2, <2>1, <2>2, <2>3, <2>4 DEF PresentCard, Callable, Inv, Waiting, flags
  <2>7. Decided'
    BY <1>2, <2>3, <2>4 DEF PresentCard, Callable, Inv, Fresh, Decided, OneVerdict, flags
  <2>8. Answered'
    BY <2>3, <2>4 DEF Inv, Answered, flags
  <2> QED
    BY <2>5, <2>6, <2>7, <2>8 DEF Inv
<1>3. CASE SkipEvent \/ TriggerEvent \/ CancelEvent
  <2>1. TypeOK'
    <3>1. CASE SkipEvent
      BY <3>1 DEF SkipEvent, Inv, TypeOK, flags
    <3>2. CASE TriggerEvent
      BY <3>2 DEF TriggerEvent, Inv, TypeOK, flags
    <3>3. CASE CancelEvent
      BY <3>3 DEF CancelEvent, Inv, TypeOK, flags
    <3> QED
      BY <1>3, <3>1, <3>2, <3>3
  <2>2. Fresh'
    BY <1>3 DEF SkipEvent, TriggerEvent, CancelEvent, Inv, TypeOK, Fresh, flags
  <2>3. Waiting'
    BY <1>3
      DEF SkipEvent, TriggerEvent, CancelEvent, Inv, TypeOK, Waiting, Fresh, IsDeferred,
          AllDone, flags
  <2>4. Decided'
    BY <1>3
      DEF SkipEvent, TriggerEvent, CancelEvent, Inv, TypeOK, Decided, Fresh, Waiting,
          OneVerdict, IsDeferred, flags
  <2>5. Released'
    BY <1>3 DEF SkipEvent, TriggerEvent, CancelEvent, Inv, TypeOK, Released, Fresh, flags
  <2>6. Answered'
    BY <1>3
      DEF SkipEvent, TriggerEvent, CancelEvent, Inv, TypeOK, Answered, Fresh, Waiting,
          Decided, Released, AllDone, Rejected, IsDeferred, flags
  <2> QED
    BY <2>1, <2>2, <2>3, <2>4, <2>5, <2>6 DEF Inv
<1>4. CASE RanEvents
  <2>1. CASE pending
    <3>1. IsDeferred /\ ~completed /\ ds' = ds
      BY <1>4, <2>1 DEF RanEvents, Inv, Waiting, Fresh
    <3>2. Settle(ds) /\ ranEvents' = TRUE /\ pending' = FALSE /\ pc = "event" /\ pc' = "decide"
      BY <1>4, <2>1 DEF RanEvents
    <3>3. UNCHANGED <<canceled, conn, client>> /\ IsDeferred'
      BY <1>4, <3>1 DEF RanEvents, IsDeferred
    <3>4. ds \in [Resource -> {"none", "open", "done", "rejected"}]
      BY DEF Inv, TypeOK
    <3>5. Settle(ds')
      BY <3>1, <3>2
    <3> QED
      BY <3>1, <3>2, <3>3, <3>4, <3>5, SettleInv
  <2>2. CASE ~pending
    <3>1. TypeOK'
      BY <1>4, <2>2 DEF RanEvents, Inv, TypeOK
    <3>2. Fresh'
      BY <1>4, <2>2 DEF RanEvents, Inv, Fresh
    <3>3. Waiting'
      BY <1>4, <2>2 DEF RanEvents, Inv, Waiting, Fresh, IsDeferred, AllDone
    <3>4. Decided'
      BY <1>4, <2>2 DEF RanEvents, Inv, Decided, Fresh, Waiting, OneVerdict, IsDeferred
    <3>5. Released'
      BY <1>4, <2>2 DEF RanEvents, Inv, Released, Fresh
    <3>6. Answered'
      BY <1>4, <2>2 DEF RanEvents, Inv, Answered, Fresh
    <3> QED
      BY <3>1, <3>2, <3>3, <3>4, <3>5, <3>6 DEF Inv
  <2> QED
    BY <2>1, <2>2
<1>5. CASE Decide
  <2>1. TypeOK'
    BY <1>5 DEF Decide, Refuse, Inv, TypeOK, flags
  <2>2. Fresh'
    BY <1>5 DEF Decide, Refuse, Inv, TypeOK, Fresh, flags
  <2>3. Waiting'
    BY <1>5 DEF Decide, Refuse, Inv, TypeOK, Waiting, Fresh, IsDeferred, AllDone, flags
  <2>4. Decided'
    BY <1>5 DEF Decide, Refuse, Inv, TypeOK, Decided, Fresh, Waiting, OneVerdict, IsDeferred, flags
  <2>5. Released'
    BY <1>5 DEF Decide, Refuse, Inv, TypeOK, Released, Fresh, flags
  <2>6. Answered'
    BY <1>5
      DEF Decide, Refuse, Inv, TypeOK, Answered, Fresh, Waiting, Decided, Released, AllDone,
          Rejected, IsDeferred, flags
  <2> QED
    BY <2>1, <2>2, <2>3, <2>4, <2>5, <2>6 DEF Inv
<1>6. CASE Answer
  <2>1. TypeOK'
    BY <1>6 DEF Answer, Inv, TypeOK, flags
  <2>2. Fresh'
    BY <1>6 DEF Answer, Inv, TypeOK, Fresh, flags
  <2>3. Waiting'
    BY <1>6 DEF Answer, Inv, TypeOK, Waiting, Fresh, IsDeferred, AllDone, flags
  <2>4. Decided'
    BY <1>6 DEF Answer, Inv, TypeOK, Decided, Fresh, Waiting, OneVerdict, IsDeferred, flags
  <2>5. Released'
    BY <1>6 DEF Answer, Inv, TypeOK, Released, Fresh, flags
  <2>6. Answered'
    BY <1>6
      DEF Answer, Inv, TypeOK, Answered, Fresh, Waiting, Decided, Released, AllDone,
          Rejected, IsDeferred, flags
  <2> QED
    BY <2>1, <2>2, <2>3, <2>4, <2>5, <2>6 DEF Inv
<1>7. CASE Close \/ CancelHandler \/ ClientDropped
  <2>1. TypeOK'
    <3>1. CASE Close
      BY <3>1 DEF Close, Inv, TypeOK, flags
    <3>2. CASE CancelHandler
      BY <3>2 DEF CancelHandler, Inv, TypeOK, flags
    <3>3. CASE ClientDropped
      BY <3>3 DEF ClientDropped, Inv, TypeOK, flags
    <3> QED
      BY <1>7, <3>1, <3>2, <3>3
  <2>2. Fresh'
    BY <1>7 DEF Close, CancelHandler, ClientDropped, Inv, TypeOK, Fresh, flags
  <2>3. Waiting'
    BY <1>7
      DEF Close, CancelHandler, ClientDropped, Inv, TypeOK, Waiting, Fresh, IsDeferred,
          AllDone, flags
  <2>4. Decided'
    BY <1>7
      DEF Close, CancelHandler, ClientDropped, Inv, TypeOK, Decided, Fresh, Waiting,
          OneVerdict, IsDeferred, flags
  <2>5. Released'
    BY <1>7 DEF Close, CancelHandler, ClientDropped, Inv, TypeOK, Released, Fresh, flags
  <2>6. Answered'
    BY <1>7
      DEF Close, CancelHandler, ClientDropped, Inv, TypeOK, Answered, Fresh, Waiting,
          Decided, Released, AllDone, Rejected, IsDeferred, flags
  <2> QED
    BY <2>1, <2>2, <2>3, <2>4, <2>5, <2>6 DEF Inv
<1>8. CASE UNCHANGED vars
  BY <1>8 DEF vars, flags, Inv, TypeOK, Fresh, Waiting, Decided, Released, Answered,
     OneVerdict, IsDeferred, AllDone, Rejected
<1> QED
  BY <1>1, <1>2, <1>3, <1>4, <1>5, <1>6, <1>7, <1>8 DEF Next

\* The invariant holds in every reachable state.
THEOREM InvInvariant == Spec => []Inv
BY InitInv, StepInv, PTL DEF Spec

\* Types, and nothing is decided before the handlers of the event have run.
THEOREM DeferralTypeCorrect == Spec => []TypeOK
<1>1. Inv => TypeOK
  BY DEF Inv
<1> QED
  BY <1>1, InvInvariant, PTL

\* Nobody is let in while a resource has not called done, or has given a reason.
THEOREM PassedMeansAllDoneInvariant == Spec => []PassedMeansAllDone
<1>1. Inv => PassedMeansAllDone
  BY DEF Inv, Decided, PassedMeansAllDone
<1> QED
  BY <1>1, InvInvariant, PTL

\* Unless the event was cancelled, nobody is both refused and let in.
THEOREM OneVerdictInvariant == Spec => []OneVerdict
<1>1. Inv => OneVerdict
  BY DEF Inv, Decided
<1> QED
  BY <1>1, InvInvariant, PTL

\* When the last resource is done the player has an answer.
THEOREM AnsweredWhenDoneInvariant == Spec => []AnsweredWhenDone
<1>1. Inv => AnsweredWhenDone
  BY DEF Inv, Decided, Answered, AnsweredWhenDone, TypeOK
<1> QED
  BY <1>1, InvInvariant, PTL

\* A deferral does not outlive its answer, or a player whose cancel handler ran.
THEOREM SlotClearedInvariant == Spec => []SlotCleared
<1>1. Inv => SlotCleared
  BY DEF Inv, Released, SlotCleared
<1> QED
  BY <1>1, InvInvariant, PTL
=============================================================================
