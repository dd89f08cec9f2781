------------------------- MODULE CallRegistryProofs -------------------------
(***************************************************************************)
(* Proofs about CallRegistry, for any number of calls, operators and       *)
(* requests.                                                               *)
(***************************************************************************)
EXTENDS CallRegistry, TLAPS

\* The goroutines that will write a record back hold one, and the requests that are past
\* creating a call name it.
HolderInv ==
    /\ \A c \in Calls : photo[c].at = "put" => photo[c].seen \in CallRecord
    /\ \A r \in Requests : req[r].at \notin {"idle", "create"} => req[r].call \in Calls

IndInv == TypeOK /\ HolderInv /\ NoneLost

\* What the steps of the broker keep.
RegistryInv ==
    /\ calls \in [Calls -> CallRecord \cup {NoRecord}]
    /\ history \in [Calls -> Owners \cup {NoRecord}]
    /\ shown \subseteq Calls
    /\ NoneLost

\* UpsertCall adds a call to those shown and keeps it in the list.
LEMMA UpsertKeeps ==
    ASSUME RegistryInv, NEW c \in Calls, NEW rec \in CallRecord, UpsertCall(c, rec)
    PROVE  RegistryInv'
BY NoRecordAssumption DEF RegistryInv, UpsertCall, NoneLost

\* EndCall moves a record from the list to the history.
LEMMA EndKeeps ==
    ASSUME RegistryInv, NEW c \in Calls, EndCall(c)
    PROVE  RegistryInv'
BY NoRecordAssumption DEF RegistryInv, EndCall, NoneLost, CallRecord

\* SetOwner that returns true changes the owner of a record and nothing else.
LEMMA ClaimKeeps ==
    ASSUME RegistryInv, NEW c \in Calls, NEW o \in Owners, MayClaim(c, o), SetOwner(c, o),
           UNCHANGED <<history, shown>>
    PROVE  RegistryInv'
<1>1. CASE o = NoOwner
    BY <1>1 DEF RegistryInv, SetOwner, NoneLost
<1>2. CASE o # NoOwner
  <2>1. calls[c] \in CallRecord
    BY <1>2 DEF RegistryInv, MayClaim
  <2>2. [calls[c] EXCEPT !.owner = o] \in CallRecord
    BY <2>1 DEF CallRecord
  <2>3. calls' = [calls EXCEPT ![c] = [calls[c] EXCEPT !.owner = o]]
    BY <1>2 DEF SetOwner
  <2> QED
    BY <2>2, <2>3, NoRecordAssumption DEF RegistryInv, NoneLost
<1> QED
    BY <1>1, <1>2

\* Steps that leave the broker alone.
LEMMA RegistryUnchanged ==
    ASSUME RegistryInv, UNCHANGED registry
    PROVE  RegistryInv'
BY DEF RegistryInv, registry, NoneLost

\* emitState, which removes the record of an ended call.
LEMMA EmissionType ==
    ASSUME NEW c \in Calls, emit \in [Calls -> Emission], NEW first \in BOOLEAN,
           RegistryInv, EmitState(c, first)
    PROVE  RegistryInv' /\ emit' \in [Calls -> Emission]
<1>1. CASE state'[c] = "ended"
    BY <1>1, EndKeeps DEF EmitState
<1>2. CASE state'[c] # "ended"
  <2>1. [Quiet EXCEPT !.at = "get", !.first = first] \in Emission
    BY DEF Quiet, Emission
  <2> QED
    BY <1>2, <2>1, RegistryUnchanged DEF EmitState
<1> QED
    BY <1>1, <1>2

\* The transitions of Progress lead to states of a call.
LEMMA ProgressTarget ==
    ASSUME NEW c,
           NEW t \in {"remote_accepted", "media_connected", "media_lost", "media_restored",
                      "hold", "resume"}
    PROVE  Target(Info(c), t) \in CallStates
BY DEF Target, CallStates

\* The rest of TypeOK and HolderInv: the calls, and the goroutines and requests.
FlowInv ==
    /\ state \in [Calls -> CallStates \cup {"nil", "gone"}]
    /\ emit \in [Calls -> Emission]
    /\ offer \in [Calls -> {"no", "incoming", "emit"}]
    /\ ended \subseteq Calls
    /\ photo \in [Calls -> [at : {"no", "fetch", "put"}, seen : CallRecord \cup {NoRecord}]]
    /\ req \in [Requests -> Request]
    /\ HolderInv

\* A new broker knows no calls.
LEMMA InitKeeps == Init => IndInv
<1> SUFFICES ASSUME Init PROVE IndInv
    OBVIOUS
<1>1. Quiet \in Emission /\ Idle \in Request /\ Idle.at = "idle"
    BY DEF Quiet, Emission, Idle, Request, Owners
<1>2. RegistryInv
    BY DEF Init, RegistryInv, NoneLost
<1>3. FlowInv
    BY <1>1 DEF Init, FlowInv, HolderInv, CallStates
<1> QED
    BY <1>2, <1>3 DEF IndInv, RegistryInv, FlowInv, TypeOK

\* Requests move on.
LEMMA GotoType ==
    ASSUME req \in [Requests -> Request], NEW r \in Requests,
           NEW at \in {"idle", "create", "query", "upsert", "claim", "accept", "end"},
           at \notin {"idle", "create"} => req[r].call \in Calls,
           \A q \in Requests : req[q].at \notin {"idle", "create"} => req[q].call \in Calls,
           Goto(r, at)
    PROVE  /\ req' \in [Requests -> Request]
           /\ \A q \in Requests : req'[q].at \notin {"idle", "create"} => req'[q].call \in Calls
BY DEF Goto, Request

LEMMA DoneType ==
    ASSUME req \in [Requests -> Request], NEW r \in Requests,
           \A q \in Requests : req[q].at \notin {"idle", "create"} => req[q].call \in Calls,
           Done(r)
    PROVE  /\ req' \in [Requests -> Request]
           /\ \A q \in Requests : req'[q].at \notin {"idle", "create"} => req'[q].call \in Calls
BY DEF Done, Request, Idle, Owners

\* A request is taken up.
LEMMA TakeType ==
    ASSUME req \in [Requests -> Request], NEW r \in Requests, NEW new \in Request,
           new.at \notin {"idle", "create"} => new.call \in Calls,
           \A q \in Requests : req[q].at \notin {"idle", "create"} => req[q].call \in Calls,
           req' = [req EXCEPT ![r] = new]
    PROVE  /\ req' \in [Requests -> Request]
           /\ \A q \in Requests : req'[q].at \notin {"idle", "create"} => req'[q].call \in Calls
OBVIOUS

\* The steps of a call's manager and of the photo goroutine.
LEMMA ManagerKeeps ==
    ASSUME RegistryInv, FlowInv, NEW c \in Calls, Manager(c)
    PROVE  RegistryInv' /\ FlowInv'
<1>1. CASE EmitGet(c)
  <2>1. RegistryInv'
    BY <1>1, RegistryUnchanged DEF EmitGet
  <2>2. emit' \in [Calls -> Emission]
    <3>1. emit[c] \in Emission /\ calls[c] \in CallRecord \cup {NoRecord}
      BY DEF FlowInv, RegistryInv
    <3>2. [emit[c] EXCEPT !.at = "put", !.seen = calls[c]] \in Emission
      BY <3>1 DEF Emission
    <3>3. emit' = [emit EXCEPT ![c] = [emit[c] EXCEPT !.at = "put", !.seen = calls[c]]]
      BY <1>1 DEF EmitGet
    <3> QED
      BY <3>2, <3>3 DEF FlowInv
  <2> QED
    BY <1>1, <2>1, <2>2 DEF EmitGet, FlowInv, HolderInv
<1>2. CASE EmitPut(c)
  <2> DEFINE seen == emit[c].seen
             rec == [owner  |-> IF seen = NoRecord THEN NoOwner ELSE seen.owner,
                     status |-> MapStatus(state[c]),
                     photo  |-> seen # NoRecord /\ seen.photo]
  <2>1. seen \in CallRecord \cup {NoRecord}
    BY DEF FlowInv, Emission
  <2>2. (IF seen = NoRecord THEN NoOwner ELSE seen.owner) \in Owners
    BY <2>1 DEF CallRecord, Owners
  <2>3. MapStatus(state[c]) \in Statuses
    BY DEF MapStatus, Statuses
  <2>4. rec \in CallRecord
    BY <2>2, <2>3 DEF CallRecord
  <2>5. RegistryInv'
    BY <1>2, <2>4, UpsertKeeps DEF EmitPut
  <2>6. emit' \in [Calls -> Emission]
    BY <1>2 DEF EmitPut, FlowInv, Quiet, Emission
  <2> QED
    BY <1>2, <2>5, <2>6 DEF EmitPut, FlowInv, HolderInv
<1>3. CASE Progress(c)
  <2>1. PICK t \in {"remote_accepted", "media_connected", "media_lost", "media_restored",
                    "hold", "resume"} :
            state' = [state EXCEPT ![c] = IF Valid(Info(c), t) THEN Target(Info(c), t) ELSE @]
    BY <1>3 DEF Progress
  <2>2. state' \in [Calls -> CallStates \cup {"nil", "gone"}]
    BY <2>1, ProgressTarget DEF FlowInv
  <2>3. RegistryInv' /\ emit' \in [Calls -> Emission]
    BY <1>3, EmissionType DEF Progress, FlowInv
  <2> QED
    BY <1>3, <2>2, <2>3 DEF Progress, FlowInv, HolderInv
<1>4. CASE Terminate(c)
  <2>1. state' \in [Calls -> CallStates \cup {"nil", "gone"}] /\ ended' \subseteq Calls
    BY <1>4 DEF Terminate, Terminated, FlowInv, CallStates
  <2>2. RegistryInv' /\ emit' \in [Calls -> Emission]
    BY <1>4, EmissionType DEF Terminate, Terminated, FlowInv
  <2> QED
    BY <1>4, <2>1, <2>2 DEF Terminate, FlowInv, HolderInv
<1>5. CASE OnEnded(c)
    BY <1>5, EndKeeps DEF OnEnded, FlowInv, HolderInv
<1>6. CASE Offer(c)
    BY <1>6, RegistryUnchanged DEF Offer, FlowInv, HolderInv, CallStates
<1>7. CASE OnIncoming(c)
  <2>1. [owner |-> NoOwner, status |-> "ringing", photo |-> FALSE] \in CallRecord
    BY DEF CallRecord, Owners, Statuses
  <2>2. RegistryInv'
    BY <1>7, <2>1, UpsertKeeps DEF OnIncoming
  <2> QED
    BY <1>7, <2>2 DEF OnIncoming, FlowInv, HolderInv
<1>8. CASE OfferEmit(c)
  <2>1. RegistryInv' /\ emit' \in [Calls -> Emission]
    BY <1>8, EmissionType DEF OfferEmit, FlowInv
  <2> QED
    BY <1>8, <2>1 DEF OfferEmit, FlowInv, HolderInv
<1>9. CASE PhotoGet(c)
  <2> DEFINE Goroutine == [at : {"no", "fetch", "put"}, seen : CallRecord \cup {NoRecord}]
  <2>1. RegistryInv'
    BY <1>9, RegistryUnchanged DEF PhotoGet
  <2>2. PICK new \in Goroutine :
            /\ new.at = "put" => new.seen \in CallRecord
            /\ photo' = [photo EXCEPT ![c] = new]
    <3>1. CASE photo' = [photo EXCEPT ![c].at = "no"]
      <4>1. [photo[c] EXCEPT !.at = "no"] \in Goroutine
        BY DEF FlowInv
      <4> QED
        BY <3>1, <4>1
    <3>2. CASE /\ calls[c] # NoRecord
               /\ photo' = [photo EXCEPT ![c] = [at |-> "put", seen |-> calls[c]]]
        BY <3>2 DEF RegistryInv
    <3> QED
        BY <1>9, <3>1, <3>2 DEF PhotoGet
  <2>3. photo' \in [Calls -> Goroutine]
    BY <2>2 DEF FlowInv
  <2>4. \A d \in Calls : photo'[d].at = "put" => photo'[d].seen \in CallRecord
    BY <2>2 DEF FlowInv, HolderInv
  <2> QED
    BY <1>9, <2>1, <2>3, <2>4 DEF PhotoGet, FlowInv, HolderInv
<1>10. CASE PhotoPut(c)
  <2>1. [photo[c].seen EXCEPT !.photo = TRUE] \in CallRecord
    BY <1>10 DEF PhotoPut, FlowInv, HolderInv, CallRecord
  <2>2. RegistryInv'
    BY <1>10, <2>1, UpsertKeeps DEF PhotoPut
  <2> QED
    BY <1>10, <2>2 DEF PhotoPut, FlowInv, HolderInv
<1> QED
    BY <1>1, <1>2, <1>3, <1>4, <1>5, <1>6, <1>7, <1>8, <1>9, <1>10 DEF Manager

\* The steps of the HTTP requests.
LEMMA HandlerKeeps ==
    ASSUME RegistryInv, FlowInv, NEW r \in Requests, Handler(r)
    PROVE  RegistryInv' /\ FlowInv'
<1> USE DEF FlowInv, HolderInv
<1>1. ASSUME NEW o \in Owners, NEW group \in BOOLEAN, StartCheck(r, o, group)
      PROVE  RegistryInv' /\ FlowInv'
  <2>1. [Idle EXCEPT !.at = "create", !.by = o, !.group = group] \in Request
    BY DEF Idle, Request
  <2> QED
    BY <1>1, <2>1, TakeType, RegistryUnchanged DEF StartCheck, Idle
<1>2. ASSUME NEW c \in Calls, StartCreate(r, c)
      PROVE  RegistryInv' /\ FlowInv'
  <2>1. /\ [req[r] EXCEPT !.at = "query", !.call = c] \in Request
        /\ req' = [req EXCEPT ![r] = [req[r] EXCEPT !.at = "query", !.call = c]]
        /\ [req[r] EXCEPT !.at = "query", !.call = c].call = c
    BY <1>2 DEF StartCreate, Request
  <2>2. state' \in [Calls -> CallStates \cup {"nil", "gone"}]
    BY <1>2 DEF StartCreate, CallStates
  <2> QED
    BY <1>2, <2>1, <2>2, TakeType, RegistryUnchanged DEF StartCreate
<1>3. ASSUME NEW c \in Calls, RejectCall(r, c)
      PROVE  RegistryInv' /\ FlowInv'
  <2>1. [Idle EXCEPT !.at = "end", !.call = c] \in Request
    BY DEF Idle, Request, Owners
  <2>2. state' \in [Calls -> CallStates \cup {"nil", "gone"}]
    BY <1>3 DEF RejectCall, CallStates
  <2>3. RegistryInv' /\ emit' \in [Calls -> Emission]
    BY <1>3, EmissionType, RegistryUnchanged DEF RejectCall
  <2> QED
    BY <1>3, <2>1, <2>2, <2>3, TakeType DEF RejectCall, Idle
<1>4. ASSUME NEW c \in Calls, EndCallRequest(r, c)
      PROVE  RegistryInv' /\ FlowInv'
  <2>1. [Idle EXCEPT !.at = "end", !.call = c] \in Request
    BY DEF Idle, Request, Owners
  <2>2. state' \in [Calls -> CallStates \cup {"nil", "gone"}] /\ ended' \subseteq Calls
    BY <1>4 DEF EndCallRequest, Terminated, CallStates
  <2>3. RegistryInv' /\ emit' \in [Calls -> Emission]
    BY <1>4, EmissionType, RegistryUnchanged DEF EndCallRequest, Terminated
  <2> QED
    BY <1>4, <2>1, <2>2, <2>3, TakeType DEF EndCallRequest, Idle
<1>5. ASSUME NEW c \in Calls, NEW o \in Owners, AcceptCheck(r, o, c)
      PROVE  RegistryInv' /\ FlowInv'
  <2>1. [Idle EXCEPT !.at = "claim", !.by = o, !.call = c] \in Request
    BY DEF Idle, Request
  <2> QED
    BY <1>5, <2>1, TakeType, RegistryUnchanged DEF AcceptCheck, Idle
<1>6. CASE StartFails(r)
  <2>1. state' \in [Calls -> CallStates \cup {"nil", "gone"}]
    BY <1>6 DEF StartFails
  <2>2. CASE Done(r)
    BY <1>6, <2>1, <2>2, DoneType, RegistryUnchanged DEF StartFails
  <2>3. CASE req' = [req EXCEPT ![r].at = "create", ![r].call = NoCall]
    <3>1. /\ [req[r] EXCEPT !.at = "create", !.call = NoCall] \in Request
          /\ req' = [req EXCEPT ![r] = [req[r] EXCEPT !.at = "create", !.call = NoCall]]
          /\ [req[r] EXCEPT !.at = "create", !.call = NoCall].at = "create"
      BY <2>3 DEF Request
    <3> QED
      BY <1>6, <2>1, <3>1, TakeType, RegistryUnchanged DEF StartFails
  <2> QED
    BY <1>6, <2>2, <2>3 DEF StartFails
<1>7. CASE OfferSent(r)
  <2>1. req[r].call \in Calls
    BY <1>7 DEF OfferSent
  <2>2. state' \in [Calls -> CallStates \cup {"nil", "gone"}]
    BY <1>7 DEF OfferSent, CallStates
  <2>3. RegistryInv' /\ emit' \in [Calls -> Emission]
    BY <1>7, <2>1, EmissionType DEF OfferSent
  <2> QED
    BY <1>7, <2>1, <2>2, <2>3, GotoType DEF OfferSent
<1>8. CASE StartUpsert(r)
  <2>1. req[r].call \in Calls
    BY <1>8 DEF StartUpsert
  <2>2. [owner |-> req[r].by, status |-> "ringing", photo |-> FALSE] \in CallRecord
    BY DEF CallRecord, Statuses, Request
  <2>3. RegistryInv'
    BY <1>8, <2>1, <2>2, UpsertKeeps DEF StartUpsert
  <2>4. /\ photo' \in [Calls -> [at : {"no", "fetch", "put"}, seen : CallRecord \cup {NoRecord}]]
        /\ \A d \in Calls : photo'[d].at = "put" => photo'[d].seen \in CallRecord
    BY <1>8 DEF StartUpsert
  <2> QED
    BY <1>8, <2>3, <2>4, DoneType DEF StartUpsert
<1>9. CASE AcceptClaim(r)
  <2>1. req[r].call \in Calls /\ req[r].by \in Owners
    BY <1>9 DEF AcceptClaim, Request
  <2>2. CASE MayClaim(req[r].call, req[r].by)
    BY <1>9, <2>1, <2>2, ClaimKeeps, GotoType DEF AcceptClaim
  <2>3. CASE ~MayClaim(req[r].call, req[r].by)
    BY <1>9, <2>3, RegistryUnchanged, DoneType DEF AcceptClaim, registry
  <2> QED
    BY <2>2, <2>3
<1>10. CASE AcceptCall(r)
  <2>1. req[r].call \in Calls
    BY <1>10 DEF AcceptCall
  <2>2. state' \in [Calls -> CallStates \cup {"nil", "gone"}]
    BY <1>10 DEF AcceptCall, CallStates
  <2>3. RegistryInv' /\ emit' \in [Calls -> Emission]
    BY <1>10, <2>1, EmissionType, RegistryUnchanged DEF AcceptCall
  <2> QED
    BY <1>10, <2>2, <2>3, DoneType DEF AcceptCall
<1>11. CASE RequestEnds(r)
  <2>1. req[r].call \in Calls
    BY <1>11 DEF RequestEnds
  <2> QED
    BY <1>11, <2>1, EndKeeps, DoneType DEF RequestEnds
<1> QED
    BY <1>1, <1>2, <1>3, <1>4, <1>5, <1>6, <1>7, <1>8, <1>9, <1>10, <1>11 DEF Handler

\* Every type, and the fact that a call once shown stays in the list or the history,
\* is kept by every step.
LEMMA Induction == Spec => []IndInv
<1>1. IndInv /\ [Next]_vars => IndInv'
  <2> SUFFICES ASSUME RegistryInv, FlowInv, [Next]_vars
               PROVE  RegistryInv' /\ FlowInv'
    BY DEF IndInv, RegistryInv, FlowInv, TypeOK
  <2>1. CASE Next
    BY <2>1, ManagerKeeps, HandlerKeeps DEF Next
  <2>2. CASE UNCHANGED vars
    BY <2>2, RegistryUnchanged DEF vars, registry, FlowInv, HolderInv
  <2> QED
    BY <2>1, <2>2
<1> QED
    BY InitKeeps, <1>1, PTL DEF Spec

\* Type correctness: no interleaving leaves a record with a status or an owner that
\* does not exist, nor a claim on a record that is gone.
THEOREM RegistryTypeCorrect == Spec => []TypeOK
<1>1. IndInv => TypeOK
    BY DEF IndInv
<1> QED
    BY <1>1, Induction, PTL

\* A call that was shown in the list is in the list or in the history, for any number
\* of calls, operators and concurrent requests (UpsertCall, EndCall and the stale copies
\* that OnStateChange and SetCallPhoto write back).
THEOREM ShownIsKept == Spec => []NoneLost
<1>1. IndInv => NoneLost
    BY DEF IndInv
<1> QED
    BY <1>1, Induction, PTL

-----------------------------------------------------------------------------
(* A call that is going on is in the list.                                 *)

\* The call has come to its end.
Over(c) == state[c] \in {"ended", "gone"}

\* Those about to take a call out of the list do so for a call that is over.
EndersInv ==
    /\ \A c \in ended : Over(c)
    /\ \A r \in Requests : req[r].at = "end" => Over(req[r].call)

\* LiveIsListed, of one call.
Listed(c) ==
    Live(c) /\ state[c] # "initiating" /\ offer[c] # "incoming" /\ Free(c)
        => calls[c] # NoRecord

ListInv == LiveIsListed /\ EndersInv

\* What a step that is about call c leaves alone.
Others(c) ==
    \A d \in Calls \ {c} :
        /\ state'[d] = state[d] /\ offer'[d] = offer[d]
        /\ emit'[d] = emit[d] /\ calls'[d] = calls[d]

\* Nothing can be done with a call that is over.
LEMMA OverIsFinal ==
    ASSUME NEW c, Over(c)
    PROVE  /\ ~Live(c)
           /\ \A t \in {"offer_sent", "local_accepted", "local_rejected"} : ~Valid(Info(c), t)
BY DEF Over, Live, IsLive, Info, Valid, Source

\* A step about one call keeps the others in the list.
LEMMA ListKept ==
    ASSUME LiveIsListed, NEW c \in Calls, Others(c), Listed(c)'
    PROVE  LiveIsListed'
<1> SUFFICES ASSUME NEW d \in Calls PROVE Listed(d)'
  BY DEF LiveIsListed, Listed
<1>1. CASE d = c
  BY <1>1
<1>2. CASE d # c
  <2>1. Listed(d)
    BY DEF LiveIsListed, Listed
  <2>2. /\ state'[d] = state[d] /\ offer'[d] = offer[d]
        /\ emit'[d] = emit[d] /\ calls'[d] = calls[d]
    BY <1>2 DEF Others
  <2> QED
    BY <2>1, <2>2 DEF Listed, Live, Info, IsLive, Free
<1> QED
  BY <1>1, <1>2

\* A report of the state leads to a record, unless the call has ended.
LEMMA EmitListed ==
    ASSUME RegistryInv, FlowInv, NEW c \in Calls, NEW first \in BOOLEAN,
           EmitState(c, first),
           \A d \in Calls \ {c} : state'[d] = state[d] /\ offer'[d] = offer[d]
    PROVE  Others(c) /\ Listed(c)'
<1>1. CASE state'[c] = "ended"
  BY <1>1 DEF EmitState, EndCall, Others, Listed, Live, Info, IsLive, RegistryInv
<1>2. CASE state'[c] # "ended"
  <2>1. emit' = [emit EXCEPT ![c] = [Quiet EXCEPT !.at = "get", !.first = first]]
          /\ UNCHANGED calls
    BY <1>2 DEF EmitState, registry
  <2>2. emit'[c].at = "get"
    BY <2>1 DEF FlowInv, Quiet
  <2>3. Listed(c)'
    BY <2>2 DEF Listed, Free
  <2> QED
    BY <2>1, <2>3 DEF Others, FlowInv
<1> QED
  BY <1>1, <1>2

\* A record that is written is in the list.
LEMMA UpsertListed ==
    ASSUME RegistryInv, NEW c \in Calls, NEW rec \in CallRecord, UpsertCall(c, rec),
           \A d \in Calls \ {c} :
             state'[d] = state[d] /\ offer'[d] = offer[d] /\ emit'[d] = emit[d]
    PROVE  Others(c) /\ Listed(c)'
BY NoRecordAssumption DEF RegistryInv, UpsertCall, Others, Listed

\* The broker's EndCall, for a call that is over.
LEMMA EndListed ==
    ASSUME RegistryInv, NEW c \in Calls, EndCall(c), Over(c),
           UNCHANGED <<state, offer, emit>>
    PROVE  Others(c) /\ Listed(c)'
<1>1. ~Live(c)
  BY OverIsFinal
<1>2. ~Live(c)'
  BY <1>1 DEF Live, Info, IsLive
<1> QED
  BY <1>2 DEF RegistryInv, EndCall, Others, Listed

\* The steps of a manager.
LEMMA ManagerLists ==
    ASSUME RegistryInv, FlowInv, ListInv, NEW c \in Calls, Manager(c)
    PROVE  ListInv'
<1> USE DEF ListInv
<1>0. ASSUME UNCHANGED <<ended, req>>, \A d \in Calls : Over(d) => Over(d)'
      PROVE  EndersInv'
  BY <1>0 DEF EndersInv, FlowInv, HolderInv, Over
<1>00. ASSUME UNCHANGED state PROVE \A d \in Calls : Over(d) => Over(d)'
  BY <1>00 DEF Over
<1>1. CASE EmitGet(c)
  <2>1. Listed(c)' /\ Others(c)
    BY <1>1 DEF EmitGet, Listed, Others, Free, FlowInv, Emission, registry
  <2> QED
    BY <1>0, <1>00, <1>1, <2>1, ListKept DEF EmitGet
<1>2. CASE EmitPut(c)
  <2> DEFINE seen == emit[c].seen
             rec == [owner  |-> IF seen = NoRecord THEN NoOwner ELSE seen.owner,
                     status |-> MapStatus(state[c]),
                     photo  |-> seen # NoRecord /\ seen.photo]
  <2>1. seen \in CallRecord \cup {NoRecord}
    BY DEF FlowInv, Emission
  <2>2. (IF seen = NoRecord THEN NoOwner ELSE seen.owner) \in Owners
    BY <2>1 DEF CallRecord, Owners
  <2>3. MapStatus(state[c]) \in Statuses
    BY DEF MapStatus, Statuses
  <2>4. rec \in CallRecord
    BY <2>2, <2>3 DEF CallRecord
  <2>5. Others(c) /\ Listed(c)'
    <3>1. \A d \in Calls \ {c} :
            state'[d] = state[d] /\ offer'[d] = offer[d] /\ emit'[d] = emit[d]
      BY <1>2 DEF EmitPut, FlowInv
    <3>2. UpsertCall(c, rec)
      BY <1>2 DEF EmitPut
    <3> HIDE DEF rec
    <3> QED
      BY <2>4, <3>1, <3>2, UpsertListed
  <2> QED
    BY <1>0, <1>00, <1>2, <2>5, ListKept DEF EmitPut
<1>3. CASE Progress(c)
  <2>1. PICK s : state' = [state EXCEPT ![c] = s]
    BY <1>3 DEF Progress
  <2>2. \A d \in Calls \ {c} : state'[d] = state[d] /\ offer'[d] = offer[d]
    BY <1>3, <2>1 DEF Progress, FlowInv
  <2>3. Others(c) /\ Listed(c)'
    BY <1>3, <2>2, EmitListed DEF Progress
  <2>4. \A d \in Calls : Over(d) => Over(d)'
    <3>1. ~Over(c)
      BY <1>3, OverIsFinal DEF Progress
    <3> QED
      BY <2>2, <3>1 DEF Over
  <2> QED
    BY <1>0, <1>3, <2>3, <2>4, ListKept DEF Progress
<1>4. CASE Terminate(c)
  <2>1. state' = [state EXCEPT ![c] = "ended"]
    BY <1>4 DEF Terminate, Terminated
  <2>2. \A d \in Calls \ {c} : state'[d] = state[d] /\ offer'[d] = offer[d]
    BY <1>4, <2>1 DEF Terminate, FlowInv
  <2>3. Others(c) /\ Listed(c)'
    BY <1>4, <2>2, EmitListed DEF Terminate, Terminated
  <2>4. (\A d \in Calls : Over(d) => Over(d)') /\ Over(c)'
    BY <2>1 DEF Over, FlowInv
  <2>5. EndersInv'
    BY <1>4, <2>4 DEF Terminate, Terminated, EndersInv, FlowInv, HolderInv, Over
  <2> QED
    BY <2>3, <2>5, ListKept
<1>5. CASE OnEnded(c)
  <2>1. Over(c)
    BY <1>5 DEF OnEnded, EndersInv
  <2>2. Others(c) /\ Listed(c)'
    BY <1>5, <2>1, EndListed DEF OnEnded
  <2>3. EndersInv'
    BY <1>5 DEF OnEnded, EndersInv, Over
  <2> QED
    BY <2>2, <2>3, ListKept
<1>6. CASE Offer(c)
  <2>1. Others(c) /\ Listed(c)'
    BY <1>6 DEF Offer, Others, Listed, FlowInv, registry
  <2>2. \A d \in Calls : Over(d) => Over(d)'
    BY <1>6 DEF Offer, Over, FlowInv
  <2> QED
    BY <1>0, <1>6, <2>1, <2>2, ListKept DEF Offer
<1>7. CASE OnIncoming(c)
  <2>1. [owner |-> NoOwner, status |-> "ringing", photo |-> FALSE] \in CallRecord
    BY DEF CallRecord, Owners, Statuses
  <2>2. \A d \in Calls \ {c} :
            state'[d] = state[d] /\ offer'[d] = offer[d] /\ emit'[d] = emit[d]
    BY <1>7 DEF OnIncoming, FlowInv
  <2>3. Others(c) /\ Listed(c)'
    BY <1>7, <2>1, <2>2, UpsertListed DEF OnIncoming
  <2> QED
    BY <1>0, <1>00, <1>7, <2>3, ListKept DEF OnIncoming
<1>8. CASE OfferEmit(c)
  <2>1. \A d \in Calls \ {c} : state'[d] = state[d] /\ offer'[d] = offer[d]
    BY <1>8 DEF OfferEmit, FlowInv
  <2>2. Others(c) /\ Listed(c)'
    BY <1>8, <2>1, EmitListed DEF OfferEmit
  <2> QED
    BY <1>0, <1>00, <1>8, <2>2, ListKept DEF OfferEmit
<1>9. CASE PhotoGet(c)
  <2>1. LiveIsListed'
    BY <1>9 DEF PhotoGet, LiveIsListed, Live, Info, IsLive, Free, registry
  <2> QED
    BY <1>0, <1>00, <1>9, <2>1 DEF PhotoGet
<1>10. CASE PhotoPut(c)
  <2>1. [photo[c].seen EXCEPT !.photo = TRUE] \in CallRecord
    BY <1>10 DEF PhotoPut, FlowInv, HolderInv, CallRecord
  <2>2. Others(c) /\ Listed(c)'
    BY <1>10, <2>1, UpsertListed DEF PhotoPut
  <2> QED
    BY <1>0, <1>00, <1>10, <2>2, ListKept DEF PhotoPut
<1> QED
  BY <1>1, <1>2, <1>3, <1>4, <1>5, <1>6, <1>7, <1>8, <1>9, <1>10 DEF Manager

\* The steps of the HTTP requests.
LEMMA HandlerLists ==
    ASSUME RegistryInv, FlowInv, ListInv, NEW r \in Requests, Handler(r)
    PROVE  ListInv'
<1> USE DEF ListInv
<1>0. ASSUME NEW new, req' = [req EXCEPT ![r] = new], ended' = ended,
             new.at = "end" => Over(new.call)',
             \A d \in Calls : Over(d) => Over(d)'
      PROVE  EndersInv'
  <2>1. \A q \in Requests : req'[q] = IF q = r THEN new ELSE req[q]
    BY <1>0 DEF FlowInv
  <2>2. \A q \in Requests : req[q].at = "end" => req[q].call \in Calls /\ Over(req[q].call)
    BY DEF FlowInv, HolderInv, EndersInv
  <2>3. \A q \in Requests : req'[q].at = "end" => state'[req'[q].call] \in {"ended", "gone"}
    BY <1>0, <2>1, <2>2 DEF Over
  <2>4. \A c \in ended' : Over(c)'
    BY <1>0 DEF EndersInv, FlowInv
  <2> QED
    BY <2>3, <2>4 DEF EndersInv, Over
<1>00. ASSUME UNCHANGED <<state, calls, emit, offer>>
       PROVE  LiveIsListed' /\ \A d \in Calls : Over(d) => Over(d)'
  BY <1>00 DEF LiveIsListed, Live, Info, IsLive, Free, Over
<1>01. ASSUME NEW c \in Calls, NEW s, state' = [state EXCEPT ![c] = s], offer' = offer
       PROVE  \A d \in Calls \ {c} : state'[d] = state[d] /\ offer'[d] = offer[d]
  BY <1>01 DEF FlowInv
<1>02. Idle.at = "idle"
  BY DEF Idle
<1>1. ASSUME NEW o \in Owners, NEW group \in BOOLEAN, StartCheck(r, o, group)
      PROVE  ListInv'
  <2>1. [Idle EXCEPT !.at = "create", !.by = o, !.group = group].at # "end"
    BY DEF Idle
  <2> QED
    BY <1>0, <1>00, <1>1, <2>1 DEF StartCheck, registry
<1>2. ASSUME NEW c \in Calls, StartCreate(r, c)
      PROVE  ListInv'
  <2>1. Others(c) /\ Listed(c)'
    BY <1>2 DEF StartCreate, Others, Listed, FlowInv, registry
  <2>2. \A d \in Calls : Over(d) => Over(d)'
    BY <1>2 DEF StartCreate, Over, FlowInv
  <2>3. /\ req' = [req EXCEPT ![r] = [req[r] EXCEPT !.at = "query", !.call = c]]
        /\ [req[r] EXCEPT !.at = "query", !.call = c].at # "end"
    BY <1>2 DEF StartCreate, FlowInv, Request
  <2> QED
    BY <1>0, <1>2, <2>1, <2>2, <2>3, ListKept DEF StartCreate
<1>3. ASSUME NEW c \in Calls, RejectCall(r, c)
      PROVE  ListInv'
  <2>1. [Idle EXCEPT !.at = "end", !.call = c].call = c
    BY DEF Idle
  <2>2. CASE Valid(Info(c), "local_rejected")
    <3>1. state' = [state EXCEPT ![c] = "ended"] /\ EmitState(c, FALSE)
      BY <1>3, <2>2 DEF RejectCall
    <3>2. Others(c) /\ Listed(c)'
      BY <1>01, <1>3, <3>1, EmitListed DEF RejectCall
    <3>3. (\A d \in Calls : Over(d) => Over(d)') /\ Over(c)'
      BY <3>1 DEF Over, FlowInv
    <3> QED
      BY <1>0, <1>3, <2>1, <3>2, <3>3, ListKept DEF RejectCall
  <2>3. CASE ~Valid(Info(c), "local_rejected")
    <3>1. UNCHANGED <<state, calls, emit, offer>> /\ Over(c)
      BY <1>3, <2>3 DEF RejectCall, MayReject, registry, Over
    <3>2. Over(c)'
      BY <3>1 DEF Over
    <3> QED
      BY <1>0, <1>00, <1>3, <2>1, <3>1, <3>2 DEF RejectCall
  <2> QED
    BY <2>2, <2>3
<1>4. ASSUME NEW c \in Calls, EndCallRequest(r, c)
      PROVE  ListInv'
  <2>1. [Idle EXCEPT !.at = "end", !.call = c].call = c
    BY DEF Idle
  <2>2. CASE Terminated(c)
    <3>1. state' = [state EXCEPT ![c] = "ended"] /\ EmitState(c, FALSE) /\ ended' = ended \cup {c}
      BY <2>2 DEF Terminated
    <3>2. Others(c) /\ Listed(c)'
      BY <1>01, <1>4, <3>1, EmitListed DEF EndCallRequest
    <3>3. (\A d \in Calls : Over(d) => Over(d)') /\ Over(c)'
      BY <3>1 DEF Over, FlowInv
    <3>4. req' = [req EXCEPT ![r] = [Idle EXCEPT !.at = "end", !.call = c]]
      BY <1>4 DEF EndCallRequest
    <3>5. \A q \in Requests : req'[q].at = "end" => state'[req'[q].call] \in {"ended", "gone"}
      <4>1. \A q \in Requests : req[q].at = "end" => req[q].call \in Calls /\ Over(req[q].call)
        BY DEF FlowInv, HolderInv, EndersInv
      <4>2. \A q \in Requests : q # r => req'[q] = req[q]
        BY <3>4 DEF FlowInv
      <4>3. req'[r].call = c
        BY <2>1, <3>4 DEF FlowInv
      <4> QED
        BY <3>3, <4>1, <4>2, <4>3 DEF Over
    <3>6. \A d \in ended' : Over(d)'
      BY <3>1, <3>3 DEF EndersInv, FlowInv
    <3>7. EndersInv'
      BY <3>5, <3>6 DEF EndersInv, Over
    <3> QED
      BY <3>2, <3>7, ListKept
  <2>3. CASE state[c] \in {"ended", "gone"} /\ UNCHANGED <<state, registry, emit, ended>>
    <3>1. UNCHANGED <<state, calls, emit, offer>> /\ Over(c)'
      BY <1>4, <2>3 DEF EndCallRequest, registry, Over
    <3> QED
      BY <1>0, <1>00, <1>4, <2>1, <2>3, <3>1 DEF EndCallRequest
  <2> QED
    BY <1>4, <2>2, <2>3 DEF EndCallRequest
<1>5. ASSUME NEW c \in Calls, NEW o \in Owners, AcceptCheck(r, o, c)
      PROVE  ListInv'
  <2>1. [Idle EXCEPT !.at = "claim", !.by = o, !.call = c].at # "end"
    BY DEF Idle
  <2> QED
    BY <1>0, <1>00, <1>5, <2>1 DEF AcceptCheck, registry
<1>6. CASE StartFails(r)
  <2>1. PICK new : req' = [req EXCEPT ![r] = new] /\ new.at # "end"
    <3>1. [req[r] EXCEPT !.at = "create", !.call = NoCall].at # "end"
      BY DEF FlowInv, Request
    <3> QED
      BY <1>02, <1>6, <3>1 DEF StartFails, Done
  <2>2. CASE req[r].at = "query"
    <3>1. PICK c \in Calls : c = req[r].call
      BY <2>2 DEF FlowInv, HolderInv
    <3>2. state' = [state EXCEPT ![c] = IF state[c] = "ended" THEN state[c] ELSE "gone"]
      BY <1>6, <2>2, <3>1 DEF StartFails
    <3>3. UNCHANGED <<calls, emit, offer, ended>>
      BY <1>6 DEF StartFails, registry
    <3>4. Over(c)' /\ (\A d \in Calls : Over(d) => Over(d)') /\ Others(c)
      BY <3>1, <3>2, <3>3 DEF Over, FlowInv, Others
    <3>5. Listed(c)'
      BY <3>4 DEF Over, Listed, Live, Info, IsLive
    <3> QED
      BY <1>0, <2>1, <3>1, <3>3, <3>4, <3>5, ListKept
  <2>3. CASE req[r].at # "query"
    BY <1>0, <1>00, <1>6, <2>1, <2>3 DEF StartFails, registry
  <2> QED
    BY <2>2, <2>3
<1>7. CASE OfferSent(r)
  <2>1. PICK c \in Calls : c = req[r].call
    BY <1>7 DEF OfferSent, FlowInv, HolderInv
  <2> DEFINE s == IF Valid(Info(c), "offer_sent") THEN "ringing" ELSE state[c]
  <2>2. /\ state' = [state EXCEPT ![c] = s] /\ offer' = offer /\ ended' = ended
        /\ EmitState(c, TRUE)
    BY <1>7, <2>1 DEF OfferSent
  <2>3. /\ req' = [req EXCEPT ![r] = [req[r] EXCEPT !.at = "upsert"]]
        /\ [req[r] EXCEPT !.at = "upsert"].at # "end"
    BY <1>7 DEF OfferSent, Goto, FlowInv, Request
  <2>4. Over(c) => s = state[c]
    BY OverIsFinal
  <2> HIDE DEF s
  <2>5. Others(c) /\ Listed(c)'
    BY <1>01, <2>1, <2>2, EmitListed
  <2>6. \A d \in Calls : Over(d) => Over(d)'
    BY <2>2, <2>4 DEF Over, FlowInv
  <2> QED
    BY <1>0, <2>1, <2>2, <2>3, <2>5, <2>6, ListKept
<1>8. CASE StartUpsert(r)
  <2>1. PICK c \in Calls : c = req[r].call
    BY <1>8 DEF StartUpsert, FlowInv, HolderInv
  <2> DEFINE rec == [owner |-> req[r].by, status |-> "ringing", photo |-> FALSE]
  <2>2. rec \in CallRecord
    BY DEF CallRecord, Statuses, Request, FlowInv
  <2>3. /\ UpsertCall(c, rec) /\ UNCHANGED <<state, emit, offer, ended>>
        /\ req' = [req EXCEPT ![r] = Idle]
    BY <1>8, <2>1 DEF StartUpsert, Done
  <2> HIDE DEF rec
  <2>4. Others(c) /\ Listed(c)'
    BY <2>1, <2>2, <2>3, UpsertListed
  <2>5. \A d \in Calls : Over(d) => Over(d)'
    BY <2>3 DEF Over
  <2> QED
    BY <1>0, <1>02, <2>1, <2>3, <2>4, <2>5, ListKept
<1>9. CASE AcceptClaim(r)
  <2>1. PICK c \in Calls : c = req[r].call /\ UNCHANGED <<state, emit, offer, ended>>
    BY <1>9 DEF AcceptClaim, FlowInv, HolderInv
  <2> DEFINE o == req[r].by
  <2>2. PICK new : req' = [req EXCEPT ![r] = new] /\ new.at # "end"
    <3>1. [req[r] EXCEPT !.at = "accept"].at # "end"
      BY DEF FlowInv, Request
    <3> QED
      BY <1>02, <1>9, <3>1 DEF AcceptClaim, Done, Goto
  <2>3. Others(c) /\ (calls[c] # NoRecord => calls'[c] # NoRecord)
    <3>1. CASE calls' = calls
      BY <2>1, <3>1 DEF Others
    <3>2. CASE calls' # calls
      <4>1. /\ o # NoOwner /\ MayClaim(c, o)
            /\ calls' = [calls EXCEPT ![c] = [calls[c] EXCEPT !.owner = o]]
        BY <1>9, <2>1, <3>2 DEF AcceptClaim, SetOwner
      <4>2. calls[c] \in CallRecord /\ o \in Owners
        BY <2>1, <4>1 DEF MayClaim, RegistryInv, FlowInv, Request
      <4>3. [calls[c] EXCEPT !.owner = o] \in CallRecord
        BY <4>2 DEF CallRecord
      <4> HIDE DEF o
      <4> QED
        BY <2>1, <4>1, <4>3, NoRecordAssumption DEF Others, RegistryInv
    <3> QED
      BY <3>1, <3>2
  <2>4. Listed(c)'
    <3>1. Listed(c)
      BY <2>1 DEF LiveIsListed, Listed
    <3> QED
      BY <2>1, <2>3, <3>1 DEF Listed, Live, Info, IsLive, Free
  <2>5. \A d \in Calls : Over(d) => Over(d)'
    BY <2>1 DEF Over
  <2> QED
    BY <1>0, <2>1, <2>2, <2>3, <2>4, <2>5, ListKept
<1>10. CASE AcceptCall(r)
  <2>1. PICK c \in Calls : /\ c = req[r].call /\ UNCHANGED <<offer, ended>>
                          /\ req' = [req EXCEPT ![r] = Idle]
    BY <1>10 DEF AcceptCall, FlowInv, HolderInv, Done
  <2>2. CASE Valid(Info(c), "local_accepted")
    <3>1. state' = [state EXCEPT ![c] = "connecting"] /\ EmitState(c, FALSE) /\ ~Over(c)
      BY <1>10, <2>1, <2>2, OverIsFinal DEF AcceptCall
    <3>2. Others(c) /\ Listed(c)'
      BY <1>01, <2>1, <3>1, EmitListed
    <3>3. \A d \in Calls : Over(d) => Over(d)'
      BY <3>1 DEF Over, FlowInv
    <3> QED
      BY <1>0, <1>02, <2>1, <3>2, <3>3, ListKept
  <2>3. CASE ~Valid(Info(c), "local_accepted")
    BY <1>0, <1>00, <1>02, <1>10, <2>1, <2>3 DEF AcceptCall, registry
  <2> QED
    BY <2>2, <2>3
<1>11. CASE RequestEnds(r)
  <2>1. PICK c \in Calls : /\ c = req[r].call /\ Over(c) /\ EndCall(c)
                          /\ UNCHANGED <<state, offer, emit, ended>>
                          /\ req' = [req EXCEPT ![r] = Idle]
    BY <1>11 DEF RequestEnds, FlowInv, HolderInv, EndersInv, Done
  <2>2. Others(c) /\ Listed(c)'
    BY <2>1, EndListed
  <2>3. \A d \in Calls : Over(d) => Over(d)'
    BY <2>1 DEF Over
  <2> QED
    BY <1>0, <1>02, <2>1, <2>2, <2>3, ListKept
<1> QED
  BY <1>1, <1>2, <1>3, <1>4, <1>5, <1>6, <1>7, <1>8, <1>9, <1>10, <1>11 DEF Handler

\* A call that is going on and has been announced is in the broker's list: no handler, no
\* late OnEnded and no stale copy takes it out, for any number of calls, operators and
\* concurrent requests.
THEOREM LiveIsKept == Spec => []LiveIsListed
<1>1. Init => ListInv
  BY DEF Init, ListInv, LiveIsListed, EndersInv, Live, Info, IsLive, Idle
<1>2. IndInv /\ ListInv /\ [Next]_vars => ListInv'
  <2> SUFFICES ASSUME RegistryInv, FlowInv, ListInv, [Next]_vars
               PROVE  ListInv'
    BY DEF IndInv, RegistryInv, FlowInv, TypeOK
  <2>1. CASE Next
    BY <2>1, ManagerLists, HandlerLists DEF Next
  <2>2. CASE UNCHANGED vars
    BY <2>2 DEF vars, ListInv, LiveIsListed, EndersInv, Over, Live, Info, IsLive, Free
  <2> QED
    BY <2>1, <2>2
<1>3. ListInv => LiveIsListed
  BY DEF ListInv
<1> QED
  BY <1>1, <1>2, <1>3, Induction, PTL DEF Spec

===============================================================================
