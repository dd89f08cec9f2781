------------------------ MODULE SessionManagerProofs ------------------------
(***************************************************************************)
(* The accounts of a server, for any number of accounts, requests, devices *)
(* and restarts.                                                           *)
(***************************************************************************)
EXTENDS SessionManager, FiniteSetTheorems, TLAPS

-----------------------------------------------------------------------------
(* One call, one holder.                                                   *)

\* At most one session has the call, and none before it was placed.
HolderInv ==
    /\ \A s, t \in holders : s = t
    /\ placed = NoSession => holders = {}

LEMMA HolderNext == HolderInv /\ [Next]_vars => HolderInv'
<1> SUFFICES ASSUME HolderInv, [Next]_vars PROVE HolderInv'
  OBVIOUS
<1> USE DEF HolderInv, call
<1>1. ASSUME holders' \subseteq holders, UNCHANGED placed PROVE HolderInv'
  BY <1>1
<1>2. ASSUME NEW r \in Requests, Request(r) PROVE HolderInv'
  <2>1. UNCHANGED placed
    BY <1>2 DEF Request, Begin, Insert, Register, StartPairing, LogoutClient, Unregister,
       DeleteRow, replaceClient, ClearJID, ShowLoggedOut, PhoneCode
  <2>2. holders' \subseteq holders
    BY <1>2 DEF Request, Begin, Insert, Register, StartPairing, LogoutClient, Unregister,
       DeleteRow, replaceClient, ClearJID, ShowLoggedOut, PhoneCode, teardownAllCalls
  <2> QED
    BY <1>1, <2>1, <2>2
<1>3. ASSUME NEW d \in Devices, Client(d) PROVE HolderInv'
  BY <1>1, <1>3 DEF Client, QrCode, QrShow, QrTimeout, QrSuccess, PairSuccess, Connected,
     ClientLost, AutoReconnect
<1>4. ASSUME NEW s \in Sessions, StartCall(s) PROVE HolderInv'
  BY <1>4, NoSessionAssumption DEF StartCall
<1>5. ASSUME NEW s \in Sessions, onIncomingOffer(s) PROVE HolderInv'
  BY <1>5 DEF onIncomingOffer, TakesOffer
<1>6. ASSUME NEW s \in Sessions, Session(s), ~StartCall(s), ~onIncomingOffer(s)
      PROVE  HolderInv'
  BY <1>1, <1>6 DEF Session, TakeSlot, CallEnds, RestoreUnpaired, RestorePaired,
     RestoreDropped
<1>7. CASE DropForVersion \/ ConnectForVersion \/ Stop \/ UNCHANGED vars
  BY <1>1, <1>7 DEF DropForVersion, ConnectForVersion, Stop, vars
<1> QED
  BY <1>2, <1>3, <1>4, <1>5, <1>6, <1>7 DEF Next

\* A call between two accounts of this server is in the call table of one of them at most,
\* for any number of accounts and whatever is torn down, deleted or restarted meanwhile
\* (Session.onIncomingOffer, Manager.FindSessionByCall).
THEOREM OneSessionHasTheCall == Spec => []OneHolder
<1>1. Init => HolderInv
  BY DEF Init, HolderInv
<1>2. HolderInv => OneHolder
  <2> SUFFICES ASSUME HolderInv PROVE Cardinality(holders) <= 1
    BY DEF OneHolder
  <2>1. CASE holders = {}
    BY <2>1, FS_EmptySet
  <2>2. CASE holders # {}
    <3>1. PICK s : s \in holders
      BY <2>2
    <3>2. holders = {s}
      BY <3>1 DEF HolderInv
    <3> QED
      BY <3>2, FS_Singleton
  <2> QED
    BY <2>1, <2>2
<1> QED
  BY <1>1, <1>2, HolderNext, PTL DEF Spec

-----------------------------------------------------------------------------
(* The requests' plans.                                                    *)

Plans ==
    {Create, Delete, Logout, Pair, PairPhone,
     <<"register", "pairing">>, <<"pairing">>, <<"unregister", "delete">>,
     <<"delete">>, <<"replace", "clearJID", "loggedOut">>,
     <<"clearJID", "loggedOut">>, <<"loggedOut">>, <<"replace", "pairing">>,
     <<"replace", "pairing", "code">>, <<"pairing", "code">>, <<"code">>}

\* What is left of a plan after its first step is a plan, and which steps follow each other.
PlanStep(plan) ==
    /\ plan # <<>>
    /\ Len(plan) # 1 => Tail(plan) \in Plans
    /\ Head(plan) = "insert" => Len(plan) # 1 /\ Head(Tail(plan)) = "register"
    /\ Head(plan) = "register" => Len(plan) # 1 /\ Head(Tail(plan)) = "pairing"
    /\ Head(plan) = "unregister" => Len(plan) # 1 /\ Head(Tail(plan)) = "delete"
    /\ Head(plan) = "delete" => Len(plan) = 1
    /\ Head(plan) \notin {"insert", "unregister"} /\ Len(plan) # 1
         => Head(Tail(plan)) \notin {"insert", "register", "delete"}

LEMMA PlanSteps == \A plan \in Plans : PlanStep(plan)
<1>1. PlanStep(Create)
  <2>1. Tail(Create) = <<"register", "pairing">>
    BY DEF Create
  <2>2. <<"register", "pairing">> \in Plans
    BY DEF Plans
  <2>3. Head(Create) = "insert" /\ Len(Create) = 3 /\ Create # <<>>
    BY DEF Create
  <2>4. Tail(Create) \in Plans
    BY <2>1, <2>2, Zenon
  <2>5. Head(<<"register", "pairing">>) = "register"
    OBVIOUS
  <2>6. Head(Tail(Create)) = "register"
    BY <2>1, <2>5, Zenon
  <2>7. 3 # 1
    OBVIOUS
  <2> QED
    BY <2>3, <2>4, <2>6, <2>7, Zenon DEF PlanStep
<1>2. PlanStep(Delete)
  <2>1. Tail(Delete) = <<"unregister", "delete">>
    BY DEF Delete
  <2>2. <<"unregister", "delete">> \in Plans
    BY DEF Plans
  <2>3. Head(Delete) = "logoutOrDrop" /\ Len(Delete) = 3 /\ Delete # <<>>
    BY DEF Delete
  <2>4. Head(<<"unregister", "delete">>) = "unregister"
    OBVIOUS
  <2> QED
    BY <2>1, <2>2, <2>3, <2>4 DEF PlanStep
<1>3. PlanStep(Logout)
  <2>1. Tail(Logout) = <<"replace", "clearJID", "loggedOut">>
    BY DEF Logout
  <2>2. <<"replace", "clearJID", "loggedOut">> \in Plans
    BY DEF Plans
  <2>3. Head(Logout) = "logout" /\ Len(Logout) = 4 /\ Logout # <<>>
    BY DEF Logout
  <2>4. Head(<<"replace", "clearJID", "loggedOut">>) = "replace"
    OBVIOUS
  <2> QED
    BY <2>1, <2>2, <2>3, <2>4 DEF PlanStep
<1>4. PlanStep(Pair)
  <2>1. Tail(Pair) = <<"replace", "pairing">>
    BY DEF Pair
  <2>2. <<"replace", "pairing">> \in Plans
    BY DEF Plans
  <2>3. Head(Pair) = "logoutAndDrop" /\ Len(Pair) = 3 /\ Pair # <<>>
    BY DEF Pair
  <2>4. Head(<<"replace", "pairing">>) = "replace"
    OBVIOUS
  <2> QED
    BY <2>1, <2>2, <2>3, <2>4 DEF PlanStep
<1>5. PlanStep(PairPhone)
  <2>1. Tail(PairPhone) = <<"replace", "pairing", "code">>
    BY DEF PairPhone
  <2>2. <<"replace", "pairing", "code">> \in Plans
    BY DEF Plans
  <2>3. Head(PairPhone) = "logoutAndDrop" /\ Len(PairPhone) = 4 /\ PairPhone # <<>>
    BY DEF PairPhone
  <2>4. Head(<<"replace", "pairing", "code">>) = "replace"
    OBVIOUS
  <2> QED
    BY <2>1, <2>2, <2>3, <2>4 DEF PlanStep
<1>6. PlanStep(<<"register", "pairing">>)
  <2>1. Tail(<<"register", "pairing">>) = <<"pairing">>
    OBVIOUS
  <2>2. <<"pairing">> \in Plans
    BY DEF Plans
  <2>3. Head(<<"register", "pairing">>) = "register" /\ Len(<<"register", "pairing">>) = 2 /\ <<"register", "pairing">> # <<>>
    OBVIOUS
  <2>4. Head(<<"pairing">>) = "pairing"
    OBVIOUS
  <2> QED
    BY <2>1, <2>2, <2>3, <2>4 DEF PlanStep
<1>7. PlanStep(<<"pairing">>)
  BY DEF PlanStep
<1>8. PlanStep(<<"unregister", "delete">>)
  <2>1. Tail(<<"unregister", "delete">>) = <<"delete">>
    OBVIOUS
  <2>2. <<"delete">> \in Plans
    BY DEF Plans
  <2>3. Head(<<"unregister", "delete">>) = "unregister" /\ Len(<<"unregister", "delete">>) = 2 /\ <<"unregister", "delete">> # <<>>
    OBVIOUS
  <2>4. Head(<<"delete">>) = "delete"
    OBVIOUS
  <2> QED
    BY <2>1, <2>2, <2>3, <2>4 DEF PlanStep
<1>9. PlanStep(<<"delete">>)
  BY DEF PlanStep
<1>10. PlanStep(<<"replace", "clearJID", "loggedOut">>)
  <2>1. Tail(<<"replace", "clearJID", "loggedOut">>) = <<"clearJID", "loggedOut">>
    OBVIOUS
  <2>2. <<"clearJID", "loggedOut">> \in Plans
    BY DEF Plans
  <2>3. Head(<<"replace", "clearJID", "loggedOut">>) = "replace" /\ Len(<<"replace", "clearJID", "loggedOut">>) = 3 /\ <<"replace", "clearJID", "loggedOut">> # <<>>
    OBVIOUS
  <2>4. Head(<<"clearJID", "loggedOut">>) = "clearJID"
    OBVIOUS
  <2> QED
    BY <2>1, <2>2, <2>3, <2>4 DEF PlanStep
<1>11. PlanStep(<<"clearJID", "loggedOut">>)
  <2>1. Tail(<<"clearJID", "loggedOut">>) = <<"loggedOut">>
    OBVIOUS
  <2>2. <<"loggedOut">> \in Plans
    BY DEF Plans
  <2>3. Head(<<"clearJID", "loggedOut">>) = "clearJID" /\ Len(<<"clearJID", "loggedOut">>) = 2 /\ <<"clearJID", "loggedOut">> # <<>>
    OBVIOUS
  <2>4. Head(<<"loggedOut">>) = "loggedOut"
    OBVIOUS
  <2> QED
    BY <2>1, <2>2, <2>3, <2>4 DEF PlanStep
<1>12. PlanStep(<<"loggedOut">>)
  BY DEF PlanStep
<1>13. PlanStep(<<"replace", "pairing">>)
  <2>1. Tail(<<"replace", "pairing">>) = <<"pairing">>
    OBVIOUS
  <2>2. <<"pairing">> \in Plans
    BY DEF Plans
  <2>3. Head(<<"replace", "pairing">>) = "replace" /\ Len(<<"replace", "pairing">>) = 2 /\ <<"replace", "pairing">> # <<>>
    OBVIOUS
  <2>4. Head(<<"pairing">>) = "pairing"
    OBVIOUS
  <2> QED
    BY <2>1, <2>2, <2>3, <2>4 DEF PlanStep
<1>14. PlanStep(<<"replace", "pairing", "code">>)
  <2>1. Tail(<<"replace", "pairing", "code">>) = <<"pairing", "code">>
    OBVIOUS
  <2>2. <<"pairing", "code">> \in Plans
    BY DEF Plans
  <2>3. Head(<<"replace", "pairing", "code">>) = "replace" /\ Len(<<"replace", "pairing", "code">>) = 3 /\ <<"replace", "pairing", "code">> # <<>>
    OBVIOUS
  <2>4. Head(<<"pairing", "code">>) = "pairing"
    OBVIOUS
  <2> QED
    BY <2>1, <2>2, <2>3, <2>4 DEF PlanStep
<1>15. PlanStep(<<"pairing", "code">>)
  <2>1. Tail(<<"pairing", "code">>) = <<"code">>
    OBVIOUS
  <2>2. <<"code">> \in Plans
    BY DEF Plans
  <2>3. Head(<<"pairing", "code">>) = "pairing" /\ Len(<<"pairing", "code">>) = 2 /\ <<"pairing", "code">> # <<>>
    OBVIOUS
  <2>4. Head(<<"code">>) = "code"
    OBVIOUS
  <2> QED
    BY <2>1, <2>2, <2>3, <2>4 DEF PlanStep
<1>16. PlanStep(<<"code">>)
  BY DEF PlanStep
<1> QED
  BY <1>1, <1>2, <1>3, <1>4, <1>5, <1>6, <1>7, <1>8, <1>9, <1>10, <1>11, <1>12, <1>13, <1>14, <1>15, <1>16 DEF Plans

-----------------------------------------------------------------------------
(* Rows and sessions.                                                      *)

Matches(s) == s \in live <=> rows[s] # -1

\* Where a request stands, and what of its account is there.
StandsAt(step, s) ==
    /\ step = "insert" => Matches(s)
    /\ step \in {"register", "delete"} => s \notin live /\ rows[s] # -1
    /\ step \notin {"insert", "register", "delete"} => s \in live /\ rows[s] # -1

BaseInv ==
    /\ devices \subseteq Devices
    /\ rows \in [Sessions -> Int]
    /\ todo \subseteq Sessions
    /\ req \in [Requests -> [s : Sessions, plan : Plans] \cup {NoRequest}]

\* One request per account, none during Restore; a request has left its account where its
\* next step needs it; an account that waits to be restored is not served; and of the
\* others, row and session go together.
TableInv ==
    /\ todo # {} => \A r \in Requests : req[r] = NoRequest
    /\ \A r, q \in Requests : req[r].s = req[q].s /\ req[r].s \in Sessions => r = q
    /\ \A r \in Requests : req[r].s \in Sessions => StandsAt(Head(req[r].plan), req[r].s)
    /\ \A s \in todo : s \notin live /\ rows[s] # -1
    /\ \A s \in Sessions \ todo : (\A r \in Requests : req[r].s # s) => Matches(s)

RowsInv == BaseInv /\ TableInv

\* Rows appear and disappear only with the requests and with Restore.
SameRows == \A s \in Sessions : rows'[s] = -1 <=> rows[s] = -1

\* Steps of clients, calls and reconnections.
LEMMA QuietStep ==
    ASSUME RowsInv, UNCHANGED <<todo, live, req>>, SameRows, BaseInv'
    PROVE  RowsInv'
<1>1. \A s \in Sessions : Matches(s)' <=> Matches(s)
  BY DEF Matches, SameRows
<1>2. \A step, s : s \in Sessions => (StandsAt(step, s)' <=> StandsAt(step, s))
  BY <1>1 DEF StandsAt, SameRows
<1>3. TableInv'
  BY <1>1, <1>2 DEF RowsInv, TableInv, SameRows, BaseInv
<1> QED
  BY <1>3 DEF RowsInv

\* SetJID neither makes nor removes a row.
LEMMA SetJIDKeeps ==
    ASSUME BaseInv, NEW s, NEW d \in Nat, SetJID(s, d)
    PROVE  SameRows /\ rows' \in [Sessions -> Int]
<1>1. CASE rows[s] = -1
  BY <1>1 DEF BaseInv, SetJID, SameRows
<1>2. CASE rows[s] # -1
  <2>1. rows' = [rows EXCEPT ![s] = d]
    BY <1>2 DEF SetJID
  <2>2. d \in Int /\ d # -1
    OBVIOUS
  <2>3. rows' \in [Sessions -> Int]
    BY <2>1, <2>2 DEF BaseInv
  <2>4. \A t \in Sessions : rows'[t] = IF t = s THEN d ELSE rows[t]
    BY <2>1 DEF BaseInv
  <2> QED
    BY <1>2, <2>2, <2>3, <2>4 DEF SameRows
<1> QED
  BY <1>1, <1>2

LEMMA SetOpenKeeps ==
    ASSUME BaseInv, NEW s, SetOpen(s)
    PROVE  SameRows /\ rows' \in [Sessions -> Int]
<1>1. CASE IsPaired(s)
  <2>1. client[s] \in Devices
    BY <1>1 DEF IsPaired, BaseInv
  <2>2. client[s] \in Nat
    BY <2>1, SessionsAssumption DEF Devices
  <2> QED
    BY <1>1, <2>2, SetJIDKeeps DEF SetOpen
<1>2. CASE ~IsPaired(s)
  BY <1>2 DEF SetOpen, SameRows, BaseInv
<1> QED
  BY <1>1, <1>2

\* A request that is under way has an account and a plan.
LEMMA AtFacts ==
    ASSUME BaseInv, NEW r \in Requests, NEW step, At(r, step)
    PROVE  req[r].s \in Sessions /\ req[r].plan \in Plans /\ Head(req[r].plan) = step
             /\ PlanStep(req[r].plan)
<1>1. req[r] # NoRequest
  <2>1. req[r].plan # <<>>
    BY DEF At
  <2> QED
    BY <2>1 DEF NoRequest
<1>2. req[r] \in [s : Sessions, plan : Plans]
  BY <1>1 DEF BaseInv
<1> QED
  BY <1>2, PlanSteps DEF At

\* A request of account s moves on to its next step, or ends.
Moves(r, s) ==
    \/ /\ req' = [req EXCEPT ![r] = NoRequest]
       /\ Matches(s)'
    \/ \E plan \in Plans :
         /\ req' = [req EXCEPT ![r] = [s |-> s, plan |-> plan]]
         /\ StandsAt(Head(plan), s)'

\* It changes the row and the session of its account only.
LEMMA RequestStep ==
    ASSUME RowsInv, NEW r \in Requests, NEW s \in Sessions, req[r].s = s,
           Moves(r, s), UNCHANGED todo, devices' \subseteq devices,
           rows' \in [Sessions -> Int],
           \A t \in Sessions \ {s} :
             /\ t \in live' <=> t \in live
             /\ rows'[t] = -1 <=> rows[t] = -1
    PROVE  RowsInv'
<1>0. todo = {}
  BY NoSessionAssumption DEF RowsInv, TableInv, NoRequest
<1>1. \A t \in Sessions \ {s} : Matches(t)' <=> Matches(t)
  BY DEF Matches
<1>2. \A step, t : t \in Sessions \ {s} => (StandsAt(step, t)' <=> StandsAt(step, t))
  BY <1>1 DEF StandsAt
<1>3. PICK new \in [s : Sessions, plan : Plans] \cup {NoRequest} :
        /\ req' = [req EXCEPT ![r] = new]
        /\ \/ new = NoRequest /\ Matches(s)'
           \/ new.s = s /\ StandsAt(Head(new.plan), s)'
  <2>1. CASE req' = [req EXCEPT ![r] = NoRequest] /\ Matches(s)'
    BY <2>1
  <2>2. ASSUME NEW plan \in Plans, req' = [req EXCEPT ![r] = [s |-> s, plan |-> plan]],
               StandsAt(Head(plan), s)'
        PROVE  \E new \in [s : Sessions, plan : Plans] :
                 /\ req' = [req EXCEPT ![r] = new]
                 /\ new.s = s /\ StandsAt(Head(new.plan), s)'
    <3>1. [s |-> s, plan |-> plan] \in [s : Sessions, plan : Plans]
      OBVIOUS
    <3>2. [s |-> s, plan |-> plan].s = s /\ [s |-> s, plan |-> plan].plan = plan
      OBVIOUS
    <3> QED
      BY <2>2, <3>1, <3>2
  <2> QED
    BY <2>1, <2>2 DEF Moves
<1>4. /\ req'[r] = new
      /\ \A q \in Requests : q # r => req'[q] = req[q]
      /\ req' \in [Requests -> [s : Sessions, plan : Plans] \cup {NoRequest}]
  BY <1>3 DEF RowsInv, BaseInv
<1>5. BaseInv'
  BY <1>4 DEF RowsInv, BaseInv
<1>6. \A q \in Requests : q # r => req[q].s # s
  BY DEF RowsInv, TableInv
<1>7. new.s = s \/ new.s \notin Sessions
  BY <1>3, NoSessionAssumption DEF NoRequest
<1>8. \A p, q \in Requests : req'[p].s = req'[q].s /\ req'[p].s \in Sessions => p = q
  BY <1>4, <1>6, <1>7 DEF RowsInv, TableInv
<1>9. ASSUME NEW q \in Requests, req'[q].s \in Sessions
      PROVE  StandsAt(Head(req[q].plan), req[q].s)'
  <2>1. CASE q = r
    <3>1. new # NoRequest /\ new.s = s
      BY <1>4, <1>7, <1>9, <2>1, NoSessionAssumption DEF NoRequest
    <3>2. StandsAt(Head(new.plan), s)'
      BY <1>3, <3>1
    <3> QED
      BY <1>4, <2>1, <3>1, <3>2 DEF StandsAt, Matches
  <2>2. CASE q # r
    <3>1. req'[q] = req[q] /\ req[q].s \in Sessions \ {s}
      BY <1>4, <1>6, <1>9, <2>2
    <3>2. StandsAt(Head(req[q].plan), req[q].s)
      BY <3>1 DEF RowsInv, TableInv
    <3> QED
      BY <3>1, <3>2 DEF StandsAt, Matches
  <2> QED
    BY <2>1, <2>2
<1>10. ASSUME NEW t \in Sessions, \A q \in Requests : req'[q].s # t
       PROVE  Matches(t)'
  <2>1. CASE t = s
    BY <1>3, <1>4, <1>10, <2>1
  <2>2. CASE t # s
    <3>1. \A q \in Requests : req[q].s # t
      BY <1>4, <1>10, <2>2
    <3> QED
      BY <1>0, <1>1, <2>2, <3>1 DEF RowsInv, TableInv
  <2> QED
    BY <2>1, <2>2
<1>11. TableInv'
  <2>1. todo' = {}
    BY <1>0
  <2>2. \A q \in Requests : (req[q].s \in Sessions)' => StandsAt(Head(req[q].plan), req[q].s)'
    BY <1>9
  <2>3. \A t \in Sessions : (\A q \in Requests : (req[q].s # t)') => Matches(t)'
    BY <1>10
  <2> QED
    BY <1>8, <2>1, <2>2, <2>3 DEF TableInv
<1> QED
  BY <1>5, <1>11 DEF RowsInv

\* A request of account s is at a step of its plan.
Runs(r, s, plan, step) ==
    /\ At(r, step)
    /\ s = req[r].s /\ plan = req[r].plan

\* Done, from a step that has left the account where the next one needs it.
LEMMA DoneMoves ==
    ASSUME BaseInv, NEW r \in Requests, NEW s \in Sessions, NEW plan, NEW step,
           Runs(r, s, plan, step), Done(r),
           IF Len(plan) = 1 THEN Matches(s)' ELSE StandsAt(Head(Tail(plan)), s)'
    PROVE  Moves(r, s)
<1>1. PlanStep(plan)
  BY AtFacts DEF Runs
<1>2. CASE Len(plan) = 1
  BY <1>2 DEF Runs, Done, Moves
<1>3. CASE Len(plan) # 1
  <2>1. Tail(plan) \in Plans
    BY <1>1, <1>3 DEF PlanStep
  <2>2. req' = [req EXCEPT ![r] = [s |-> s, plan |-> Tail(plan)]]
    BY <1>3 DEF Runs, Done
  <2>3. PICK rest \in Plans : rest = Tail(plan)
    BY <2>1
  <2> QED
    BY <1>3, <2>2, <2>3 DEF Moves
<1> QED
  BY <1>2, <1>3

\* Steps that touch neither row nor session of the account, and are no turning point.
LEMMA PlainStep ==
    ASSUME RowsInv, NEW r \in Requests, NEW step, At(r, step), Done(r) \/ GiveUp(r),
           step \notin {"insert", "register", "unregister", "delete"},
           UNCHANGED <<todo, live>>, SameRows, rows' \in [Sessions -> Int],
           devices' \subseteq devices
    PROVE  RowsInv'
<1>1. PICK s \in Sessions, plan \in Plans : Runs(r, s, plan, step)
  BY AtFacts DEF RowsInv, Runs
<1>2. Head(plan) = step /\ PlanStep(plan) /\ s = req[r].s
  BY <1>1, AtFacts DEF RowsInv, Runs
<1>3. s \in live /\ rows[s] # -1
  BY <1>1, <1>2 DEF RowsInv, TableInv, StandsAt, Runs
<1>4. s \in live' /\ rows'[s] # -1
  BY <1>3 DEF SameRows
<1>5. Matches(s)'
  BY <1>4 DEF Matches
<1>6. Moves(r, s)
  <2>1. CASE GiveUp(r)
    BY <1>5, <2>1 DEF GiveUp, Moves
  <2>2. CASE Done(r)
    <3>1. ASSUME Len(plan) # 1 PROVE StandsAt(Head(Tail(plan)), s)'
      <4>1. Head(Tail(plan)) \notin {"insert", "register", "delete"}
        BY <1>2, <3>1 DEF PlanStep
      <4> QED
        BY <1>4, <4>1 DEF StandsAt
    <3> QED
      BY <1>1, <1>5, <2>2, <3>1, DoneMoves DEF RowsInv
  <2> QED
    BY <2>1, <2>2
<1> QED
  BY <1>2, <1>6, RequestStep DEF SameRows

\* Manager.Create: the row, then the session.
LEMMA CreateRows ==
    ASSUME RowsInv, NEW r \in Requests, Insert(r) \/ Register(r)
    PROVE  RowsInv'
<1>1. CASE Insert(r)
  <2>1. PICK s \in Sessions, plan \in Plans : Runs(r, s, plan, "insert")
    BY <1>1, AtFacts DEF RowsInv, Runs, Insert
  <2>2. Head(plan) = "insert" /\ PlanStep(plan) /\ s = req[r].s
    BY <2>1, AtFacts DEF RowsInv, Runs
  <2>3. Matches(s)
    BY <2>1, <2>2 DEF RowsInv, TableInv, StandsAt, Runs
  <2>4. UNCHANGED <<todo, live, devices>>
    BY <1>1 DEF Insert, server, table
  <2>5. CASE InsertFails(s)
    <3>1. GiveUp(r) /\ UNCHANGED rows
      BY <1>1, <2>2, <2>5 DEF Insert
    <3>2. Moves(r, s)
      BY <2>3, <2>4, <3>1 DEF Moves, GiveUp, Matches
    <3> QED
      BY <2>2, <2>4, <3>1, <3>2, RequestStep DEF RowsInv, BaseInv
  <2>6. CASE ~InsertFails(s)
    <3>1. Done(r) /\ rows' = [rows EXCEPT ![s] = 0]
      BY <1>1, <2>2, <2>6 DEF Insert
    <3>2. /\ rows' \in [Sessions -> Int] /\ rows'[s] = 0
          /\ \A t \in Sessions \ {s} : rows'[t] = rows[t]
      BY <3>1 DEF RowsInv, BaseInv
    <3>3. s \notin live
      BY <2>3, <2>6 DEF Matches, InsertFails
    <3>4. StandsAt("register", s)'
      BY <2>4, <3>2, <3>3 DEF StandsAt
    <3>5. Moves(r, s)
      BY <2>1, <2>2, <3>1, <3>4, DoneMoves DEF PlanStep, RowsInv
    <3> QED
      BY <2>2, <2>4, <3>2, <3>5, RequestStep
  <2> QED
    BY <2>5, <2>6
<1>2. CASE Register(r)
  <2>1. PICK s \in Sessions, plan \in Plans : Runs(r, s, plan, "register")
    BY <1>2, AtFacts DEF RowsInv, Runs, Register
  <2>2. Head(plan) = "register" /\ PlanStep(plan) /\ s = req[r].s
    BY <2>1, AtFacts DEF RowsInv, Runs
  <2>3. s \notin live /\ rows[s] # -1
    BY <2>1, <2>2 DEF RowsInv, TableInv, StandsAt, Runs
  <2>4. UNCHANGED <<todo, rows, devices>> /\ live' = live \cup {s}
    BY <1>2, <2>2 DEF Register, server, NewSession
  <2>5. StandsAt("pairing", s)'
    BY <2>3, <2>4 DEF StandsAt
  <2>6. Moves(r, s)
    BY <1>2, <2>1, <2>2, <2>5, DoneMoves DEF PlanStep, RowsInv, Register
  <2> QED
    BY <2>2, <2>4, <2>6, RequestStep DEF RowsInv, BaseInv
<1> QED
  BY <1>1, <1>2

\* Manager.Delete: the session, then the row.
LEMMA DeleteRows ==
    ASSUME RowsInv, NEW r \in Requests, Unregister(r) \/ DeleteRow(r)
    PROVE  RowsInv'
<1>1. CASE Unregister(r)
  <2>1. PICK s \in Sessions, plan \in Plans : Runs(r, s, plan, "unregister")
    BY <1>1, AtFacts DEF RowsInv, Runs, Unregister
  <2>2. Head(plan) = "unregister" /\ PlanStep(plan) /\ s = req[r].s
    BY <2>1, AtFacts DEF RowsInv, Runs
  <2>3. rows[s] # -1
    BY <2>1, <2>2 DEF RowsInv, TableInv, StandsAt, Runs
  <2>4. UNCHANGED <<todo, rows, devices>> /\ live' = live \ {s}
    BY <1>1, <2>2 DEF Unregister, server
  <2>5. StandsAt("delete", s)'
    BY <2>3, <2>4 DEF StandsAt
  <2>6. Moves(r, s)
    BY <1>1, <2>1, <2>2, <2>5, DoneMoves DEF PlanStep, RowsInv, Unregister
  <2> QED
    BY <2>2, <2>4, <2>6, RequestStep DEF RowsInv, BaseInv
<1>2. CASE DeleteRow(r)
  <2>1. PICK s \in Sessions, plan \in Plans : Runs(r, s, plan, "delete")
    BY <1>2, AtFacts DEF RowsInv, Runs, DeleteRow
  <2>2. Head(plan) = "delete" /\ PlanStep(plan) /\ s = req[r].s
    BY <2>1, AtFacts DEF RowsInv, Runs
  <2>3. s \notin live
    BY <2>1, <2>2 DEF RowsInv, TableInv, StandsAt, Runs
  <2>4. UNCHANGED <<todo, live, devices>> /\ rows' = [rows EXCEPT ![s] = -1]
    BY <1>2, <2>2 DEF DeleteRow, server, table
  <2>5. /\ rows' \in [Sessions -> Int] /\ rows'[s] = -1
        /\ \A t \in Sessions \ {s} : rows'[t] = rows[t]
    BY <2>4 DEF RowsInv, BaseInv
  <2>6. Matches(s)'
    BY <2>3, <2>4, <2>5 DEF Matches
  <2>7. Moves(r, s)
    BY <1>2, <2>1, <2>2, <2>6, DoneMoves DEF PlanStep, RowsInv, DeleteRow
  <2> QED
    BY <2>2, <2>4, <2>5, <2>7, RequestStep
<1> QED
  BY <1>1, <1>2

\* The other steps of the requests.
LEMMA OtherRows ==
    ASSUME RowsInv, NEW r \in Requests,
           \/ StartPairing(r) \/ replaceClient(r) \/ ClearJID(r)
           \/ \E step \in {"logout", "logoutOrDrop", "logoutAndDrop"} : LogoutClient(r, step)
           \/ ShowLoggedOut(r) \/ PhoneCode(r)
    PROVE  RowsInv'
<1>1. UNCHANGED <<todo, live>>
  BY DEF StartPairing, replaceClient, ClearJID, LogoutClient, ShowLoggedOut, PhoneCode,
     server, table
<1>2. devices' \subseteq devices
  BY DEF StartPairing, replaceClient, ClearJID, LogoutClient, ShowLoggedOut, PhoneCode
<1>3. SameRows /\ rows' \in [Sessions -> Int]
  <2>1. CASE ClearJID(r)
    BY <2>1, SetJIDKeeps DEF ClearJID, RowsInv
  <2>2. CASE ~ClearJID(r)
    <3>1. UNCHANGED rows
      BY <2>2 DEF StartPairing, replaceClient, LogoutClient, ShowLoggedOut, PhoneCode
    <3> QED
      BY <3>1 DEF RowsInv, BaseInv, SameRows
  <2> QED
    BY <2>1, <2>2
<1>4. \E step \in {"pairing", "replace", "clearJID", "logout", "logoutOrDrop",
                  "logoutAndDrop", "loggedOut", "code"} : At(r, step)
  BY DEF StartPairing, replaceClient, ClearJID, LogoutClient, ShowLoggedOut, PhoneCode
<1>5. Done(r) \/ GiveUp(r)
  BY DEF StartPairing, replaceClient, ClearJID, LogoutClient, ShowLoggedOut, PhoneCode
<1> QED
  BY <1>1, <1>2, <1>3, <1>4, <1>5, PlainStep

\* A request begins on an account no other request is at.
LEMMA BeginRows ==
    ASSUME RowsInv, NEW r \in Requests, NEW s \in Sessions, Begin(r, s)
    PROVE  RowsInv'
<1>1. /\ UNCHANGED <<todo, rows, devices, live>>
      /\ todo = {} /\ req[r] = NoRequest
      /\ \A q \in Requests : req[q].s # s
  BY DEF Begin, Running, server, table
<1>2. Matches(s)
  BY <1>1 DEF RowsInv, TableInv
<1>3. \/ req' = [req EXCEPT ![r] = [s |-> s, plan |-> Create]]
      \/ /\ s \in live
         /\ \E plan \in {Delete, Logout, Pair, PairPhone} :
               req' = [req EXCEPT ![r] = [s |-> s, plan |-> plan]]
  BY DEF Begin
<1>4. PICK plan \in {Create, Delete, Logout, Pair, PairPhone} :
        /\ req' = [req EXCEPT ![r] = [s |-> s, plan |-> plan]]
        /\ plan # Create => s \in live
  BY <1>3
<1>5. plan \in Plans
  BY DEF Plans
<1>6. StandsAt(Head(plan), s)
  <2>1. CASE plan = Create
    <3>1. Head(plan) = "insert"
      BY <2>1 DEF Create
    <3> QED
      BY <1>2, <3>1 DEF StandsAt
  <2>2. CASE plan # Create
    <3>1. Head(Delete) = "logoutOrDrop" /\ Head(Logout) = "logout"
      BY DEF Delete, Logout
    <3>2. Head(Pair) = "logoutAndDrop" /\ Head(PairPhone) = "logoutAndDrop"
      BY DEF Pair, PairPhone
    <3>3. Head(plan) \notin {"insert", "register", "delete"}
      BY <2>2, <3>1, <3>2
    <3>4. s \in live /\ rows[s] # -1
      BY <1>2, <1>4, <2>2 DEF Matches
    <3> QED
      BY <3>3, <3>4 DEF StandsAt
  <2> QED
    BY <2>1, <2>2
<1>7. PICK new \in [s : Sessions, plan : Plans] :
        new.s = s /\ new.plan = plan /\ req' = [req EXCEPT ![r] = new]
  <2>1. [s |-> s, plan |-> plan] \in [s : Sessions, plan : Plans]
    BY <1>5
  <2> QED
    BY <1>4, <2>1
<1>8. /\ req'[r] = new
      /\ \A q \in Requests : q # r => req'[q] = req[q]
      /\ req' \in [Requests -> [s : Sessions, plan : Plans] \cup {NoRequest}]
  BY <1>7 DEF RowsInv, BaseInv
<1>9. BaseInv'
  BY <1>1, <1>8 DEF RowsInv, BaseInv
<1>10. ASSUME NEW q \in Requests, req'[q].s \in Sessions
       PROVE  StandsAt(Head(req[q].plan), req[q].s)'
  <2>1. CASE q = r
    BY <1>1, <1>6, <1>7, <1>8, <2>1 DEF StandsAt, Matches
  <2>2. CASE q # r
    BY <1>1, <1>8, <1>10, <2>2 DEF RowsInv, TableInv, StandsAt, Matches
  <2> QED
    BY <2>1, <2>2
<1>11. \A p, q \in Requests : req'[p].s = req'[q].s /\ req'[p].s \in Sessions => p = q
  BY <1>1, <1>7, <1>8 DEF RowsInv, TableInv
<1>12. ASSUME NEW t \in Sessions, \A q \in Requests : req'[q].s # t
       PROVE  Matches(t)'
  <2>1. \A q \in Requests : req[q].s # t
    BY <1>1, <1>8, <1>12, NoSessionAssumption DEF NoRequest
  <2> QED
    BY <1>1, <2>1 DEF RowsInv, TableInv, Matches
<1>13. TableInv'
  <2>1. \A q \in Requests : (req[q].s \in Sessions)' => StandsAt(Head(req[q].plan), req[q].s)'
    BY <1>10
  <2>2. \A t \in Sessions : (\A q \in Requests : (req[q].s # t)') => Matches(t)'
    BY <1>12
  <2> QED
    BY <1>1, <1>11, <2>1, <2>2 DEF TableInv
<1> QED
  BY <1>9, <1>13 DEF RowsInv

\* Clients, calls and reconnections leave the table alone, but for the jid.
LEMMA ClientRows ==
    ASSUME RowsInv, NEW d \in Devices, Client(d)
    PROVE  RowsInv'
<1>1. UNCHANGED <<todo, live, req>>
  BY DEF Client, QrCode, QrShow, QrTimeout, QrSuccess, PairSuccess, Connected, ClientLost,
     AutoReconnect, server, table
<1>2. devices' \subseteq devices \cup {d}
  BY DEF Client, QrCode, QrShow, QrTimeout, QrSuccess, PairSuccess, Connected, ClientLost,
     AutoReconnect
<1>3. SetOpen(of[d]) \/ UNCHANGED rows
  BY DEF Client, QrCode, QrShow, QrTimeout, QrSuccess, PairSuccess, Connected, ClientLost,
     AutoReconnect
<1>4. SameRows /\ rows' \in [Sessions -> Int]
  BY <1>3, SetOpenKeeps DEF RowsInv, BaseInv, SameRows
<1> QED
  BY <1>1, <1>2, <1>4, QuietStep DEF RowsInv, BaseInv

\* The start of the server: while rows wait there are no requests.
LEMMA RestoreRows ==
    ASSUME RowsInv, NEW s \in Sessions,
           RestoreUnpaired(s) \/ RestorePaired(s) \/ RestoreDropped(s)
    PROVE  RowsInv'
<1>1. /\ s \in todo /\ todo' = todo \ {s}
      /\ UNCHANGED <<req, devices>>
  BY DEF RestoreUnpaired, RestorePaired, RestoreDropped
<1>2. \A r \in Requests : req[r] = NoRequest
  BY <1>1 DEF RowsInv, TableInv
<1>3. \/ UNCHANGED rows /\ live' = live \cup {s}
      \/ rows' = [rows EXCEPT ![s] = -1] /\ UNCHANGED live
  BY DEF RestoreUnpaired, RestorePaired, RestoreDropped, NewSession, DroppedRow, table
<1>4. s \notin live /\ rows[s] # -1
  BY <1>1 DEF RowsInv, TableInv
<1>5. /\ rows' \in [Sessions -> Int]
      /\ \A t \in Sessions \ {s} : rows'[t] = rows[t]
      /\ \A t \in Sessions \ {s} : t \in live' <=> t \in live
      /\ s \in live' <=> rows'[s] # -1
  <2>1. CASE UNCHANGED rows /\ live' = live \cup {s}
    BY <1>4, <2>1 DEF RowsInv, BaseInv
  <2>2. CASE rows' = [rows EXCEPT ![s] = -1] /\ UNCHANGED live
    BY <1>4, <2>2 DEF RowsInv, BaseInv
  <2> QED
    BY <1>3, <2>1, <2>2
<1>6. BaseInv'
  BY <1>1, <1>5 DEF RowsInv, BaseInv
<1>7. \A t \in Sessions \ todo' : Matches(t)'
  <2>1. \A t \in Sessions \ todo : Matches(t)
    BY <1>2, NoSessionAssumption DEF RowsInv, TableInv, NoRequest
  <2> QED
    BY <1>1, <1>5, <2>1 DEF Matches
<1>8. \A t \in todo' : t \notin live' /\ rows'[t] # -1
  BY <1>1, <1>5 DEF RowsInv, TableInv, BaseInv
<1>9. \A r \in Requests : req'[r] = NoRequest /\ req'[r].s \notin Sessions
  BY <1>1, <1>2, NoSessionAssumption DEF NoRequest
<1>10. TableInv'
  BY <1>7, <1>8, <1>9 DEF TableInv
<1> QED
  BY <1>6, <1>10 DEF RowsInv

LEMMA StopRows ==
    ASSUME RowsInv, Stop
    PROVE  RowsInv'
<1>1. /\ todo' = {s \in Sessions : rows[s] # -1}
      /\ live' = {} /\ UNCHANGED <<rows, devices>>
      /\ req' = [r \in Requests |-> NoRequest]
  BY DEF Stop
<1>2. BaseInv'
  BY <1>1 DEF RowsInv, BaseInv
<1>3. \A r \in Requests : req'[r] = NoRequest /\ req'[r].s \notin Sessions
  BY <1>1, NoSessionAssumption DEF NoRequest
<1>4. TableInv'
  BY <1>1, <1>3 DEF TableInv, Matches
<1> QED
  BY <1>2, <1>4 DEF RowsInv

LEMMA RowsNext == RowsInv /\ [Next]_vars => RowsInv'
<1> SUFFICES ASSUME RowsInv, [Next]_vars PROVE RowsInv'
  OBVIOUS
<1>1. ASSUME NEW r \in Requests, Request(r) PROVE RowsInv'
  BY <1>1, BeginRows, CreateRows, DeleteRows, OtherRows DEF Request
<1>2. ASSUME NEW d \in Devices, Client(d) PROVE RowsInv'
  BY <1>2, ClientRows
<1>3. ASSUME UNCHANGED <<todo, live, req, rows, devices>> PROVE RowsInv'
  BY <1>3, QuietStep DEF RowsInv, BaseInv, SameRows
<1>4. ASSUME NEW s \in Sessions, Session(s) PROVE RowsInv'
  BY <1>3, <1>4, RestoreRows DEF Session, TakeSlot, StartCall, onIncomingOffer, CallEnds,
     server, table
<1>5. CASE DropForVersion \/ ConnectForVersion
  BY <1>3, <1>5 DEF DropForVersion, ConnectForVersion, server, table
<1>6. CASE UNCHANGED vars
  BY <1>3, <1>6 DEF vars
<1> QED
  BY <1>1, <1>2, <1>4, <1>5, <1>6, StopRows DEF Next

\* Whenever the server is up and no request on an account is under way, the account is
\* served exactly if the table has its row: for any number of accounts and requests, and
\* after stops in the middle of Create, Delete or Logout (Manager.Create, Delete, Restore).
THEOREM RowsAndSessions == Spec => []RowsMatchSessions
<1>1. Init => RowsInv
  <2> SUFFICES ASSUME Init PROVE RowsInv
    OBVIOUS
  <2>1. /\ rows = [s \in Sessions |-> -1] /\ todo = {} /\ live = {} /\ devices = {}
        /\ req = [r \in Requests |-> NoRequest]
    BY DEF Init
  <2>2. BaseInv
    BY <2>1 DEF BaseInv
  <2>3. \A r \in Requests : req[r] = NoRequest /\ req[r].s \notin Sessions
    BY <2>1, NoSessionAssumption DEF NoRequest
  <2>4. TableInv
    BY <2>1, <2>3 DEF TableInv, Matches
  <2> QED
    BY <2>2, <2>4 DEF RowsInv
<1>2. RowsInv => RowsMatchSessions
  BY DEF RowsInv, TableInv, RowsMatchSessions, Running, Matches
<1> QED
  BY <1>1, <1>2, RowsNext, PTL DEF Spec
=============================================================================
