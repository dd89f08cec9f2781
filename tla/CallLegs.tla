------------------------------ MODULE CallLegs ------------------------------
(***************************************************************************)
(* What a session hangs on a call: the operator's leg (bridge.go,          *)
(* wsbridge.go), the recording (session.go, wavrecorder.go) and the Gemini *)
(* Live leg of an AI call (ai_voice.go, gemini_live.go), and everyone who  *)
(* attaches, replaces and removes them: the HTTP handlers, the callbacks   *)
(* of the call manager, the peer's audio and the session's shutdown.       *)
(*                                                                         *)
(* One call is considered: every table is indexed by the call id.  A       *)
(* goroutine is the sequence of steps it still has to run.  A step is what *)
(* the code does between two locks; the work of a callback run with the    *)
(* manager's lock held is a prefix of the plan that ends with "unlock".    *)
(***************************************************************************)
EXTENDS CallState, Integers, Sequences, FiniteSets

CONSTANTS
    Legs,       \* operator transports that may be attached to the call
    RTC,        \* those that are WebRTC peer connections; the others are WebSockets
    NoLeg,
    MaxTakes,   \* how often the WAV file can be created before os.Create fails
    MaxBusy     \* goroutines at work at a time when another one begins, a bound

\* manager  whoever reports a step of the call (the peer, the relays, hold)
\* audio    the receive path that calls OnPeerAudio
\* record   POST .../record       http    POST .../end and .../reject
\* hangup   terminateCall, the peer's terminate, the watchdog
\* sweep    teardownAllCalls      ai      attachGeminiOnConnect and its Gemini session
\* hook     the broker's OnCallEnded
Workers == {"manager", "audio", "record", "http", "hangup", "sweep", "ai", "hook"}

\* The handler that attaches a leg is named by it.
Goroutines == Workers \cup Legs

ASSUME LegsAssumption ==
    /\ RTC \subseteq Legs /\ NoLeg \notin Legs /\ Legs \cap Workers = {}
    /\ MaxTakes \in Nat

VARIABLES
    stage,     \* the call's StateData.State
    lock,      \* the goroutine that holds the manager's lock, or "free"
    known,     \* the session's call.Client has the call
    listed,    \* the status of the broker's record: none, ringing, connected
    todo,      \* what each goroutine still has to do
    bridges,   \* s.bridges[callID]
    link,      \* each leg's transport: none, open, closed by us, dropped by the browser
    fired,     \* legs whose OnTerminalICE or OnTerminal has run, terminateCall has not
    armed,     \* s.armedRecordings[callID]
    recorder,  \* s.recorders[callID]: the number of the take, 0 for none
    running,   \* takes whose file is open
    made,      \* takes started so far
    taken,     \* the take a goroutine has removed from the table and will close
    registered, cancelled, sock  \* the Gemini session: in the table, closed, socket open

legVars == <<bridges, link, fired>>
recVars == <<armed, recorder, running, made, taken>>
aiVars == <<registered, cancelled, sock>>
legsVars == <<stage, lock, known, listed, todo, legVars, recVars, aiVars>>

Takes == 0..MaxTakes

LegsTypeOK ==
    /\ stage \in CallStates
    /\ lock \in Goroutines \cup {"free"}
    /\ known \in BOOLEAN
    /\ listed \in {"none", "ringing", "connected"}
    /\ \A g \in Goroutines : todo[g] \in Seq(STRING)
    /\ bridges \in Legs \cup {NoLeg}
    /\ link \in [Legs -> {"none", "open", "closed", "dropped"}]
    /\ fired \subseteq Legs
    /\ armed \in BOOLEAN /\ recorder \in Takes /\ running \subseteq Takes /\ made \in Takes
    /\ taken \in [Goroutines -> Takes]
    /\ registered \in BOOLEAN /\ cancelled \in BOOLEAN /\ sock \in BOOLEAN

\* dialOneAICall and handleStartAICall wait for the answer of a call they placed,
\* handleIncomingCallAI accepts the call first.
handleStartAICall == <<"poll">>

handleIncomingCallAI == <<"accept", "poll">>

\* The call rings, and has been announced; it may be an AI call.
LegsInit ==
    /\ stage \in {"ringing", "incoming_ringing"}
    /\ lock = "free" /\ known = TRUE /\ listed = "ringing"
    /\ \E ai \in {<<>>, IF stage = "ringing" THEN handleStartAICall ELSE handleIncomingCallAI} :
            todo = [g \in Goroutines |-> IF g = "ai" THEN ai ELSE <<>>]
    /\ bridges = NoLeg /\ link = [l \in Legs |-> "none"] /\ fired = {}
    /\ armed = FALSE /\ recorder = 0 /\ running = {} /\ made = 0
    /\ taken = [g \in Goroutines |-> 0]
    /\ registered = FALSE /\ cancelled = FALSE /\ sock = FALSE

-----------------------------------------------------------------------------
(* Plans.                                                                  *)

StopRecording == <<"disarm", "take">>

removeCall == StopRecording \o <<"detach", "remove">>

startRecordingIfArmed == <<"ifArmed", "ifNone", "start">>

\* OnStateChange, run by emitState with the manager's lock held.  The tracer and the
\* events sent to the leg are left out.
OnStateChange(s) ==
    (IF s = "ended" THEN removeCall \o <<"unlist">>
     ELSE (IF s = "active" THEN startRecordingIfArmed ELSE <<>>) \o <<"list">>)
    \o <<"unlock">>

\* OnEnded, run without the lock.
EndedPlan == StopRecording \o removeCall \o <<"unlist">>

AttachBrowser == <<"get", "make", "set", "resume">>

\* handleCallWS accepts the upgrade before AttachBrowserWS looks the call up.
AttachBrowserWS == <<"make", "get", "set", "resume">>

attachGeminiOnConnect == <<"poll", "get", "register", "dial", "setup", "read">>

-----------------------------------------------------------------------------
At(g, s) == todo[g] # <<>> /\ Head(todo[g]) = s

Resting(g) == todo[g] = <<>>

\* The step is done; plan comes before the rest.
Then(g, plan) == todo' = [todo EXCEPT ![g] = plan \o Tail(todo[g])]

Skip(g, n) == todo' = [todo EXCEPT ![g] = SubSeq(todo[g], n + 1, Len(todo[g]))]

\* A goroutine begins.
Start(g, plan) ==
    /\ Resting(g) /\ Cardinality({h \in Goroutines : ~Resting(h)}) < MaxBusy
    /\ todo' = [todo EXCEPT ![g] = plan]

Quit(g) == todo' = [todo EXCEPT ![g] = <<>>]

Going == stage # "ended"

\* The call moves to s with the lock held, and g reports it.
Emit(g, s, after) ==
    /\ lock = "free"
    /\ lock' = g
    /\ stage' = s
    /\ Then(g, OnStateChange(s) \o after)

Unlock(g) ==
    /\ At(g, "unlock")
    /\ lock' = "free"
    /\ Then(g, <<>>)
    /\ UNCHANGED <<stage, known, listed, legVars, recVars, aiVars>>

\* The record of the call: the broker's UpsertCall and EndCall.
List(g) ==
    /\ At(g, "list")
    /\ listed' = IF stage = "active" THEN "connected" ELSE "ringing"
    /\ Then(g, <<>>)
    /\ UNCHANGED <<stage, lock, known, legVars, recVars, aiVars>>

Unlist(g) ==
    /\ At(g, "unlist")
    /\ listed' = "none"
    /\ todo' = [todo EXCEPT ![g] = Tail(todo[g]),
                            !["hook"] = IF listed = "none" THEN todo["hook"] ELSE <<"ended">>]
    /\ UNCHANGED <<stage, lock, known, legVars, recVars, aiVars>>

-----------------------------------------------------------------------------
(* Ending the call.                                                        *)

\* Client.EndCall and Client.RejectCall look the call up first.
Find(g) ==
    /\ At(g, "find")
    /\ IF known THEN Then(g, <<>>) ELSE Skip(g, 2)
    /\ UNCHANGED <<stage, lock, known, listed, legVars, recVars, aiVars>>

\* CallManager.EndCall, and HandleCallTerminate.
End(g) ==
    /\ At(g, "end") /\ lock = "free"
    /\ IF Going THEN Emit(g, "ended", EndedPlan)
               ELSE Then(g, <<>>) /\ UNCHANGED <<stage, lock>>
    /\ UNCHANGED <<known, listed, legVars, recVars, aiVars>>

\* An InvalidTransition is returned to the caller, who then removes nothing.
Reject(g) ==
    /\ At(g, "reject") /\ lock = "free"
    /\ IF Valid([state |-> stage], "local_rejected")
       THEN Emit(g, "ended", <<>>)
       ELSE Quit(g) /\ UNCHANGED <<stage, lock>>
    /\ UNCHANGED <<known, listed, legVars, recVars, aiVars>>

\* Client.Drain hands the call to teardownAllCalls.
Drain(g) ==
    /\ At(g, "drain")
    /\ known' = FALSE
    /\ IF known THEN Then(g, <<>>) ELSE Skip(g, 2)
    /\ UNCHANGED <<stage, lock, listed, legVars, recVars, aiVars>>

Remove(g) ==
    /\ At(g, "remove")
    /\ known' = FALSE
    /\ Then(g, <<>>)
    /\ UNCHANGED <<stage, lock, listed, legVars, recVars, aiVars>>

-----------------------------------------------------------------------------
(* The operator's leg.  A leg taken out of the table is closed at once:    *)
(* nothing that comes between the two is lost by making them one step.     *)

\* Mutant: a local close does not mark the leg as closed before the read loop sees it.
Close_Unmarked(l) ==
    IF l = NoLeg THEN UNCHANGED <<link, fired>>
    ELSE /\ link' = [link EXCEPT ![l] = IF @ = "open" THEN "closed" ELSE @]
         /\ fired' = fired \cup {l}

\* WSBridge.Close suppresses OnTerminal.  Closing a peer connection makes its ICE agent
\* report the state Closed, and OnTerminalICE runs.
Close(l) ==
    IF l = NoLeg THEN UNCHANGED <<link, fired>>
    ELSE /\ link' = [link EXCEPT ![l] = IF link[l] = "open" THEN "closed" ELSE link[l]]
         /\ fired' = IF l \in RTC THEN fired \cup {l} ELSE fired

Detach(g) ==
    /\ At(g, "detach")
    /\ bridges' = NoLeg
    /\ Close(bridges)
    /\ Then(g, <<>>)
    /\ UNCHANGED <<stage, lock, known, listed, recVars, aiVars>>

\* calls.Get of the attaching handlers and of attachGeminiOnConnect.  A WebSocket that
\* was accepted for a call that is gone is closed by its handler.
Get(g) ==
    /\ At(g, "get")
    /\ IF known THEN Then(g, <<>>) ELSE Quit(g)
    /\ link' = IF ~known /\ g \in Legs /\ link[g] = "open"
               THEN [link EXCEPT ![g] = "closed"] ELSE link
    /\ UNCHANGED <<stage, lock, known, listed, bridges, fired, recVars, aiVars>>

\* NewBridge, or websocket.Accept and NewWSBridge.
Make(l) ==
    /\ At(l, "make")
    /\ \/ link' = [link EXCEPT ![l] = "open"] /\ Then(l, <<>>)
       \/ Quit(l) /\ UNCHANGED link
    /\ UNCHANGED <<stage, lock, known, listed, bridges, fired, recVars, aiVars>>

\* Mutant: the leg that is replaced stays open.
SetBridge_KeepsOld(l) ==
    /\ At(l, "set")
    /\ IF known
       THEN bridges' = l /\ UNCHANGED <<link, fired>>
       ELSE Close(l) /\ UNCHANGED bridges
    /\ Then(l, <<>>)
    /\ UNCHANGED <<stage, lock, known, listed, recVars, aiVars>>

SetBridge(l) ==
    /\ At(l, "set")
    /\ IF known
       THEN bridges' = l /\ Close(bridges)
       ELSE Close(l) /\ UNCHANGED bridges
    /\ Then(l, <<>>)
    /\ UNCHANGED <<stage, lock, known, listed, recVars, aiVars>>

\* cm.Resume: the state is reported also when the call is not on hold, or has ended.
Resume(l) ==
    /\ At(l, "resume")
    /\ Emit(l, IF stage = "on_hold" THEN "active" ELSE stage, <<>>)
    /\ UNCHANGED <<known, listed, legVars, recVars, aiVars>>

\* Mutant: the read loop ends without telling anyone.
Drop_Silent(l) ==
    /\ link[l] = "open" /\ (l \in RTC \/ Resting(l))
    /\ link' = [link EXCEPT ![l] = "dropped"]
    /\ UNCHANGED <<stage, lock, known, listed, todo, bridges, fired, recVars, aiVars>>

\* The browser goes away: ICE fails, or ReadLoop, which starts last, gets an error.
\* The callback of a peer connection is set before setBridge.
Drop(l) ==
    /\ link[l] = "open" /\ (l \in RTC \/ Resting(l))
    /\ link' = [link EXCEPT ![l] = "dropped"]
    /\ fired' = fired \cup {l}
    /\ UNCHANGED <<stage, lock, known, listed, todo, bridges, recVars, aiVars>>

\* go s.terminateCall.
TerminalICE(l) ==
    /\ l \in fired
    /\ fired' = fired \ {l}
    /\ Start("hangup", <<"find", "end">>)
    /\ UNCHANGED <<stage, lock, known, listed, bridges, link, recVars, aiVars>>

-----------------------------------------------------------------------------
(* The recording.                                                          *)

Disarm(g) ==
    /\ At(g, "disarm")
    /\ armed' = FALSE
    /\ Then(g, <<>>)
    /\ UNCHANGED <<stage, lock, known, listed, legVars, recorder, running, made, taken, aiVars>>

Take(g) ==
    /\ At(g, "take")
    /\ recorder' = 0
    /\ taken' = [taken EXCEPT ![g] = recorder]
    /\ Then(g, IF recorder = 0 THEN <<>> ELSE <<"finish">>)
    /\ UNCHANGED <<stage, lock, known, listed, legVars, armed, running, made, aiVars>>

\* WavRecorder.Close waits for the pump, which empties both buffers.
Finish(g) ==
    /\ At(g, "finish")
    /\ running' = running \ {taken[g]}
    /\ taken' = [taken EXCEPT ![g] = 0]
    /\ Then(g, <<>>)
    /\ UNCHANGED <<stage, lock, known, listed, legVars, armed, recorder, made, aiVars>>

\* StartRecording: the call is active, or the recording is armed.
StartRecording(g) ==
    /\ At(g, "ifActive") /\ (known => lock = "free")
    /\ Then(g, IF known /\ stage = "active" THEN <<"start">> ELSE <<"arm">>)
    /\ UNCHANGED <<stage, lock, known, listed, legVars, recVars, aiVars>>

Arm(g) ==
    /\ At(g, "arm")
    /\ armed' = TRUE
    /\ Then(g, <<>>)
    /\ UNCHANGED <<stage, lock, known, listed, legVars, recorder, running, made, taken, aiVars>>

IfArmed(g) ==
    /\ At(g, "ifArmed")
    /\ IF armed THEN Then(g, <<>>) ELSE Skip(g, 3)
    /\ UNCHANGED <<stage, lock, known, listed, legVars, recVars, aiVars>>

IfNone(g) ==
    /\ At(g, "ifNone")
    /\ IF recorder = 0 THEN Then(g, <<>>) ELSE Skip(g, 2)
    /\ UNCHANGED <<stage, lock, known, listed, legVars, recVars, aiVars>>

\* Mutant: the table is not looked at again under its lock.
MayRecord_Unchecked == TRUE

MayRecord == recorder = 0

\* startRecordingWav.  The file of an earlier take of this call is truncated.
StartWav(g) ==
    /\ At(g, "start")
    /\ \/ /\ MayRecord /\ made < MaxTakes
          /\ made' = made + 1
          /\ recorder' = made'
          /\ running' = running \cup {made'}
       \/ UNCHANGED <<made, recorder, running>>
    /\ Then(g, <<>>)
    /\ UNCHANGED <<stage, lock, known, listed, legVars, armed, taken, aiVars>>

-----------------------------------------------------------------------------
(* The Gemini leg.                                                         *)

AutoAnswer ==
    /\ At("ai", "accept") /\ (known => lock = "free")
    /\ IF known /\ Valid([state |-> stage], "local_accepted")
       THEN Emit("ai", "connecting", <<>>)
       ELSE Quit("ai") /\ UNCHANGED <<stage, lock>>
    /\ UNCHANGED <<known, listed, legVars, recVars, aiVars>>

\* The record is polled every 150 ms, for at most 45 s.
Poll ==
    /\ At("ai", "poll")
    /\ \/ /\ listed = "connected"
          /\ \E record \in BOOLEAN :
                todo' = [todo EXCEPT !["ai"] =
                    <<"get">> \o (IF record THEN <<"ifActive">> ELSE <<>>)
                              \o SubSeq(attachGeminiOnConnect, 3, 6)]
       \/ Quit("ai")
    /\ UNCHANGED <<stage, lock, known, listed, legVars, recVars, aiVars>>

Register ==
    /\ At("ai", "register")
    /\ registered' = TRUE
    /\ Then("ai", <<>>)
    /\ UNCHANGED <<stage, lock, known, listed, legVars, recVars, cancelled, sock>>

\* The context of the session is not cancelled.
MayConnect == ~cancelled

\* websocket.Dial, then sendSetup and waitSetupComplete; when one of them fails the
\* socket is closed and the session leaves the table.
Connect(step) ==
    /\ At("ai", step) /\ step \in {"dial", "setup"}
    /\ \/ MayConnect /\ sock' = TRUE /\ Then("ai", <<>>) /\ UNCHANGED registered
       \/ sock' = FALSE /\ registered' = FALSE /\ Quit("ai")
    /\ UNCHANGED <<stage, lock, known, listed, legVars, recVars, cancelled>>

\* readGeminiLoop ends when the socket fails or the context is cancelled, and closes.
ReadLoop ==
    /\ At("ai", "read")
    /\ cancelled' = TRUE /\ sock' = FALSE
    /\ Quit("ai")
    /\ UNCHANGED <<stage, lock, known, listed, legVars, recVars, registered>>

\* handleCallEndedAI and GeminiLiveSession.Close.
HandleCallEndedAI ==
    /\ At("hook", "ended")
    /\ registered' = FALSE
    /\ cancelled' = (cancelled \/ registered)
    /\ sock' = (sock /\ ~registered)
    /\ Then("hook", <<>>)
    /\ UNCHANGED <<stage, lock, known, listed, legVars, recVars>>

-----------------------------------------------------------------------------
(* Who begins what.                                                        *)

\* The peer answers, the relays connect, fail and recover, the operator holds (and
\* transfers) the call.
ManagerReports ==
    /\ Resting("manager") /\ Going
    /\ \E t \in {"remote_accepted", "local_accepted", "media_connected", "media_lost",
                 "media_restored", "hold"} :
        /\ Valid([state |-> stage], t)
        /\ lock = "free" /\ lock' = "manager"
        /\ stage' = Target([state |-> stage], t)
        /\ todo' = [todo EXCEPT !["manager"] = OnStateChange(stage')]
    /\ UNCHANGED <<known, listed, legVars, recVars, aiVars>>

others == <<stage, lock, known, listed, legVars, recVars, aiVars>>

OnPeerAudio == stage = "active" /\ Start("audio", startRecordingIfArmed) /\ UNCHANGED others

\* handleRecord.
Record ==
    /\ known
    /\ Start("record", <<"ifActive">>) \/ Start("record", StopRecording)
    /\ UNCHANGED others

\* doEndCall and doReject; the latter's removeCall follows only what RejectCall ended or
\* did not know.
HttpEnds ==
    /\ Start("http", <<"find", "end">> \o removeCall \o <<"unlist">>)
        \/ Start("http", <<"find", "reject">> \o removeCall \o <<"unlist">>)
    /\ UNCHANGED others

\* The peer's terminate, or the watchdog.
Hangup ==
    /\ Going
    /\ Start("hangup", <<"find", "end">>) \/ Start("hangup", <<"end">>)
    /\ UNCHANGED others

\* replaceClient, shutdown.
Sweep == known /\ Start("sweep", <<"drain", "end", "detach">>) /\ UNCHANGED others

\* doWebRTC, handleCallWS.
Attach(l) ==
    /\ known /\ link[l] = "none"
    /\ Start(l, IF l \in RTC THEN AttachBrowser ELSE AttachBrowserWS)
    /\ UNCHANGED others

Step(g) ==
    \/ Unlock(g) \/ List(g) \/ Unlist(g)
    \/ Find(g) \/ End(g) \/ Reject(g) \/ Drain(g) \/ Remove(g)
    \/ Detach(g) \/ Get(g)
    \/ Disarm(g) \/ Take(g) \/ Finish(g)
    \/ StartRecording(g) \/ Arm(g) \/ IfArmed(g) \/ IfNone(g) \/ StartWav(g)

Operator(l) == Attach(l) \/ Make(l) \/ SetBridge(l) \/ Resume(l) \/ Drop(l) \/ TerminalICE(l)

Gemini ==
    \/ AutoAnswer \/ Poll \/ Register \/ Connect("dial") \/ Connect("setup")
    \/ ReadLoop \/ HandleCallEndedAI

LegsNext ==
    \/ \E g \in Goroutines : Step(g)
    \/ \E l \in Legs : Operator(l)
    \/ Gemini
    \/ ManagerReports \/ OnPeerAudio \/ Record \/ HttpEnds \/ Hangup \/ Sweep

LegsSpec == LegsInit /\ [][LegsNext]_legsVars

-----------------------------------------------------------------------------
(* Properties.                                                             *)

LegsSettled == \A g \in Goroutines : Resting(g)

\* Whatever attaches, replaces, ends and sweeps at the same time, the only transport that
\* is open once they are done is the leg in the table, and no leg outlives the call.
OpenIsAttached ==
    \A l \in Legs :
        link[l] = "open" /\ LegsSettled => l = bridges /\ Going

\* A browser that goes away ends the call: terminateCall is about to run, or running.
DropEndsCall ==
    \A l \in Legs :
        link[l] = "dropped" => \/ ~Going \/ ~known \/ l \in fired
                               \/ At("hangup", "find") \/ At("hangup", "end")

\* A local close of a WebSocket leg does not end the call.
LocalCloseKeepsCall == \A l \in fired \ RTC : link[l] = "dropped"

\* The same of every leg.
ReplacedLegKeepsCall == \A l \in fired : Going /\ known => link[l] = "dropped"

\* What works for the call belongs to it: a WAV file that is open has its recorder in the
\* table, or one that is being closed, although two starts may race; and an open Gemini
\* socket belongs to a session in the table, where the end of the call finds it.
HelpersOwned ==
    /\ \A k \in running : k = recorder \/ \E g \in Goroutines : k = taken[g]
    /\ sock => registered

\* The recording is closed when the call ends.
RecordingEnds == ~Going /\ LegsSettled => running = {}
=============================================================================
