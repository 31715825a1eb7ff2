---------------------------- MODULE MCServerParts ----------------------------
(***************************************************************************)
(* The parts of rpc_server that share no state with each other, and the     *)
(* pairing of alerts with pictures in the cloud service, side by side: the  *)
(* life of the server process, the smoke sensor, the login sessions, the    *)
(* alerts.  One of them moves in each behaviour.                            *)
(***************************************************************************)
EXTENDS Naturals

CONSTANTS
  ServerTimeout, MaxSignals, Served, FailureThreshold, RetryInterval, Tokens, VerifyLimit,
  SaveLimit, Lifetime, MaxAlerts, PendingLimit

VARIABLES
  part,
  doing, lockedBy, stage, leaving, freed, httpRunning, feedRunning, watchdogRunning,
  level, exported, unfed, fired, off, late, signals, server,
  callers, reading, raw, loaded, smoke_confirmed_state, smoke_debounce_count, status,
  failure_count, sinceFailure, pin, works, streak,
  sessions, whole, left, loggedOut,
  published, camera, mqtt, request, pending, age, latest, taken, announced, sent

serverVars == <<doing, lockedBy, stage, leaving, freed, httpRunning, feedRunning,
                watchdogRunning, level, exported, unfed, fired, off, late, signals, server>>
halVars == <<callers, reading, raw, loaded, smoke_confirmed_state, smoke_debounce_count,
             status, failure_count, sinceFailure, pin, works, streak>>
sessionVars == <<sessions, whole, left, loggedOut>>
pairingVars == <<published, camera, mqtt, request, pending, age, latest, taken,
                 announced, sent>>
vars == <<part, serverVars, halVars, sessionVars, pairingVars>>

Server == INSTANCE ServerLifecycle
Hal == INSTANCE HalSensor
Session == INSTANCE WebSession
Pairing == INSTANCE AlertPairing

Init ==
  /\ part \in {"server", "hal", "session", "pairing"}
  /\ Server!ServerInit /\ Session!SessionInit /\ Pairing!PairingInit
  /\ Hal!HalInit /\ (part = "hal" \/ callers = {"rpc"})

ServerStep ==
  /\ part = "server" /\ Server!ServerNext
  /\ UNCHANGED <<part, halVars, sessionVars, pairingVars>>

HalStep ==
  /\ part = "hal" /\ Hal!HalNext
  /\ UNCHANGED <<part, serverVars, sessionVars, pairingVars>>

SessionStep ==
  /\ part = "session" /\ Session!SessionNext
  /\ UNCHANGED <<part, serverVars, halVars, pairingVars>>

PairingStep ==
  /\ part = "pairing" /\ Pairing!PairingNext
  /\ UNCHANGED <<part, serverVars, halVars, sessionVars>>

Next == ServerStep \/ HalStep \/ SessionStep \/ PairingStep

(* Threads go on when they can and time passes; nobody has to send a        *)
(* request or a signal, and a request may hang.  A cleanup has finitely     *)
(* many steps, so fairness to all cleanups together is fairness to each.    *)
ServerFairness ==
  /\ WF_serverVars(part = "server" /\ Server!FeedThread)
  /\ SF_serverVars(part = "server" /\ Server!ServerMonitor)
  /\ SF_serverVars(part = "server" /\ \E t \in Server!ServerThreads : Server!Cleanup(t))
  /\ SF_serverVars(part = "server" /\ Server!ServerTick)
  /\ \A t \in Served : WF_serverVars(part = "server" /\ Server!Serve(t))

(* The bridge polls the RPC loop, and time passes.  The HTTP thread reads   *)
(* on request only, but finishes what it began.                             *)
HalFairness ==
  /\ WF_halVars(part = "hal" /\ Hal!Use("rpc"))
  /\ WF_halVars(part = "hal" /\ "web" \in callers /\ reading["web"] # "idle" /\ Hal!Use("web"))
  /\ WF_halVars(part = "hal" /\ Hal!World /\ sinceFailure' # sinceFailure)

(* Messages arrive, the service's threads go on.  The bridge owes nothing.  *)
PairingFairness ==
  /\ WF_pairingVars(part = "pairing" /\ Pairing!ReceiveMessage)
  /\ WF_pairingVars(part = "pairing" /\ Pairing!CheckPending)
  /\ WF_pairingVars(part = "pairing" /\ Pairing!PairingTick)
  /\ \A h \in Pairing!Handlers : WF_pairingVars(part = "pairing" /\ Pairing!Handle(h))

Spec == Init /\ [][Next]_vars /\ ServerFairness /\ HalFairness /\ PairingFairness

-----------------------------------------------------------------------------
(* Type correctness of all parts.                                          *)
TypeOK ==
  /\ Server!ServerTypeOK /\ Hal!HalTypeOK /\ Session!SessionTypeOK
  /\ Pairing!PairingTypeOK

(* Both relays are off when the server has exited, unless a request set one *)
(* between its switching off and the giving back of its pin, and the        *)
(* watchdog never ends it.                                                  *)
ExitIsSafe == Server!ExitIsSafe

(* With one caller, three equal reads in a row change the smoke state, and  *)
(* nothing less; the counter never stays at the threshold.                  *)
SmokeIsDebounced == []Hal!CounterIsTaken /\ Hal!ChangeNeedsThreeReads

(* Whoever logged out does not come back with the same token, and a session *)
(* file with too many logins is in order again after the first login that   *)
(* follows a day without any.                                               *)
SessionsAreSound == Session!SessionsAreSound

(* No alert is sent twice, and none whose picture was announced waits for   *)
(* the time-out.                                                            *)
AlertsGoOutOnce == Pairing!AlertsGoOutOnce

(* What has to happen in the end: a signal ends the server, unless it       *)
(* interrupts a thread the cleanup needs; a sensor that works again is used *)
(* again; the last alert is sent, picture or not.                           *)
ServiceGoesOn ==
  /\ Server!SignalEndsServer
  /\ part = "hal" => Hal!SensorRecovers
  /\ Pairing!LastAlertGoesOut

(* The comment of rpc_server.c:416: a hung RPC loop makes the watchdog fire. *)
WatchdogGuardsLoop == Server!WatchdogGuardsLoop
=============================================================================
