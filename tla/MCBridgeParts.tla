---------------------------- MODULE MCBridgeParts ----------------------------
(***************************************************************************)
(* The parts of the bridge that share no state with each other, side by     *)
(* side: the life of the process, the fusion score, the lamp, updates, the  *)
(* search for devices, and a memory pool.  One of them moves in each        *)
(* behaviour, and since no variable of one occurs in another, that is all   *)
(* their interleavings could show.                                          *)
(***************************************************************************)
EXTENDS Naturals

CONSTANTS
  WatchdogTimeout, Signals, Temps, Checksums, Ids, MaxDevices, DeviceTimeout, Users,
  BlockCount

VARIABLES
  part,
  at, holder, queue, running, cmd_worker_running, cancelled, inHandler, signalsLeft,
  sinceFeed, saved, upgradeHeld, process,
  hour, sources, accum, signalAge, lastTemp, lastLight, scoreAge, fan_toggled_recently,
  ai, aiAge, fire, fireAge, evidenceAge, smokeRounds, lightRounds,
  disturbed, light, pir, lamp, led_state, offTimer, telemetry, worker, absent, overlooked,
  current, backup, download, ota_upgrading, state, upgrade, rollback, checksum, up,
  gambled,
  g_initialized, g_running, g_devices, silent, listener, broadcaster, heard, datagram,
  socket, app,
  active, free_list, next, free_blocks, poolLock, doing, node, held, astray

lifeVars == <<at, holder, queue, running, cmd_worker_running, cancelled, inHandler,
              signalsLeft, sinceFeed, saved, upgradeHeld, process>>
fusionVars == <<hour, sources, accum, signalAge, lastTemp, lastLight, scoreAge,
                fan_toggled_recently, ai, aiAge, fire, fireAge, evidenceAge, smokeRounds,
                lightRounds>>
lampVars == <<disturbed, light, pir, lamp, led_state, offTimer, telemetry, worker,
              absent, overlooked>>
otaVars == <<current, backup, download, ota_upgrading, state, upgrade, rollback,
             checksum, up, gambled>>
searchVars == <<g_initialized, g_running, g_devices, silent, listener, broadcaster,
                heard, datagram, socket, app>>
poolVars == <<active, free_list, next, free_blocks, poolLock, doing, node, held, astray>>
vars == <<part, lifeVars, fusionVars, lampVars, otaVars, searchVars, poolVars>>

(* Hours with the sources that vary in them; the others rest.               *)
Scene(h, s) == [hour |-> h, sources |-> s]
Scenes ==
  {Scene(h, {"smoke", "presence"}) : h \in {"night", "work", "evening", "other"}}
    \cup {Scene("night", {"light", "presence"}), Scene("evening", {"light", "presence"}),
          Scene("evening", {"ai"}), Scene("evening", {"ai_unsure"}),
          Scene("work", {"smoke", "relay"}), Scene("work", {"light"}),
          Scene("other", {"heat"})}
SceneAtRest == Scene("work", {"light"})

Life == INSTANCE BridgeLifecycle
Fusion == INSTANCE FusionScore
Lamp == INSTANCE LightControl
Ota == INSTANCE OtaManager
Search == INSTANCE Discovery
Pool == INSTANCE MemoryPool

Init ==
  /\ part \in {"life", "fusion", "lamp", "ota", "search", "pool"}
  /\ Life!LifecycleInit /\ Ota!OtaInit /\ Search!DiscoveryInit /\ Pool!PoolInit
  /\ Fusion!FusionInit /\ (part = "fusion" \/ Scene(hour, sources) = SceneAtRest)
  /\ Lamp!LampInit /\ (part = "lamp" \/ ~disturbed)

LifeStep ==
  /\ part = "life" /\ Life!LifecycleNext
  /\ UNCHANGED <<part, fusionVars, lampVars, otaVars, searchVars, poolVars>>

FusionStep ==
  /\ part = "fusion" /\ Fusion!FusionNext
  /\ UNCHANGED <<part, lifeVars, lampVars, otaVars, searchVars, poolVars>>

LampStep ==
  /\ part = "lamp" /\ Lamp!LampNext
  /\ UNCHANGED <<part, lifeVars, fusionVars, otaVars, searchVars, poolVars>>

OtaStep ==
  /\ part = "ota" /\ Ota!OtaNext
  /\ UNCHANGED <<part, lifeVars, fusionVars, lampVars, searchVars, poolVars>>

SearchStep ==
  /\ part = "search" /\ Search!DiscoveryNext
  /\ UNCHANGED <<part, lifeVars, fusionVars, lampVars, otaVars, poolVars>>

PoolStep ==
  /\ part = "pool" /\ Pool!PoolNext
  /\ UNCHANGED <<part, lifeVars, fusionVars, lampVars, otaVars, searchVars>>

Next == LifeStep \/ FusionStep \/ LampStep \/ OtaStep \/ SearchStep \/ PoolStep

(* Every thread goes on when it can, a mutex is handed out without          *)
(* starving anybody, calls return, time passes.  No message has to arrive   *)
(* and no signal; the start may fail; an upgrade may never end.             *)
LifeFairness ==
  /\ SF_lifeVars(part = "life" /\ Life!Main) /\ SF_lifeVars(part = "life" /\ Life!Worker)
  /\ WF_lifeVars(part = "life" /\ (Life!Telemetry \/ Life!Cancelled))
  /\ WF_lifeVars(part = "life" /\ Life!Send) /\ WF_lifeVars(part = "life" /\ Life!Monitor)
  /\ SF_lifeVars(part = "life" /\ Life!Tick)
  /\ SF_lifeVars(part = "life" /\ \E t \in Life!Threads : Life!Handler(t))

(* The telemetry thread goes from round to round.                           *)
LampFairness ==
  /\ WF_lampVars(part = "lamp" /\ Lamp!LampRound)
  /\ WF_lampVars(part = "lamp" /\ Lamp!StoreLedState)

(* Commands that download, compare or copy return.                          *)
OtaFairness == WF_otaVars(part = "ota" /\ Ota!Upgrade)

(* The two threads go on and a stop joins them; no datagram has to arrive.  *)
SearchFairness ==
  /\ WF_searchVars(part = "search" /\ Search!Listener)
  /\ WF_searchVars(part = "search" /\ Search!Broadcast)
  /\ WF_searchVars(part = "search" /\ (Search!Join \/ Search!Close))

Spec ==
  /\ Init /\ [][Next]_vars
  /\ LifeFairness /\ LampFairness /\ OtaFairness /\ SearchFairness

-----------------------------------------------------------------------------
(* Type correctness of all parts.                                          *)
TypeOK ==
  /\ Life!LifecycleTypeOK /\ Fusion!FusionTypeOK /\ Lamp!LampTypeOK /\ Ota!OtaTypeOK
  /\ Search!DiscoveryTypeOK /\ Pool!PoolTypeOK

(* The command worker never uses a queue that was freed; the watchdog ends  *)
(* no bridge that runs, and a shutdown only for a deadlock or an upgrade    *)
(* that was waited for, with the backlog on disk unless a mutex was         *)
(* stranded.                                                                *)
EndIsOrderly == Life!EndIsOrderly


(* Presence alone raises no fire alarm; light alone does, but not before it *)
(* scored in twelve rounds at work or six times in an evening; smoke that   *)
(* lasts three rounds does; and after the first strong signal, no sign of   *)
(* fire older than a minute does.                                           *)
AlarmsMeanFire == Fusion!AlarmsMeanFire

(* The lamp goes off only after 30 seconds without anybody, those that the  *)
(* light hides left aside.                                                  *)
LampFollowsPresence == Lamp!OffNeedsAbsence

(* Through updates, rollbacks and power cuts one whole image survives, if   *)
(* none was installed unchecked and none copied from a torn one.            *)
UpgradeIsSafe == Ota!UpgradeIsSafe

(* No thread of the search uses its socket after the cleanup, and the table *)
(* names each device once.                                                  *)
SearchIsSafe == Search!SearchIsSafe

(* Each block is free, with one user, or on its way back.                   *)
EachBlockOnce == Pool!EachBlockOnce
=============================================================================
