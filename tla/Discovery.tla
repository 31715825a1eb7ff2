------------------------------ MODULE Discovery ------------------------------
(***************************************************************************)
(* device_discovery.c: one thread of the program starts and stops the       *)
(* search, a listener and a broadcaster run in between, and anybody may     *)
(* register a device, take one out, or drop those that have been silent.    *)
(* Several datagrams that wait in the socket are one; what they say about a *)
(* device beside its ID is left out, and so are failing sockets.            *)
(***************************************************************************)
EXTENDS Naturals, Sequences, FiniteSets

CONSTANTS
  Ids,             \* the devices on the network
  MaxDevices,      \* DISCOVERY_MAX_DEVICES, 32
  DeviceTimeout    \* 30 s; here ticks

VARIABLES
  g_initialized, g_running,
  g_devices, silent,       \* the table, and now - last_seen of each device
  listener, broadcaster,   \* where each thread is; off: not created or joined
  heard,                   \* the ID in the listener's buffer
  datagram,                \* what waits in the socket: Nothing, Discover or an ID
  socket,                  \* open or closed
  app                      \* where the program is in discovery_stop or _cleanup

discoveryVars == <<g_initialized, g_running, g_devices, silent, listener, broadcaster,
                   heard, datagram, socket, app>>
table == <<g_devices, silent>>
threads == <<listener, broadcaster, heard, datagram>>

Nothing == "nothing"
Discover == "DISCOVER"   \* what this program broadcasts; it has no ID
Listed(id) == \E i \in DOMAIN g_devices : g_devices[i] = id

DiscoveryInit ==
  /\ g_initialized = FALSE /\ g_running = FALSE /\ socket = "closed" /\ app = "idle"
  /\ g_devices = <<>> /\ silent = [id \in Ids |-> 0]
  /\ listener = "off" /\ broadcaster = "off"
  /\ heard = Nothing /\ datagram = Nothing

(* discovery_init                                                          *)
Initialize ==
  /\ app = "idle" /\ ~g_initialized
  /\ g_initialized' = TRUE /\ socket' = "open" /\ g_devices' = <<>>
  /\ UNCHANGED <<g_running, silent, threads, app>>

(* discovery_start                                                         *)
Begin ==
  /\ app = "idle" /\ g_initialized /\ ~g_running
  /\ g_running' = TRUE /\ listener' = "check" /\ broadcaster' = "check"
  /\ UNCHANGED <<g_initialized, table, heard, datagram, socket, app>>

(* discovery_stop, called by itself or by discovery_cleanup: it waits for   *)
(* the two threads.                                                        *)
Finish(call) == IF call = "cleanup" THEN "close" ELSE "idle"

(* Mutant: the threads are not joined.                                     *)
EndUnjoined(call) ==
  /\ app = "idle" /\ g_initialized
  /\ g_running' = FALSE /\ app' = Finish(call)
  /\ UNCHANGED <<g_initialized, table, threads, socket>>

End(call) ==
  /\ app = "idle" /\ g_initialized
  /\ g_running' = FALSE
  /\ app' = IF g_running THEN call ELSE Finish(call)
  /\ UNCHANGED <<g_initialized, table, threads, socket>>

Join ==
  /\ app \in {"stop", "cleanup"} /\ listener = "ended" /\ broadcaster = "ended"
  /\ listener' = "off" /\ broadcaster' = "off" /\ app' = Finish(app)
  /\ UNCHANGED <<g_initialized, g_running, table, heard, datagram, socket>>

(* The rest of discovery_cleanup.                                          *)
Close ==
  /\ app = "close"
  /\ socket' = "closed" /\ datagram' = Nothing
  /\ g_devices' = <<>> /\ g_initialized' = FALSE /\ app' = "idle"
  /\ UNCHANGED <<g_running, silent, listener, broadcaster, heard>>

-----------------------------------------------------------------------------
(* listen_thread_func: look at g_running, wait for a datagram, record it.   *)
Listen ==
  /\ listener = "check" /\ listener' = IF g_running THEN "receive" ELSE "ended"
  /\ UNCHANGED <<g_initialized, g_running, table, broadcaster, heard, datagram, socket, app>>

Receive ==
  /\ listener = "receive" /\ datagram # Nothing
  /\ heard' = datagram /\ datagram' = Nothing
  /\ listener' = IF datagram = Discover THEN "check" ELSE "record"
  /\ UNCHANGED <<g_initialized, g_running, table, broadcaster, socket, app>>

Insert(id) ==
  /\ g_devices' = Append(g_devices, id)
  /\ silent' = [silent EXCEPT ![id] = 0]

Record ==
  /\ listener = "record" /\ listener' = "check"
  /\ \/ Listed(heard) /\ silent' = [silent EXCEPT ![heard] = 0] /\ UNCHANGED g_devices
     \/ ~Listed(heard) /\ Len(g_devices) < MaxDevices /\ Insert(heard)
     \/ ~Listed(heard) /\ Len(g_devices) = MaxDevices /\ UNCHANGED table
  /\ UNCHANGED <<g_initialized, g_running, broadcaster, heard, datagram, socket, app>>

(* broadcast_thread_func; what it sends may come back to the same socket.   *)
Broadcast ==
  /\ \/ /\ broadcaster = "check" /\ g_running /\ broadcaster' = "sleep"
        /\ datagram' \in {datagram, IF datagram = Nothing THEN Discover ELSE datagram}
     \/ /\ broadcaster = "check" /\ ~g_running /\ broadcaster' = "ended"
        /\ UNCHANGED datagram
     \/ broadcaster = "sleep" /\ broadcaster' = "check" /\ UNCHANGED datagram
  /\ UNCHANGED <<g_initialized, g_running, table, listener, heard, socket, app>>

(* Another device says who it is.                                          *)
Announce(id) ==
  /\ socket = "open" /\ datagram = Nothing /\ datagram' = id
  /\ UNCHANGED <<g_initialized, g_running, table, listener, broadcaster, heard, socket, app>>

-----------------------------------------------------------------------------
(* discovery_register                                                      *)
Register(id) ==
  /\ g_initialized /\ ~Listed(id) /\ Len(g_devices) < MaxDevices
  /\ Insert(id)
  /\ UNCHANGED <<g_initialized, g_running, threads, socket, app>>

(* The loops that close the gaps a removal leaves: the entries kept move    *)
(* up, in their order.                                                      *)
KeepOnly(kept) ==
  \E from \in [1..Cardinality(kept) -> kept] :
    /\ \A i, j \in DOMAIN from : i < j => from[i] < from[j]
    /\ g_devices' = [i \in DOMAIN from |-> g_devices[from[i]]]

Unregister(id) ==
  /\ g_initialized /\ Listed(id)
  /\ KeepOnly({i \in DOMAIN g_devices : g_devices[i] # id})
  /\ silent' = [silent EXCEPT ![id] = 0]
  /\ UNCHANGED <<g_initialized, g_running, threads, socket, app>>

(* discovery_cleanup_timeout                                               *)
DropSilent ==
  /\ g_initialized
  /\ KeepOnly({i \in DOMAIN g_devices : silent[g_devices[i]] <= DeviceTimeout})
  /\ silent' = [id \in Ids |-> IF silent[id] <= DeviceTimeout THEN silent[id] ELSE 0]
  /\ UNCHANGED <<g_initialized, g_running, threads, socket, app>>

DiscoveryTick ==
  /\ silent' = [id \in Ids |-> IF Listed(id) /\ silent[id] <= DeviceTimeout
                               THEN silent[id] + 1 ELSE silent[id]]
  /\ UNCHANGED <<g_initialized, g_running, g_devices, threads, socket, app>>

Listener == Listen \/ Receive \/ Record

DiscoveryNext ==
  \/ Initialize \/ Begin \/ End("stop") \/ End("cleanup") \/ Join \/ Close
  \/ Listener \/ Broadcast \/ DropSilent \/ DiscoveryTick
  \/ \E id \in Ids : Announce(id) \/ Register(id) \/ Unregister(id)

-----------------------------------------------------------------------------
DiscoveryTypeOK ==
  /\ {g_initialized, g_running} \subseteq BOOLEAN
  /\ g_devices \in Seq(Ids) /\ Len(g_devices) <= MaxDevices
  /\ silent \in [Ids -> 0..DeviceTimeout + 1]
  /\ listener \in {"off", "check", "receive", "record", "ended"}
  /\ broadcaster \in {"off", "check", "sleep", "ended"}
  /\ heard \in Ids \cup {Nothing, Discover} /\ datagram \in Ids \cup {Nothing, Discover}
  /\ socket \in {"open", "closed"} /\ app \in {"idle", "stop", "cleanup", "close"}

(* No thread uses the socket after discovery_cleanup closed it, and none is *)
(* left over when the search starts again.                                  *)
SocketOutlivesThreads ==
  socket = "closed" \/ (app = "idle" /\ ~g_running) => listener = "off" /\ broadcaster = "off"

(* Whoever puts a device in or takes one out, the table names it once.      *)
EachDeviceOnce ==
  \A i, j \in DOMAIN g_devices : g_devices[i] = g_devices[j] => i = j

(* discovery_stop returns, provided that other devices never stop sending:  *)
(* the listener looks at g_running only after a datagram.                   *)
StopReturns ==
  []<>(datagram \in Ids) => (app # "idle" ~> app = "idle")

(* The search ends after its threads and keeps a table without doubles.     *)
SearchIsSafe == SocketOutlivesThreads /\ EachDeviceOnce
==============================================================================
