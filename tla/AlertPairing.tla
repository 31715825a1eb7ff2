----------------------------- MODULE AlertPairing -----------------------------
(***************************************************************************)
(* Alerts and their pictures, from lesson6/mqtt_bridge.cpp to the service   *)
(* cloud/mqtt_to_influxdb.py, which holds an alert back until a picture     *)
(* comes or 30 seconds are over, and then notifies somebody.                *)
(*                                                                          *)
(* The telemetry thread publishes an alert by MQTT, uploads the picture by  *)
(* HTTP and announces it by MQTT, or, where the upload fails, sends another *)
(* picture by MQTT.  A sensor fault is an alert without a picture.  The     *)
(* service has three threads: HTTP, MQTT and one that looks at the time.    *)
(*                                                                          *)
(* Abstracted: MQTT delivers in order and once.  A picture is the number of *)
(* the alert it was taken for.                                              *)
(***************************************************************************)
EXTENDS Integers, Sequences

CONSTANTS
  MaxAlerts,
  PendingLimit     \* ticks after which an alert goes out without a picture

VARIABLES
  published,       \* the number of the last alert
  camera,          \* the telemetry thread: idle, photo, sending, fall_back
  mqtt,            \* messages under way: [what, alert]
  request,         \* the picture under way by HTTP, or NoPicture
  pending, age,    \* pending_alert (or NoAlert) and its age
  latest,          \* latest_smoke_image
  taken,           \* the alert that the HTTP and the MQTT thread will send; Look: it
                   \* will first look for one
  announced,       \* history: the alerts whose picture was announced
  sent             \* history: pairs of an alert and the picture it was sent with

pairingVars == <<published, camera, mqtt, request, pending, age, latest, taken, announced, sent>>
bridgeSide == <<published, camera, announced>>

NoAlert == 0
NoPicture == 0
Look == -1
Handlers == {"http", "mqtt"}

PairingInit ==
  /\ published = 0 /\ camera = "idle"
  /\ mqtt = <<>> /\ request = NoPicture
  /\ pending = NoAlert /\ age = 0 /\ latest = NoPicture
  /\ taken = [h \in Handlers |-> NoAlert] /\ announced = {} /\ sent = {}

-----------------------------------------------------------------------------
(* The bridge.                                                             *)

(* publish_alert: smoke, followed by a picture, or a sensor fault.          *)
PublishAlert ==
  /\ camera = "idle" /\ published < MaxAlerts
  /\ published' = published + 1 /\ camera' \in {"photo", "idle"}
  /\ mqtt' = Append(mqtt, [what |-> "alert", alert |-> published'])
  /\ UNCHANGED <<request, pending, age, latest, taken, announced, sent>>

(* publish_image_http: the camera may fail.                                 *)
TakePhoto ==
  /\ camera = "photo"
  /\ \/ camera' = "idle" /\ UNCHANGED request
     \/ camera' = "sending" /\ request' = published
     \/ camera' = "fall_back" /\ UNCHANGED request
  /\ UNCHANGED <<published, mqtt, pending, age, latest, taken, announced, sent>>

(* The answer came: the picture is announced.  A request is answered, but   *)
(* the bridge may also give up on it after five seconds.                    *)
AnnouncePhoto ==
  /\ camera = "sending"
  /\ \/ /\ request = NoPicture
        /\ camera' = "idle"
        /\ mqtt' = Append(mqtt, [what |-> "image_uploaded", alert |-> published])
        /\ announced' = announced \cup {published}
     \/ camera' = "fall_back" /\ UNCHANGED <<mqtt, announced>>
  /\ UNCHANGED <<published, request, pending, age, latest, taken, sent>>

(* publish_image: another picture, which may fail too.                      *)
FallBack ==
  /\ camera = "fall_back" /\ camera' = "idle"
  /\ \/ mqtt' = Append(mqtt, [what |-> "image_upload", alert |-> published])
     \/ UNCHANGED mqtt
  /\ UNCHANGED <<published, request, pending, age, latest, taken, announced, sent>>

Bridge == PublishAlert \/ TakePhoto \/ AnnouncePhoto \/ FallBack

-----------------------------------------------------------------------------
(* The service.                                                            *)

(* do_POST stores the picture and answers, then looks for an alert.         *)
ReceivePicture ==
  /\ request # NoPicture /\ taken["http"] = NoAlert
  /\ latest' = request /\ request' = NoPicture
  /\ taken' = [taken EXCEPT !["http"] = Look]
  /\ UNCHANGED <<bridgeSide, mqtt, pending, age, sent>>

(* handle_alert, handle_image_upload and handle_image_uploaded.  A new      *)
(* alert takes the place of one that waits.                                 *)
ReceiveMessage ==
  /\ mqtt # <<>> /\ taken["mqtt"] = NoAlert
  /\ LET m == Head(mqtt) IN
     /\ mqtt' = Tail(mqtt)
     /\ pending' = IF m.what = "alert" THEN m.alert ELSE pending
     /\ age' = IF m.what = "alert" THEN 0 ELSE age
     /\ latest' = IF m.what = "image_upload" THEN m.alert ELSE latest
     /\ taken' = [taken EXCEPT !["mqtt"] =
                    IF \/ m.what = "image_upload"
                       \/ m.what = "image_uploaded" /\ latest # NoPicture
                    THEN Look ELSE @]
  /\ UNCHANGED <<bridgeSide, request, sent>>

(* Mutant: the alert taken stays pending.                                  *)
TakeAlertAndKeep(h) ==
  /\ taken[h] = Look
  /\ taken' = [taken EXCEPT ![h] = pending]
  /\ UNCHANGED <<bridgeSide, mqtt, request, pending, age, latest, sent>>

(* Under pending_lock.                                                     *)
TakeAlert(h) ==
  /\ taken[h] = Look
  /\ taken' = [taken EXCEPT ![h] = pending]
  /\ pending' = NoAlert /\ age' = 0
  /\ UNCHANGED <<bridgeSide, mqtt, request, latest, sent>>

(* send_alert_with_image, without the lock.                                *)
SendAlert(h) ==
  /\ taken[h] > NoAlert
  /\ sent' = sent \cup {<<taken[h], latest>>}
  /\ taken' = [taken EXCEPT ![h] = NoAlert]
  /\ UNCHANGED <<bridgeSide, mqtt, request, pending, age, latest>>

(* check_pending, every three seconds.  It sends under the lock, and with   *)
(* the latest picture, whether a new one was found or not.                  *)
CheckPending ==
  /\ pending # NoAlert /\ age = PendingLimit
  /\ sent' = sent \cup {<<pending, latest>>}
  /\ pending' = NoAlert /\ age' = 0
  /\ UNCHANGED <<bridgeSide, mqtt, request, latest, taken>>

PairingTick ==
  /\ pending # NoAlert /\ age < PendingLimit
  /\ age' = age + 1
  /\ UNCHANGED <<bridgeSide, mqtt, request, pending, latest, taken, sent>>

Handle(h) == TakeAlert(h) \/ SendAlert(h)

PairingNext ==
  \/ Bridge \/ ReceivePicture \/ ReceiveMessage \/ CheckPending \/ PairingTick
  \/ \E h \in Handlers : Handle(h)

PairingSpec == PairingInit /\ [][PairingNext]_pairingVars

-----------------------------------------------------------------------------
Alerts == 1..MaxAlerts
Pictures == 0..MaxAlerts

PairingTypeOK ==
  /\ published \in 0..MaxAlerts /\ camera \in {"idle", "photo", "sending", "fall_back"}
  /\ mqtt \in Seq([what : {"alert", "image_uploaded", "image_upload"}, alert : Alerts])
  /\ request \in Pictures /\ latest \in Pictures
  /\ pending \in 0..MaxAlerts /\ age \in 0..PendingLimit
  /\ taken \in [Handlers -> Alerts \cup {NoAlert, Look}]
  /\ announced \subseteq Alerts /\ sent \subseteq (Alerts \X Pictures)

Notified(a) == \E p \in Pictures : <<a, p>> \in sent

(* The two handlers and the time-out share an alert out between them: it is *)
(* never in the hands of two, nor taken again after it was sent.            *)
EachAlertOnce ==
  /\ \A h \in Handlers : taken[h] > NoAlert => ~Notified(taken[h]) /\ taken[h] # pending
  /\ pending # NoAlert => ~Notified(pending)
  /\ taken["http"] > NoAlert => taken["http"] # taken["mqtt"]

(* An alert that was published goes out in the end, with or without a       *)
(* picture, unless a newer one takes its place.                             *)
LastAlertGoesOut ==
  \A a \in Alerts : published = a ~> Notified(a) \/ published > a

(* An upload that overtakes its alert is not lost: when the announcement    *)
(* has been dealt with, so has the alert, without waiting for the time-out. *)
AnnouncedIsNotHeldBack ==
  \A a \in announced :
    pending = a => \/ \E i \in DOMAIN mqtt : mqtt[i] = [what |-> "image_uploaded", alert |-> a]
                   \/ taken["mqtt"] = Look

(* mqtt_to_influxdb.py:233: an alert always waits for its own picture, so   *)
(* that the old picture of the alert before is not used for it.             *)
NoOldPicture == \A pair \in sent : pair[2] = NoPicture \/ pair[2] >= pair[1]

(* No alert goes out twice, and each as soon as its picture is announced.   *)
AlertsGoOutOnce == EachAlertOnce /\ AnnouncedIsNotHeldBack
=============================================================================
