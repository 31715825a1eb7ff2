------------------------------ MODULE OtaManager ------------------------------
(***************************************************************************)
(* Firmware upgrade and rollback, lesson6/ota_manager.c.  The command       *)
(* worker calls ota_start_upgrade and ota_rollback; an upgrade runs in a    *)
(* thread of its own.  Files are copied over one another by cp, which may   *)
(* fail half-way, and the process may end at any moment: a power cut, the   *)
(* watchdog, or the restart that a success asks for.                        *)
(*                                                                          *)
(* Abstracted: a file is an image: the old one, the new one, a bad one      *)
(* (not what was announced), torn (a part, or nothing while cp begins       *)
(* anew), or none.  Version, progress and the state file, which nobody      *)
(* reads back, are left out.                                                *)
(***************************************************************************)
EXTENDS Integers

CONSTANT Checksums   \* what an upgrade may come with: "none", "md5", "sha256"

VARIABLES
  current, backup, download,   \* OTA_CURRENT_PATH, OTA_BACKUP_PATH, OTA_DOWNLOAD_PATH
  ota_upgrading, state,        \* the flag, and ota_status.state with its message
  upgrade, rollback,           \* where the upgrade thread is, and the worker
  checksum,                    \* that of the upgrade under way
  up,                          \* the process runs
  gambled          \* history: an image was installed unchecked, or one that is
                   \* not whole was copied over the other

otaVars == <<current, backup, download, ota_upgrading, state, upgrade, rollback,
             checksum, up, gambled>>
files == <<current, backup, download>>

Whole(image) == image \in {"old", "new"}

OtaInit ==
  /\ current = "old" /\ backup = "none" /\ download = "none"
  /\ ota_upgrading = FALSE /\ state = "IDLE"
  /\ upgrade = "none" /\ rollback = "none" /\ checksum = "none"
  /\ up = TRUE /\ gambled = FALSE

Upgrades(from, to) == up /\ upgrade = from /\ upgrade' = to
RollsBack(from, to) == up /\ rollback = from /\ rollback' = to

-----------------------------------------------------------------------------
(* ota_start_upgrade, called by the worker when it is not in a rollback.    *)
StartUpgrade ==
  /\ rollback = "none" /\ ~ota_upgrading
  /\ Upgrades("none", "download")
  /\ ota_upgrading' = TRUE /\ state' = "DOWNLOADING"
  /\ checksum' \in Checksums
  /\ UNCHANGED <<files, rollback, up, gambled>>


(* The thread ends with an error and clears the flag.                      *)
Fail(from, why) ==
  /\ Upgrades(from, "none")
  /\ ota_upgrading' = FALSE /\ state' = why
  /\ download' = IF why = "Download_failed" THEN "torn" ELSE "none"
  /\ UNCHANGED <<current, backup, rollback, checksum, up, gambled>>

Download ==
  \/ Fail("download", "Download_failed")
  \/ /\ Upgrades("download", IF checksum = "none" THEN "back_up" ELSE "verify")
     /\ download' \in {"new", "bad"} /\ state' = "VERIFYING"
     /\ UNCHANGED <<current, backup, ota_upgrading, rollback, checksum, up, gambled>>

(* verify_checksum.  The command handler keeps OTA_CHECKSUM_MAX_LEN - 1      *)
(* digits of the checksum announced; a SHA-256 has one more.                *)
Matches == download = "new" /\ checksum # "sha256"

Verify ==
  \/ ~Matches /\ Fail("verify", "Checksum_mismatch")
  \/ /\ Matches /\ Upgrades("verify", "back_up")
     /\ UNCHANGED <<files, ota_upgrading, state, rollback, checksum, up, gambled>>

(* A copy under way leaves its target torn.                                *)
BeginCopies ==
  /\ \/ /\ Upgrades("back_up", "backing_up") /\ backup' = "torn"
        /\ gambled' = (gambled \/ ~Whole(current)) /\ UNCHANGED <<current, rollback>>
     \/ /\ Upgrades("install", "installing") /\ current' = "torn"
        /\ gambled' = (gambled \/ checksum = "none") /\ UNCHANGED <<backup, rollback>>
     \/ /\ Upgrades("restore", "restoring") /\ current' = "torn"
        /\ UNCHANGED <<backup, rollback, gambled>>
     \/ /\ RollsBack("roll_back", "rolling_back") /\ current' = "torn"
        /\ gambled' = (gambled \/ ~Whole(backup)) /\ UNCHANGED <<backup, upgrade>>
  /\ UNCHANGED <<download, ota_upgrading, state, checksum, up>>

(* backup_current_firmware                                                 *)
Backup ==
  \/ /\ Upgrades("backing_up", "install")
     /\ backup' = current /\ state' = "INSTALLING"
     /\ UNCHANGED <<current, download, ota_upgrading, rollback, checksum, up, gambled>>
  \/ Fail("back_up", "Backup_failed")
  \/ Fail("backing_up", "Backup_failed")

(* install_firmware.  A success asks for the restart, which comes when it   *)
(* comes; the flag is cleared before.                                       *)
Install ==
  /\ \/ /\ Upgrades("installing", "none")
        /\ current' = download /\ download' = "none"
        /\ ota_upgrading' = FALSE /\ state' = "REBOOTING"
     \/ /\ \E from \in {"install", "installing"} : Upgrades(from, "restore")
        /\ UNCHANGED <<current, download, ota_upgrading, state>>
  /\ UNCHANGED <<backup, rollback, checksum, up, gambled>>

(* The backup copied back; whether that works, nobody asks.                 *)
Restore ==
  \/ \E from \in {"restore", "restoring"} : Fail(from, "Install_failed_rolled_back")
  \/ /\ Upgrades("restoring", "none")
     /\ current' = backup /\ download' = "none"
     /\ ota_upgrading' = FALSE /\ state' = "Install_failed_rolled_back"
     /\ UNCHANGED <<backup, rollback, checksum, up, gambled>>

-----------------------------------------------------------------------------
(* Mutant: a rollback starts in the middle of an upgrade.                  *)
RollbackAnyway ==
  /\ backup # "none"
  /\ RollsBack("none", "roll_back")
  /\ state' = "ROLLBACK"
  /\ UNCHANGED <<files, ota_upgrading, upgrade, checksum, up, gambled>>

(* ota_rollback, on the worker: it asks whether there is a backup, not what *)
(* it is worth.                                                             *)
StartRollback ==
  /\ ~ota_upgrading /\ backup # "none"
  /\ RollsBack("none", "roll_back")
  /\ state' = "ROLLBACK"
  /\ UNCHANGED <<files, ota_upgrading, upgrade, checksum, up, gambled>>

EndRollback ==
  /\ \/ /\ RollsBack("rolling_back", "none")
        /\ current' = backup /\ state' = "REBOOTING"
     \/ /\ \E from \in {"roll_back", "rolling_back"} : RollsBack(from, "none")
        /\ state' = "Rollback_failed" /\ UNCHANGED current
  /\ UNCHANGED <<backup, download, ota_upgrading, upgrade, checksum, up, gambled>>

(* The process ends, and is started again if there is something to start:   *)
(* ota_init.                                                                *)
End ==
  /\ up /\ up' = FALSE
  /\ upgrade' = "none" /\ rollback' = "none" /\ download' = "none"
  /\ ota_upgrading' = FALSE /\ state' = "IDLE" /\ checksum' = "none"
  /\ UNCHANGED <<current, backup, gambled>>

Start ==
  /\ ~up /\ Whole(current) /\ up' = TRUE
  /\ UNCHANGED <<files, ota_upgrading, state, upgrade, rollback, checksum, gambled>>

Upgrade == Download \/ Verify \/ BeginCopies \/ Backup \/ Install \/ Restore

OtaNext ==
  \/ StartUpgrade \/ Upgrade \/ StartRollback \/ EndRollback \/ End \/ Start

-----------------------------------------------------------------------------
OtaTypeOK ==
  /\ {current, backup, download} \subseteq {"old", "new", "bad", "torn", "none"}
  /\ {ota_upgrading, up, gambled} \subseteq BOOLEAN
  /\ state \in {"IDLE", "DOWNLOADING", "VERIFYING", "INSTALLING", "REBOOTING", "ROLLBACK",
                "Download_failed", "Checksum_mismatch", "Backup_failed",
                "Install_failed_rolled_back", "Rollback_failed"}
  /\ upgrade \in {"none", "download", "verify", "back_up", "backing_up", "install",
                  "installing", "restore", "restoring"}
  /\ rollback \in {"none", "roll_back", "rolling_back"}
  /\ checksum \in Checksums \cup {"none"}

(* Whenever the process ends or a copy fails, a whole image is left, to run *)
(* or to go back to.  Three things break this: an image installed without a *)
(* checksum, a backup made of an image that is not whole (a failed install  *)
(* whose restoring failed too, then another upgrade), and a rollback to a   *)
(* backup that is not whole.                                                *)
OneImageSurvives == ~gambled => Whole(current) \/ Whole(backup)

(* An upgrade and a rollback never copy at the same time.                   *)
OneAtATime == upgrade = "none" \/ rollback = "none"

(* However an upgrade fails, it does not keep the next one from starting.   *)
UpgradeEnds == ota_upgrading ~> ~ota_upgrading

(* An upgrade and a rollback never cost the last whole image.               *)
UpgradeIsSafe == OneImageSurvives /\ OneAtATime
=============================================================================
