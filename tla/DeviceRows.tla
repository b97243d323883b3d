----------------------------- MODULE DeviceRows -----------------------------
(***************************************************************************)
(* The rows of DeviceModel: one PileDevice per device number, each updated *)
(* under the model's mutex by exactly one of the operators below.  An      *)
(* operator takes the rows and returns the rows, so that the modules that  *)
(* own the rows (SelfCheck, OnlineWatcher) decide which thread calls it    *)
(* and when.                                                               *)
(*                                                                         *)
(*   present   the device is in device_map_                                *)
(*   online    DeviceStatus.online_state                                   *)
(*   checking  is_self_checking_                                           *)
(*   text      current_self_check_desc_                                    *)
(*   last      the self-check last_self_check_ reports, 0 for none         *)
(***************************************************************************)
EXTENDS Naturals

NoRow == [present  |-> FALSE,
          online   |-> "Unknown",
          checking |-> FALSE,
          text     |-> "",
          last     |-> 0]

\* PileDevice::PileDevice: the attributes, and everything else at its default.
FreshRow == [NoRow EXCEPT !.present = TRUE]

\* A known device number is replaced by the new object, not merged with it.
addDevice(rows, d) == [rows EXCEPT ![d] = FreshRow]

\* Every update looks the device up first and ignores an unknown one.
OnKnown(rows, d, row) ==
  IF rows[d].present THEN [rows EXCEPT ![d] = row] ELSE rows

updateSelfCheck(rows, d, result) ==
  OnKnown(rows, d, [rows[d] EXCEPT !.last = result])

updateSelfCheckProgress(rows, d, desc, isChecking) ==
  OnKnown(rows, d, [rows[d] EXCEPT !.text = desc, !.checking = isChecking])

\* Mutant of updateOnlineStatus: the row keeps the text of the field.
updateOnlineText(rows, d, isOnline) ==
  OnKnown(rows, d,
          [rows[d] EXCEPT !.online = IF isOnline THEN "true" ELSE "false"])

updateOnlineStatus(rows, d, isOnline) ==
  OnKnown(rows, d,
          [rows[d] EXCEPT !.online = IF isOnline THEN "Online" ELSE "Offline"])

IsOnline(row) == row.online = "Online"
=============================================================================
