----------------------------- MODULE MCSystemApps -----------------------------
(* The product's apps, for TLC. *)
EXTENDS SystemApps, TLC

ProductApps == {"clock", "info", "settings", "wifi_setup", "clock_settings",
                "touch_calibration", "settings_pin", "recovery"}
=============================================================================
