----------------------------- MODULE SavedSetting -----------------------------
(***************************************************************************)
(* What the state file of the agent promises: the setting that was saved   *)
(* last is the one the agent starts with, whenever it is killed.  That is  *)
(* the auto control of Agent, of which Restart loses what was not saved.   *)
(***************************************************************************)
VARIABLES
  setting,  \* the agent's, or the one it would start with
  saved

settingVars == <<setting, saved>>

Settings == {"auto", "manual"}

Init == setting = "auto" /\ saved = "auto"

Change == setting' \in Settings /\ UNCHANGED saved

Save == saved' = setting /\ UNCHANGED setting

Lose == setting' = saved /\ UNCHANGED saved

Next == Change \/ Save \/ Lose

Spec == Init /\ [][Next]_settingVars
==============================================================================
