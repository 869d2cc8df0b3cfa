--------------------------- MODULE Administration ---------------------------
(****************************************************************************)
(* What admins govern: bans and lists, permissions, and the settings of the *)
(* server. handle_admin_message serves all three, but they share no state   *)
(* of their own, so that a behaviour is about one of them.                  *)
(****************************************************************************)
EXTENDS Moderation, PermissionRules, Globals

VARIABLE topic

vars == <<topic, banVars, permVars, ruleVars, globalVars>>

Init ==
  /\ topic \in {"bans", "permissions", "globals"}
  /\ BanInit /\ PermInit /\ RulesInit /\ GlobalInit

Next ==
  /\ UNCHANGED topic
  /\ \/ topic = "bans" /\ BanNext /\ UNCHANGED <<permVars, ruleVars, globalVars>>
     \/ topic = "permissions" /\ RightsNext /\ UNCHANGED <<banVars, globalVars>>
     \/ topic = "globals" /\ GlobalNext /\ UNCHANGED <<banVars, permVars, ruleVars>>

Spec == Init /\ [][Next]_vars

-----------------------------------------------------------------------------
\* Each part of the state keeps its type.
AdminTypeOK == BansTyped /\ PermsTyped /\ RulesTyped /\ GlobalsTyped

\* Commands on the bans may run in any order and together: a new connection is
\* checked against the list as it is, and the ban of a player leaves it no
\* connection. What the code does not promise is named in the two parts.
BansInForce == IndexesCurrent /\ BannedAreGone

\* Whatever commands run at once, once they are done the files hold the bans, the
\* lists and the permissions, so that a restart loses none, but for saves that
\* failed, or overlapped where nothing locks them: those the parts name.
FilesCurrent == ListsKept /\ StoreKept

\* Each player knows the settings that are in force, the configuration forbids
\* headless clients when they are forbidden, and those are gone then; the parts name
\* what overlapping commands and joins break. The locks are not repeated in the
\* configuration, and this does not say so.
SettingsInForce == SettingsTold /\ ConfigurationAgrees /\ HeadlessAreGone
=============================================================================
