------------------------------- MODULE MCComponents -------------------------------
(* The helper's client, the helper's watchdog, the session history, the state files and    *)
(* the host's sessions, one instance of each.  They share no state, so the component       *)
(* chosen at the start moves and the others stay as they began.  Two Moonlight clients and *)
(* a browser, of which two come; two threads that give commands to the helper; the history *)
(* of one session; two launches watched; two changes of the tokens.                        *)
EXTENDS HelperClient, HelperWatchdog, SessionHistory, StateFiles, HostSessions

CONSTANTS phone, tv, laptop, webapi, launcher, recorded
VARIABLE component

MCCallers == {webapi, launcher}
MCSessions == {recorded}
MCClients == {phone, tv}
MCBrowsers == {laptop}
MCSymmetry == Permutations({phone, tv}) \cup Permutations({webapi, launcher})

ComponentsInit ==
    /\ component \in {"client", "watchdog", "history", "files", "sessions"}
    /\ ClientInit /\ WatchdogInit /\ HistoryInit /\ StateFilesInit /\ HostSessionsInit
    /\ component # "files" => disk = [old |-> Contents("ok", 1), new |-> Contents("missing", 0)]

ComponentsNext ==
    /\ UNCHANGED component
    /\ \/ component = "client" /\ ClientNext
          /\ UNCHANGED <<watchdogVars, historyVars, stateFileVars, hostSessionVars>>
       \/ component = "watchdog" /\ WatchdogNext
          /\ UNCHANGED <<clientVars, historyVars, stateFileVars, hostSessionVars>>
       \/ component = "history" /\ HistoryNext
          /\ UNCHANGED <<clientVars, watchdogVars, stateFileVars, hostSessionVars>>
       \/ component = "files" /\ StateFilesNext
          /\ UNCHANGED <<clientVars, watchdogVars, historyVars, hostSessionVars>>
       \/ component = "sessions" /\ HostSessionsNext
          /\ UNCHANGED <<clientVars, watchdogVars, historyVars, stateFileVars>>

Spec ==
    /\ ComponentsInit
    /\ [][ComponentsNext]_<<component, clientVars, watchdogVars, historyVars, stateFileVars, hostSessionVars>>

================================================================================
