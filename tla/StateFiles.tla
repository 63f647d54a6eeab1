-------------------------------- MODULE StateFiles --------------------------------
(* The host's state on disk (state_storage.cpp, file_handler.cpp) as the API tokens of the *)
(* web UI see it (http_auth.cpp): the tokens once lived in sunshine_state.json, which the  *)
(* pairing code rewrites (nvhttp.cpp, save_state), and move to vibeshine_state.json the    *)
(* first time a process touches either.  The host may die between any two writes.  A value *)
(* of the key "api_tokens" is a version number; 0 is a key that is not there.  Every        *)
(* read-modify-write below is one critical section of state_mutex.                        *)
EXTENDS Naturals

CONSTANTS
    MaxSaves,   \* bound: changes of the tokens
    MaxCrashes, \* bound: deaths of the host
    MaxIoFaults \* bound: files that cannot be read, or replaced, when they are touched

ASSUME StateFilesAssumption == {MaxSaves, MaxCrashes, MaxIoFaults} \subseteq Nat

VARIABLES
    disk,    \* the two files: missing, corrupt or ok, and the key's value
    tokens,  \* how far the process is; _api_tokens; the tree that the migration builds
    storage  \* the versions so far, the last one saved, crashes, faults, and whether a fault fell into a gap

stateFileVars == <<disk, tokens, storage>>

Contents(status, version) == [status |-> status, version |-> version]
Blank == {Contents("missing", 0), Contents("corrupt", 0), Contents("ok", 0)}
Has(file) == file.version # 0

StateFilesInit ==
    /\ disk \in [old : Blank \cup {Contents("ok", 1)}, new : Blank \cup {Contents("ok", 2)}]
    /\ tokens = [at |-> "starting", known |-> 0, tree |-> 0]
    /\ storage = [versions |-> 2, saved |-> IF Has(disk.new) THEN disk.new.version ELSE disk.old.version,
                  crashes |-> 0, faults |-> 0, gap |-> FALSE]

Faulty(gap) ==
    /\ storage.faults < MaxIoFaults
    /\ storage' = [storage EXCEPT !.faults = @ + 1, !.gap = @ \/ gap]

(* load_tree_for_update: malformed JSON is moved aside and counts as a missing file.       *)
Quarantined(file) == IF file.status = "corrupt" THEN Contents("missing", 0) ELSE file

(* migrate_recent_state_keys: both files are read; what the new one lacks is added to it,   *)
(* then the keys are erased from the old one.  It runs once in a process.                 *)
MigrationReads ==
    /\ tokens.at = "starting"
    /\ LET old == Quarantined(disk.old)
           new == Quarantined(disk.new) IN
       \/ /\ tokens' = [tokens EXCEPT !.at = CASE ~Has(old) -> "migrated"
                                               [] Has(old) /\ ~Has(new) -> "adding"
                                               [] OTHER -> "erasing",
                                      !.tree = IF Has(new) THEN new.version ELSE old.version]
          /\ \/ disk' = [old |-> old, new |-> new] /\ UNCHANGED storage
             \/ /\ "corrupt" \in {disk.old.status, disk.new.status} \* it cannot be moved aside
                /\ Faulty(FALSE) /\ UNCHANGED disk
       \/ /\ Faulty(TRUE)
          /\ disk' \in {disk, [disk EXCEPT !.old = old]} \* the old file is read first
          /\ tokens' = [tokens EXCEPT !.at = "migrated"]

(* write_tree: a temporary file replaces the file in one step, or not at all.              *)
MigrationAdds ==
    /\ tokens.at = "adding"
    /\ tokens' = [tokens EXCEPT !.at = "erasing"]
    /\ \/ disk' = [disk EXCEPT !.new = Contents("ok", tokens.tree)] /\ UNCHANGED storage
       \/ Faulty(TRUE) /\ UNCHANGED disk

MigrationErases ==
    /\ tokens.at = "erasing"
    /\ tokens' = [tokens EXCEPT !.at = "migrated"]
    /\ \/ disk' = [disk EXCEPT !.old = Contents("ok", 0)] /\ UNCHANGED storage
       \/ Faulty(FALSE) /\ UNCHANGED disk

MistakeMigration ==
    \/ MigrationReads
    \/ /\ tokens.at = "adding" /\ disk.old.version # 0
       /\ disk' = [disk EXCEPT !.old = Contents("ok", 0)]
       /\ UNCHANGED <<tokens, storage>>
    \/ disk.old.version = 0 /\ MigrationAdds
    \/ MigrationErases
Migration == MigrationReads \/ MigrationAdds \/ MigrationErases

(* load_api_tokens, when the web server starts.                                           *)
LoadTokens ==
    /\ tokens.at = "migrated"
    /\ \/ tokens' = [tokens EXCEPT !.at = "serving", !.known = disk.new.version] /\ UNCHANGED storage
       \/ tokens' = [tokens EXCEPT !.at = "serving", !.known = 0] /\ Faulty(TRUE)
    /\ UNCHANGED disk

(* create_api_token and revoke_api_token_by_hash change the map, then save_api_tokens      *)
(* reads the file, puts the key and replaces the file; it refuses after a failed read.     *)
SaveTokens ==
    /\ tokens.at = "serving" /\ storage.versions < MaxSaves + 2
    /\ LET version == storage.versions + 1 IN
       /\ tokens' = [tokens EXCEPT !.known = version]
       /\ \/ /\ disk.new.status # "corrupt"
             /\ disk' = [disk EXCEPT !.new = Contents("ok", version)]
             /\ storage' = [storage EXCEPT !.versions = version, !.saved = version]
          \/ /\ disk.new.status = "corrupt"
             /\ storage' = [storage EXCEPT !.versions = version]
             /\ UNCHANGED disk
          \/ /\ storage.faults < MaxIoFaults
             /\ storage' = [storage EXCEPT !.versions = version, !.faults = @ + 1]
             /\ UNCHANGED disk

(* save_state, of a pairing thread: the root of the old file is built anew, then a version  *)
(* that was notified is put into the new file.                                            *)
SaveState ==
    /\ tokens.at \in {"migrated", "serving"}
    /\ disk.old.status # "corrupt"
    /\ UNCHANGED tokens
    /\ LET old == Contents("ok", 0)
           new == IF disk.new.status = "missing" THEN Contents("ok", 0) ELSE disk.new IN
       \/ disk' = [old |-> old, new |-> new] /\ UNCHANGED storage
       \/ disk' = [disk EXCEPT !.old = old] /\ Faulty(FALSE)

HostDies ==
    /\ storage.crashes < MaxCrashes
    /\ tokens' = [at |-> "starting", known |-> 0, tree |-> 0]
    /\ storage' = [storage EXCEPT !.crashes = @ + 1]
    /\ UNCHANGED disk

StateFilesNext == Migration \/ LoadTokens \/ SaveTokens \/ SaveState \/ HostDies
StateFilesSpec == StateFilesInit /\ [][StateFilesNext]_stateFileVars

--------------------------------------------------------------------------------
(* The tokens that were saved last are on disk, wherever the host dies: in the new file,   *)
(* or in the old one as long as the new one has none, so that neither a crash between the  *)
(* two writes of the migration loses them nor a later migration brings older ones back.    *)
(* (storage.gap: the migration could not read or add, or the tokens could not be loaded.)   *)
TokensSurvive ==
    ~storage.gap =>
        (IF Has(disk.new) THEN disk.new.version ELSE disk.old.version) = storage.saved

================================================================================
