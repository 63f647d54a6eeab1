----------------------------- MODULE HostStorageProofs -----------------------------
(* What the host keeps on disk.  The API tokens survive every death of the host, for every *)
(* number of saves, deaths and I/O faults (TokensAreKept); a command that the session       *)
(* history has accepted is written before its writer is gone, for every number of sessions  *)
(* and every size of the lanes (AcceptedAreWritten).                                        *)
EXTENDS StateFiles, SessionHistory, TLAPS

(*----------------------------- TokensAreKept ---------------------------------------------*)
(* What the invariant lacks to be inductive is where the migration stands: each of its      *)
(* steps relies on what the one before has left on disk.                                    *)

FileType == [status : {"missing", "corrupt", "ok"}, version : Nat]

TokensType == [at : {"starting", "adding", "erasing", "migrated", "serving"}, known : Nat, tree : Nat]
StorageType == [versions : Nat, saved : Nat, crashes : Nat, faults : Nat, gap : BOOLEAN]

StateFilesType ==
    /\ disk \in [old : FileType, new : FileType]
    /\ tokens \in TokensType /\ storage \in StorageType

(* The old file is erased only when the new one has the key, or the old one has none.     *)
AddingIsSound == tokens.at = "adding" => ~Has(disk.new) /\ tokens.tree = disk.old.version /\ Has(disk.old)
ErasingIsSound == tokens.at = "erasing" => storage.gap \/ Has(disk.new)
OldIsSpent == tokens.at \in {"migrated", "serving"} => storage.gap \/ ~Has(disk.old) \/ Has(disk.new)
(* A file that is missing or corrupt has no tokens.                                       *)
UnreadableIsEmpty == \A f \in {disk.old, disk.new} : f.status # "ok" => ~Has(f)

Migrating == AddingIsSound /\ ErasingIsSound /\ OldIsSpent /\ UnreadableIsEmpty
TokensInv == StateFilesType /\ Migrating /\ TokensSurvive

--------------------------------------------------------------------------------
LEMMA InitEstablishes == ASSUME StateFilesInit PROVE TokensInv
<1>1. StateFilesType
  <2>1. disk \in [old : FileType, new : FileType]
    BY DEF StateFilesInit, FileType, Blank, Contents
  <2>2. tokens \in TokensType
    BY DEF StateFilesInit, TokensType
  <2>3. storage \in StorageType
    BY <2>1 DEF StateFilesInit, StorageType, FileType, Has
  <2> QED BY <2>1, <2>2, <2>3 DEF StateFilesType
<1>2. Migrating
  BY DEF StateFilesInit, Migrating, AddingIsSound, ErasingIsSound, OldIsSpent, UnreadableIsEmpty,
         Blank, Contents, Has
<1>3. TokensSurvive
  BY DEF StateFilesInit, TokensSurvive, Blank, Contents, Has
<1> QED BY <1>1, <1>2, <1>3 DEF TokensInv

(* Moving a corrupt file aside keeps the version of every readable file.                  *)
LEMMA QuarantineKeeps ==
    ASSUME NEW f \in FileType, f.status # "ok" => ~Has(f)
    PROVE  /\ Quarantined(f) \in FileType /\ Quarantined(f).version = f.version
           /\ Quarantined(f).status # "ok" => ~Has(Quarantined(f))
  BY DEF FileType, Quarantined, Contents, Has

(* A fault counts, may fall into a gap, and changes nothing else of the record.           *)
LEMMA FaultKeeps ==
    ASSUME storage \in StorageType, NEW g \in BOOLEAN, Faulty(g)
    PROVE  /\ storage' \in StorageType /\ storage'.saved = storage.saved
           /\ g \/ storage.gap => storage'.gap
<1> DEFINE gap == storage.gap \/ g
           faults == storage.faults + 1
<1>1. gap \in BOOLEAN /\ faults \in Nat
  BY DEF StorageType
<1>2. g \/ storage.gap => gap
  OBVIOUS
<1>3. storage' = [storage EXCEPT !.faults = faults, !.gap = gap]
  BY DEF Faulty
<1> HIDE DEF gap, faults
<1>4. storage' \in StorageType /\ storage'.saved = storage.saved /\ storage'.gap = gap
  BY <1>1, <1>3 DEF StorageType
<1> QED BY <1>2, <1>4

LEMMA ReadsPreserve == ASSUME TokensInv, MigrationReads PROVE TokensInv'
<1> DEFINE old == Quarantined(disk.old)
           new == Quarantined(disk.new)
           at == CASE ~Has(old) -> "migrated" [] Has(old) /\ ~Has(new) -> "adding" [] OTHER -> "erasing"
           tree == IF Has(new) THEN new.version ELSE old.version
<1>0. /\ disk \in [old : FileType, new : FileType] /\ tokens \in TokensType /\ storage \in StorageType
      /\ UnreadableIsEmpty /\ TokensSurvive
  BY DEF TokensInv, StateFilesType, Migrating
<1>1. disk.old \in FileType /\ disk.new \in FileType
  BY <1>0
<1>2. /\ old \in FileType /\ old.version = disk.old.version /\ (old.status # "ok" => ~Has(old))
      /\ new \in FileType /\ new.version = disk.new.version /\ (new.status # "ok" => ~Has(new))
  BY <1>0, <1>1, QuarantineKeeps DEF UnreadableIsEmpty
<1>3. CASE /\ tokens' = [tokens EXCEPT !.at = at, !.tree = tree]
           /\ \/ disk' = [old |-> old, new |-> new] /\ UNCHANGED storage
              \/ Faulty(FALSE) /\ UNCHANGED disk
  <2>1. /\ at \in {"adding", "erasing", "migrated"} /\ tree \in Nat
        /\ at = "adding" => Has(old) /\ ~Has(new) /\ tree = old.version
        /\ at = "erasing" => Has(new)
        /\ at = "migrated" => ~Has(old)
    BY <1>2 DEF FileType
  <2> HIDE DEF old, new, at, tree
  <2>2. tokens' \in TokensType /\ tokens'.at = at /\ tokens'.tree = tree
    BY <1>0, <1>3, <2>1 DEF TokensType
  <2>3. disk' = [old |-> old, new |-> new] \/ disk' = disk
    BY <1>3
  <2>4. storage' \in StorageType /\ storage'.saved = storage.saved /\ (storage.gap => storage'.gap)
    BY <1>0, <1>3, FaultKeeps
  <2>5. /\ disk' \in [old : FileType, new : FileType]
        /\ disk'.old.version = disk.old.version /\ disk'.new.version = disk.new.version
    BY <1>0, <1>1, <1>2, <2>3
  <2>6. UnreadableIsEmpty'
    BY <1>0, <1>2, <2>3 DEF UnreadableIsEmpty
  <2>7. AddingIsSound' /\ ErasingIsSound' /\ OldIsSpent'
    BY <1>2, <2>1, <2>2, <2>5 DEF AddingIsSound, ErasingIsSound, OldIsSpent, Has
  <2>8. TokensSurvive'
    BY <1>0, <2>4, <2>5 DEF TokensSurvive, Has
  <2> QED BY <2>2, <2>4, <2>5, <2>6, <2>7, <2>8 DEF TokensInv, StateFilesType, Migrating
<1>4. CASE /\ Faulty(TRUE)
           /\ disk' \in {disk, [disk EXCEPT !.old = old]}
           /\ tokens' = [tokens EXCEPT !.at = "migrated"]
  <2> HIDE DEF old, new
  <2>1. storage' \in StorageType /\ storage'.gap
    BY <1>0, <1>4, FaultKeeps
  <2>2. tokens' \in TokensType /\ tokens'.at = "migrated"
    BY <1>0, <1>4 DEF TokensType
  <2>3. disk' \in [old : FileType, new : FileType] /\ UnreadableIsEmpty'
    BY <1>0, <1>2, <1>4 DEF UnreadableIsEmpty
  <2> QED
    BY <2>1, <2>2, <2>3
       DEF TokensInv, StateFilesType, Migrating, AddingIsSound, ErasingIsSound, OldIsSpent, TokensSurvive
<1> QED BY <1>3, <1>4 DEF MigrationReads

LEMMA AddsPreserve == ASSUME TokensInv, MigrationAdds PROVE TokensInv'
<1>0. /\ disk \in [old : FileType, new : FileType] /\ tokens \in TokensType /\ storage \in StorageType
      /\ UnreadableIsEmpty /\ AddingIsSound /\ TokensSurvive
  BY DEF TokensInv, StateFilesType, Migrating
<1>1. /\ tokens' \in TokensType /\ tokens'.at = "erasing" /\ tokens.at = "adding"
      /\ disk.old \in FileType /\ disk.new \in FileType /\ tokens.tree \in Nat
  BY <1>0 DEF MigrationAdds, TokensType
<1>2. CASE disk' = [disk EXCEPT !.new = Contents("ok", tokens.tree)] /\ UNCHANGED storage
  <2>1. /\ disk' \in [old : FileType, new : FileType] /\ disk'.old = disk.old
        /\ disk'.new.version = tokens.tree /\ disk'.new.status = "ok"
    BY <1>0, <1>1, <1>2 DEF FileType, Contents
  <2>2. UnreadableIsEmpty' /\ AddingIsSound' /\ ErasingIsSound' /\ OldIsSpent' /\ TokensSurvive'
    BY <1>0, <1>1, <1>2, <2>1
       DEF UnreadableIsEmpty, AddingIsSound, ErasingIsSound, OldIsSpent, TokensSurvive, Has
  <2> QED BY <1>0, <1>1, <1>2, <2>1, <2>2 DEF TokensInv, StateFilesType, Migrating
<1>3. CASE Faulty(TRUE) /\ UNCHANGED disk
  <2>1. storage' \in StorageType /\ storage'.gap
    BY <1>0, <1>3, FaultKeeps
  <2> QED
    BY <1>0, <1>1, <1>3, <2>1 DEF TokensInv, StateFilesType, Migrating, AddingIsSound, ErasingIsSound,
                                  OldIsSpent, UnreadableIsEmpty, TokensSurvive
<1> QED BY <1>2, <1>3 DEF MigrationAdds

LEMMA ErasesPreserve == ASSUME TokensInv, MigrationErases PROVE TokensInv'
<1>0. /\ disk \in [old : FileType, new : FileType] /\ tokens \in TokensType /\ storage \in StorageType
      /\ UnreadableIsEmpty /\ ErasingIsSound /\ TokensSurvive
  BY DEF TokensInv, StateFilesType, Migrating
<1>1. tokens' \in TokensType /\ tokens'.at = "migrated" /\ tokens.at = "erasing"
  BY <1>0 DEF MigrationErases, TokensType
<1>2. disk' = [disk EXCEPT !.old = Contents("ok", 0)] \/ disk' = disk
  BY DEF MigrationErases
<1>3. storage' \in StorageType /\ storage'.saved = storage.saved /\ (storage.gap => storage'.gap)
  BY <1>0, FaultKeeps DEF MigrationErases
<1>4. /\ disk' \in [old : FileType, new : FileType] /\ disk'.new = disk.new
      /\ disk'.old = disk.old \/ disk'.old = Contents("ok", 0)
  BY <1>0, <1>2 DEF FileType, Contents
<1>5. UnreadableIsEmpty'
  BY <1>0, <1>4 DEF UnreadableIsEmpty, Contents, Has
<1>6. AddingIsSound' /\ ErasingIsSound' /\ OldIsSpent' /\ TokensSurvive'
  BY <1>0, <1>1, <1>3, <1>4 DEF AddingIsSound, ErasingIsSound, OldIsSpent, TokensSurvive, Has
<1> QED BY <1>1, <1>3, <1>4, <1>5, <1>6 DEF TokensInv, StateFilesType, Migrating

LEMMA LoadPreserves == ASSUME TokensInv, LoadTokens PROVE TokensInv'
<1>0. /\ disk \in [old : FileType, new : FileType] /\ tokens \in TokensType /\ storage \in StorageType
      /\ UnreadableIsEmpty /\ OldIsSpent /\ TokensSurvive
  BY DEF TokensInv, StateFilesType, Migrating
<1>1. \E known \in Nat : tokens' = [tokens EXCEPT !.at = "serving", !.known = known]
  BY <1>0 DEF LoadTokens, FileType
<1>2. tokens' \in TokensType /\ tokens'.at = "serving" /\ tokens.at = "migrated"
  BY <1>0, <1>1 DEF LoadTokens, TokensType
<1>3. storage' \in StorageType /\ storage'.saved = storage.saved /\ (storage.gap => storage'.gap)
  BY <1>0, FaultKeeps DEF LoadTokens
<1>4. disk' = disk
  BY DEF LoadTokens
<1> QED
  BY <1>0, <1>2, <1>3, <1>4 DEF TokensInv, StateFilesType, Migrating, AddingIsSound, ErasingIsSound,
                                OldIsSpent, UnreadableIsEmpty, TokensSurvive

(* A change of the tokens is saved with a version of its own, in the new file.            *)
LEMMA SaveTokensPreserves == ASSUME TokensInv, SaveTokens PROVE TokensInv'
<1> DEFINE version == storage.versions + 1
<1>0. /\ disk \in [old : FileType, new : FileType] /\ tokens \in TokensType /\ storage \in StorageType
      /\ UnreadableIsEmpty /\ OldIsSpent /\ TokensSurvive
  BY DEF TokensInv, StateFilesType, Migrating
<1>1. version \in Nat /\ version # 0
  BY <1>0 DEF StorageType
<1> HIDE DEF version
<1>2. tokens' \in TokensType /\ tokens'.at = "serving" /\ tokens.at = "serving"
  BY <1>0, <1>1 DEF SaveTokens, TokensType, version
<1>3. CASE /\ disk' = [disk EXCEPT !.new = Contents("ok", version)]
           /\ storage' = [storage EXCEPT !.versions = version, !.saved = version]
  <2>1. /\ disk' \in [old : FileType, new : FileType] /\ disk'.old = disk.old
        /\ disk'.new = Contents("ok", version)
    BY <1>0, <1>1, <1>3 DEF FileType, Contents
  <2>2. storage' \in StorageType /\ storage'.saved = version
    BY <1>0, <1>1, <1>3 DEF StorageType
  <2>3. UnreadableIsEmpty' /\ AddingIsSound' /\ ErasingIsSound' /\ OldIsSpent' /\ TokensSurvive'
    BY <1>0, <1>1, <1>2, <2>1, <2>2
       DEF UnreadableIsEmpty, AddingIsSound, ErasingIsSound, OldIsSpent, TokensSurvive, Has, Contents
  <2> QED BY <1>2, <2>1, <2>2, <2>3 DEF TokensInv, StateFilesType, Migrating
<1>4. CASE /\ disk' = disk
           /\ \/ storage' = [storage EXCEPT !.versions = version]
              \/ storage' = [storage EXCEPT !.versions = version, !.faults = @ + 1]
  <2>1. storage' \in StorageType /\ storage'.saved = storage.saved /\ storage'.gap = storage.gap
    <3>1. CASE storage' = [storage EXCEPT !.versions = version]
      BY <1>0, <1>1, <3>1 DEF StorageType
    <3>2. CASE storage' = [storage EXCEPT !.versions = version, !.faults = @ + 1]
      <4> DEFINE faults == storage.faults + 1
      <4>1. storage' = [storage EXCEPT !.versions = version, !.faults = faults] /\ faults \in Nat
        BY <1>0, <3>2 DEF StorageType
      <4> HIDE DEF faults
      <4> QED BY <1>0, <1>1, <4>1 DEF StorageType
    <3> QED BY <1>4, <3>1, <3>2
  <2> QED
    BY <1>0, <1>2, <1>4, <2>1 DEF TokensInv, StateFilesType, Migrating, AddingIsSound, ErasingIsSound,
                                  OldIsSpent, UnreadableIsEmpty, TokensSurvive
<1> QED BY <1>3, <1>4 DEF SaveTokens, version

(* The pairing code drops the keys of the old file: by then the new one has them.         *)
LEMMA SaveStatePreserves == ASSUME TokensInv, SaveState PROVE TokensInv'
<1>0. /\ disk \in [old : FileType, new : FileType] /\ tokens \in TokensType /\ storage \in StorageType
      /\ UnreadableIsEmpty /\ OldIsSpent /\ TokensSurvive
  BY DEF TokensInv, StateFilesType, Migrating
<1>1. tokens' = tokens /\ tokens.at \in {"migrated", "serving"} /\ disk.new \in FileType
  BY <1>0 DEF SaveState
<1>2. storage' \in StorageType /\ storage'.saved = storage.saved /\ (storage.gap => storage'.gap)
  BY <1>0, FaultKeeps DEF SaveState
<1>3. /\ disk' \in [old : FileType, new : FileType] /\ disk'.old = Contents("ok", 0)
      /\ \/ disk'.new = disk.new
         \/ disk'.new = Contents("ok", 0) /\ (disk.new.status = "missing")
  <2>1. \/ disk' = [old |-> Contents("ok", 0),
                     new |-> IF disk.new.status = "missing" THEN Contents("ok", 0) ELSE disk.new]
        \/ disk' = [disk EXCEPT !.old = Contents("ok", 0)]
    BY DEF SaveState
  <2> QED BY <1>0, <1>1, <2>1 DEF FileType, Contents
<1>4. disk'.new.version = disk.new.version
  BY <1>0, <1>3 DEF UnreadableIsEmpty, Has, Contents
<1>5. UnreadableIsEmpty'
  BY <1>0, <1>3 DEF UnreadableIsEmpty, Contents, Has
<1>6. AddingIsSound' /\ ErasingIsSound' /\ OldIsSpent' /\ TokensSurvive'
  BY <1>0, <1>1, <1>2, <1>3, <1>4 DEF AddingIsSound, ErasingIsSound, OldIsSpent, TokensSurvive, Has, Contents
<1> QED BY <1>0, <1>1, <1>2, <1>3, <1>5, <1>6 DEF TokensInv, StateFilesType, Migrating

LEMMA DeathPreserves == ASSUME TokensInv, HostDies PROVE TokensInv'
<1>0. /\ disk \in [old : FileType, new : FileType] /\ tokens \in TokensType /\ storage \in StorageType
      /\ UnreadableIsEmpty /\ TokensSurvive
  BY DEF TokensInv, StateFilesType, Migrating
<1>1. tokens' \in TokensType /\ tokens'.at = "starting" /\ disk' = disk
  BY DEF HostDies, TokensType
<1>2. storage' \in StorageType /\ storage'.saved = storage.saved /\ storage'.gap = storage.gap
  BY <1>0 DEF HostDies, StorageType
<1> QED
  BY <1>0, <1>1, <1>2 DEF TokensInv, StateFilesType, Migrating, AddingIsSound, ErasingIsSound,
                          OldIsSpent, UnreadableIsEmpty, TokensSurvive

(* The tokens saved last are on disk in every reachable state: no death of the host between *)
(* two writes, no fault of a write and no later migration loses them or brings older ones  *)
(* back (migrate_recent_state_keys, save_api_tokens, save_state).                         *)
THEOREM TokensAreKept == StateFilesSpec => []TokensSurvive
<1>1. StateFilesInit => TokensInv
  BY InitEstablishes
<1>2. TokensInv /\ [StateFilesNext]_stateFileVars => TokensInv'
  <2> SUFFICES ASSUME TokensInv, [StateFilesNext]_stateFileVars PROVE TokensInv'
    OBVIOUS
  <2>1. CASE UNCHANGED stateFileVars
    BY <2>1 DEF stateFileVars, TokensInv, StateFilesType, Migrating, AddingIsSound, ErasingIsSound,
                OldIsSpent, UnreadableIsEmpty, TokensSurvive, Has
  <2> QED
    BY <2>1, ReadsPreserve, AddsPreserve, ErasesPreserve, LoadPreserves, SaveTokensPreserves,
       SaveStatePreserves, DeathPreserves DEF StateFilesNext, Migration
<1>3. TokensInv => TokensSurvive
  BY DEF TokensInv
<1> QED BY <1>1, <1>2, <1>3, PTL DEF StateFilesSpec

(*----------------------------- AcceptedAreWritten ----------------------------------------*)
(* AcceptedIsWritten is inductive only with the order of a stop: g_running falls before the *)
(* writer leaves its loop and rises only when the database is opened again, so nothing is   *)
(* accepted behind the final flush.                                                         *)
ServiceType ==
    service \in [enabled : BOOLEAN, running : BOOLEAN, db : BOOLEAN,
                writer : {"loop", "flush", "exited"}, stops : Nat]
WriterLeavesLast == service.writer # "loop" => ~service.running
WriterInv == ServiceType /\ WriterLeavesLast /\ AcceptedIsWritten

(* A step that leaves the service alone keeps the invariant if nothing is added to the      *)
(* lanes or to the batch of a service that is not running.                                  *)
LEMMA QuietServiceKeeps ==
  ASSUME WriterInv, UNCHANGED service,
         ~service.running => UNCHANGED lanes /\ (batch' = batch \/ batch' = <<>>)
  PROVE  WriterInv'
<1>1. ServiceType' /\ WriterLeavesLast'
  BY DEF WriterInv, ServiceType, WriterLeavesLast
<1>2. ASSUME service'.writer = "exited" PROVE Pending' = {} /\ batch' = <<>>
  <2>1. Pending = {} /\ batch = <<>> /\ ~service.running
    BY <1>2 DEF WriterInv, WriterLeavesLast, AcceptedIsWritten
  <2>2. lanes' = lanes /\ batch' = <<>>
    BY <2>1
  <2>3. Pending' = Pending
    BY <2>2 DEF Pending
  <2> QED
    BY <2>1, <2>2, <2>3
<1> QED
  BY <1>1, <1>2 DEF WriterInv, AcceptedIsWritten

(* enqueue takes nothing once g_running is FALSE.                                           *)
LEMMA EnqueueWhenStopped ==
  ASSUME NEW type, NEW s, Enqueue(type, s), ~service.running
  PROVE  UNCHANGED lanes
BY DEF Enqueue, Accepts, Accepting

LEMMA SessionStepKeeps ==
  ASSUME WriterInv, NEW s \in Sessions, SessionStep(s)
  PROVE  WriterInv'
<1>1. UNCHANGED <<service, batch>>
  BY DEF SessionStep
<1>2. ~service.running => UNCHANGED lanes
  BY EnqueueWhenStopped DEF SessionStep, BeginSession, EndSession, NextCall
<1> QED
  BY <1>1, <1>2, QuietServiceKeeps

LEMMA SampleKeeps ==
  ASSUME WriterInv, NEW s \in Sessions, Sample(s)
  PROVE  WriterInv'
BY QuietServiceKeeps DEF Sample

LEMMA DeleteKeeps ==
  ASSUME WriterInv, NEW s \in Sessions, Delete(s)
  PROVE  WriterInv'
<1>1. UNCHANGED <<service, batch>>
  BY DEF Delete
<1>2. ~service.running => UNCHANGED lanes
  BY EnqueueWhenStopped DEF Delete
<1> QED
  BY <1>1, <1>2, QuietServiceKeeps

LEMMA WriterKeeps ==
  ASSUME WriterInv, WriterStep
  PROVE  WriterInv'
<1>1. CASE DrainQueue
  BY <1>1, QuietServiceKeeps DEF DrainQueue
<1>2. CASE LeaveLoop
  BY <1>2 DEF LeaveLoop, WriterInv, ServiceType, WriterLeavesLast, AcceptedIsWritten
<1>3. CASE Flush
  <2>1. CASE Pending = {}
    <3>1. /\ service' = [service EXCEPT !.writer = "exited"] /\ ~service.running
          /\ lanes' = lanes /\ batch' = <<>>
      BY <1>3, <2>1 DEF Flush, WriterInv, WriterLeavesLast
    <3>2. Pending' = {}
      BY <2>1, <3>1 DEF Pending
    <3> QED
      BY <3>1, <3>2 DEF WriterInv, ServiceType, WriterLeavesLast, AcceptedIsWritten
  <2>2. CASE Pending # {}
    <3>1. UNCHANGED service /\ service.writer = "flush"
      BY <1>3, <2>2 DEF Flush
    <3> QED
      BY <3>1 DEF WriterInv, ServiceType, WriterLeavesLast, AcceptedIsWritten
  <2> QED
    BY <2>1, <2>2
<1>4. CASE ProcessBatch
  BY <1>4, QuietServiceKeeps DEF ProcessBatch
<1> QED
  BY <1>1, <1>2, <1>3, <1>4 DEF WriterStep

(* reload_settings and shutdown.                                                            *)
LEMMA SettingsKeep ==
  ASSUME WriterInv, Disable \/ CloseDatabase \/ Enable
  PROVE  WriterInv'
<1>1. CASE Disable
  <2>1. service.writer = "loop"
    BY <1>1 DEF Disable, WriterInv, ServiceType, WriterLeavesLast
  <2>2. PICK enabled \in BOOLEAN :
          service' = [service EXCEPT !.running = FALSE, !.enabled = enabled, !.stops = @ + 1]
    BY <1>1 DEF Disable
  <2>3. /\ service.db \in BOOLEAN /\ service.stops \in Nat
        /\ service' = [enabled |-> enabled, running |-> FALSE, db |-> service.db,
                       writer |-> "loop", stops |-> service.stops + 1]
    BY <2>1, <2>2, Zenon DEF WriterInv, ServiceType
  <2>4. ServiceType' /\ service'.writer = "loop"
    <3>1. service.stops + 1 \in Nat
      BY <2>3
    <3> QED
      BY <2>3, <3>1, Zenon DEF ServiceType
  <2> QED
    BY <2>4 DEF WriterInv, WriterLeavesLast, AcceptedIsWritten
<1>2. CASE CloseDatabase
  <2>1. Pending' = Pending
    BY <1>2 DEF CloseDatabase, Pending
  <2> QED
    BY <1>2, <2>1 DEF CloseDatabase, WriterInv, ServiceType, WriterLeavesLast, AcceptedIsWritten
<1>3. CASE Enable
  BY <1>3 DEF Enable, WriterInv, ServiceType, WriterLeavesLast, AcceptedIsWritten
<1> QED
  BY <1>1, <1>2, <1>3

(* A command that was accepted is written before the writer is gone: whatever the sessions, *)
(* the sampler and the web UI enqueue while the history is being stopped, enqueue refuses   *)
(* it or the final flush takes it (enqueue, writer_loop, shutdown).                         *)
THEOREM AcceptedAreWritten == HistorySpec => []AcceptedIsWritten
<1>1. HistoryInit => WriterInv
  BY DEF HistoryInit, WriterInv, ServiceType, WriterLeavesLast, AcceptedIsWritten
<1>2. WriterInv /\ [HistoryNext]_historyVars => WriterInv'
  <2> SUFFICES ASSUME WriterInv, [HistoryNext]_historyVars PROVE WriterInv'
    OBVIOUS
  <2>1. CASE UNCHANGED historyVars
    BY <2>1, QuietServiceKeeps DEF historyVars
  <2> QED
    BY <2>1, SessionStepKeeps, SampleKeeps, DeleteKeeps, WriterKeeps, SettingsKeep DEF HistoryNext
<1>3. WriterInv => AcceptedIsWritten
  BY DEF WriterInv
<1> QED BY <1>1, <1>2, <1>3, PTL DEF HistorySpec

================================================================================
