----------------------------- MODULE ConfigStore ------------------------------
(***************************************************************************)
(* The configuration of the box (src/config_store.rs): a map in memory and *)
(* a file, rewritten at every `set`.  The whole map is written to a second *)
(* file, copied over the first, and the second is removed; the box may stop*)
(* and the calls may fail between any two of these steps.                  *)
(*                                                                         *)
(* The caller of `set` holds the write lock of ConfigService until the end *)
(* of `save`: whoever else needs the store waits for `saving` to be idle.  *)
(* Namespaces are part of the properties.                                  *)
(***************************************************************************)
EXTENDS HashMap

CONSTANTS
  Property,  \* the properties, each with its namespace
  Setting,   \* their values
  Flags      \* the overrides that the command line may give: maps

ASSUME ConfigAssumption == \A flags \in Flags : IsMap(flags, Property, Setting)

VARIABLES
  config,     \* the properties in memory
  overrides,  \* those given on the command line, which come first
  file,       \* the configuration file
  updated,    \* the file written before it
  saving,     \* where `save` is
  (* History, read by no action:                                           *)
  asked,      \* property -> what a start may find of it
  failed      \* the last save failed

configVars == <<config, overrides, file, updated, saving, asked, failed>>

(* What a file may be: not there, incomplete, or a map written in full.     *)
Absent == [state |-> "absent", tree |-> EmptyMap]
Broken == [state |-> "broken", tree |-> EmptyMap]
Written(tree) == [state |-> "written", tree |-> tree]

(* The value of a property in a map, as a set of at most one value.         *)
ValueOf(m, p) == {m[q] : q \in DOMAIN m \cap {p}}

(* `load`: a file that cannot be opened or parsed is an empty map.          *)
Load(f) == f.tree

ConfigInit ==
  /\ config = EmptyMap
  /\ overrides \in Flags
  /\ file = Absent
  /\ updated = Absent
  /\ saving = "idle"
  /\ asked = [p \in Property |-> {{}}]
  /\ failed = FALSE

(* `get`.                                                                   *)
GetSetting(p) ==
  IF p \in DOMAIN overrides THEN {overrides[p]} ELSE ValueOf(config, p)

(* Mutant: the property waits in memory for a later save.                   *)
SetSettingUnsaved(p, v) ==
  /\ saving = "idle"
  /\ config' = Put(config, p, v)
  /\ asked' = [asked EXCEPT ![p] = {{v}}]
  /\ UNCHANGED <<overrides, file, updated, saving, failed>>

(* `set`, up to `save`.  From now on a start may find the new value.        *)
SetSetting(p, v) ==
  /\ saving = "idle"
  /\ config' = Put(config, p, v)
  /\ saving' = "create"
  /\ asked' = [asked EXCEPT ![p] = @ \cup {{v}}]
  /\ UNCHANGED <<overrides, file, updated, failed>>

(* Once it is saved, a start may find nothing older.                        *)
EndSave(ok) ==
  /\ saving' = "idle"
  /\ asked' = IF ok THEN [p \in Property |-> {ValueOf(config, p)}] ELSE asked
  /\ failed' = ~ok

CreateUpdated ==
  /\ saving = "create"
  /\ \/ /\ updated' = Broken
        /\ saving' = "write"
        /\ UNCHANGED <<asked, failed>>
     \/ EndSave(FALSE) /\ UNCHANGED updated
  /\ UNCHANGED <<config, overrides, file>>

(* The result of `write_all` is not looked at.                              *)
WriteUpdated ==
  /\ saving = "write"
  /\ updated' \in {Written(config), Broken}
  /\ saving' = "copy"
  /\ UNCHANGED <<config, overrides, file, asked, failed>>

(* `fs::copy` empties the configuration file first.                         *)
StartCopy ==
  /\ saving = "copy"
  /\ \/ /\ file' = Broken
        /\ saving' = "fill"
        /\ UNCHANGED <<asked, failed>>
     \/ EndSave(FALSE) /\ UNCHANGED file
  /\ UNCHANGED <<config, overrides, updated>>

EndCopy ==
  /\ saving = "fill"
  /\ \/ /\ file' = updated
        /\ saving' = "remove"
        /\ failed' = (updated # Written(config))
        /\ UNCHANGED asked
     \/ EndSave(FALSE) /\ UNCHANGED file
  /\ UNCHANGED <<config, overrides, updated>>

RemoveUpdated ==
  /\ saving = "remove"
  /\ updated' \in {Absent, updated}
  /\ EndSave(~failed)
  /\ UNCHANGED <<config, overrides, file>>

SaveStep == CreateUpdated \/ WriteUpdated \/ StartCopy \/ EndCopy \/ RemoveUpdated

(* The box stops at any point and starts again: `ConfigStore::new`.  What   *)
(* was found is what the next starts may find; of a file cut short nothing  *)
(* is found, whatever was asked.                                            *)
RestartConfig ==
  /\ config' = Load(file)
  /\ overrides' \in Flags
  /\ saving' = "idle"
  /\ asked' = [p \in Property |->
       IF file.state = "broken" THEN {{}} ELSE asked[p] \cap {ValueOf(config', p)}]
  /\ failed' = FALSE
  /\ UNCHANGED <<file, updated>>

-----------------------------------------------------------------------------
(* Properties.  The type invariant:                                         *)
ConfigTypeOK ==
  /\ IsMap(config, Property, Setting)
  /\ overrides \in Flags
  /\ \A f \in {file, updated} :
       /\ f.state \in {"absent", "broken", "written"}
       /\ IsMap(f.tree, Property, Setting)
  /\ saving \in {"idle", "create", "write", "copy", "fill", "remove"}
  /\ asked \in [Property -> SUBSET SUBSET Setting]
  /\ failed \in BOOLEAN

(* "ConfigStore should remember things over restarts": a start that reads   *)
(* the file now finds of each property a value that was asked for, at or    *)
(* after the last save that succeeded.                                      *)
RememberedOverRestarts == \A p \in Property : ValueOf(Load(file), p) \in asked[p]

(* The box may stop at any moment, and whatever failed and wherever it      *)
(* stopped before, the next start remembers; except while the file, emptied,*)
(* is being copied over, and after a save that left it cut short.           *)
Remembered ==
  \/ saving = "fill"
  \/ failed /\ file.state = "broken"
  \/ RememberedOverRestarts
=============================================================================
