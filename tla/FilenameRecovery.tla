-------------------------- MODULE FilenameRecovery --------------------------
(***************************************************************************)
(* build_rename_map and rewrite_import_sources (core/src/driver/unpack/      *)
(* filename_recovery.rs).  `mods` lists the modules of a job with their       *)
(* provisional `file`, whether that path is `reserved` (a physical input),    *)
(* and the file name a source annotation `suggests`.                          *)
(***************************************************************************)
EXTENDS ModulePath

CONSTANTS
  NoName,         (* no annotation, or conflicting ones                        *)
  CaseKey(_),     (* filename_case_key: equal on a case-insensitive file system *)
  Recovered(_)    (* safe_relative_module_name of a suggestion, or NoPath when
                     that rejects it or sanitize_relative_path would change it  *)

Reserved(mods) == {CaseKey(mods[i].file) : i \in {j \in DOMAIN mods : mods[j].reserved}}

(* The first loop: the modules with a usable suggestion of another name. *)
Candidate(mods, suggests, i) ==
  /\ CaseKey(mods[i].file) \notin Reserved(mods)
  /\ suggests[i] # NoName
  /\ Recovered(suggests[i]) # NoPath
  /\ CaseKey(Recovered(suggests[i])) \notin Reserved(mods)
  /\ Recovered(suggests[i]) # mods[i].file

(* Mutant of Unclaimed: only a name claimed twice is ambiguous. *)
UnclaimedOnce(mods, suggests, i) ==
  \A j \in DOMAIN mods \ {i} :
    Candidate(mods, suggests, j)
      => CaseKey(Recovered(suggests[j])) # CaseKey(Recovered(suggests[i]))

(* The second loop: no other candidate claims the name, and no module has it  *)
(* provisionally.  A module may change the case of its own name.             *)
Unclaimed(mods, suggests, i) ==
  /\ \A j \in DOMAIN mods \ {i} :
       Candidate(mods, suggests, j)
         => CaseKey(Recovered(suggests[j])) # CaseKey(Recovered(suggests[i]))
  /\ \/ CaseKey(Recovered(suggests[i])) = CaseKey(mods[i].file)
     \/ \A j \in DOMAIN mods : CaseKey(mods[j].file) # CaseKey(Recovered(suggests[i]))

Renamed(mods, suggests) ==
  {i \in DOMAIN mods : Candidate(mods, suggests, i) /\ Unclaimed(mods, suggests, i)}

(* rename_map.get(file).unwrap_or(file), for every module of the job. *)
FinalNames(mods, suggests) ==
  [i \in DOMAIN mods |->
     IF i \in Renamed(mods, suggests) THEN Recovered(suggests[i]) ELSE mods[i].file]

(* Mutant of Rewrite: the specifier is formed for the importer's old place. *)
RewriteInPlace(mods, final, from, spec) ==
  LET renamed == {i \in DOMAIN mods : /\ mods[i].file = Resolve(mods[from].file, spec)
                                      /\ final[i] # mods[i].file}
  IN  IF renamed = {}
      THEN spec
      ELSE Relative(mods[from].file, final[CHOOSE i \in renamed : TRUE])

(* ImportSourceRewriter::rewrite of a specifier in module `from`: it follows  *)
(* a renamed target and leaves every other specifier as it was.              *)
Rewrite(mods, final, from, spec) ==
  LET renamed == {i \in DOMAIN mods : /\ mods[i].file = Resolve(mods[from].file, spec)
                                      /\ final[i] # mods[i].file}
  IN  IF renamed = {}
      THEN spec
      ELSE Relative(final[from], final[CHOOSE i \in renamed : TRUE])
=============================================================================
