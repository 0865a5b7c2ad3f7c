------------------------------- MODULE Config -------------------------------
(***************************************************************************)
(* load_config and get_folder_override_index (src/src/config.cpp): the     *)
(* configuration file is read line by line, each key going to the section  *)
(* the parser believes it is in; is_target_extension and compress_task     *)
(* then ask which section applies to a path.                               *)
(*                                                                         *)
(* One key stands for each kind of key the parser has:                     *)
(*   io_delay_us   a number with a range (also threads, *_level,           *)
(*                 debounce_delay, min_compress_size, max_active_ios);     *)
(*                 an invalid one gives the default in [general] and is    *)
(*                 ignored in a folder section                             *)
(*   process_files_without_extensions ("bare")  a boolean                  *)
(*   list, extensions ("ext")  accumulates                                 *)
(*   target_path   is replaced                                             *)
(* A path is the sequence of its components; the file is what the user     *)
(* wrote, chosen line by line as it is read.                               *)
(***************************************************************************)
EXTENDS Naturals, Sequences, FiniteSets

CONSTANTS Folders,   \* paths of folder_override sections
          Files,     \* paths of files that are asked about
          CliDirs,   \* what --dir may have been given
          Dir,       \* a value of target_path
          MaxLines   \* bound of the length of the file

ASSUME PathsAssumption == \A f \in Folders \cup Files : Len(f) \in Nat
ASSUME LinesAssumption == MaxLines \in Nat

Unset == "unset"
Invalid == "invalid"
DefaultDir == "/var/www/html"
DefaultExt == "default"

SectionNames == {"general", "other"}
Keys == [key : {"io_delay_us"}, val : {"1", "2", Invalid}]
        \cup [key : {"bare", "enabled", "enable_folder_overrides"}, val : {"true", "false"}]
        \cup [key : {"ext"}, val : {"x"}]
        \cup [key : {"target_path"}, val : {Dir}]
Sections == [section : SectionNames]
FolderSections == [folder : Folders, safe : BOOLEAN]

IsKey(l) == "key" \in DOMAIN l
IsSection(l) == "section" \in DOMAIN l
IsFolder(l) == "folder" \in DOMAIN l

VARIABLES phase,      \* reading the file, done, or done again after a reload
          cli,        \* --dir: a set of directories, empty if not given
          lines,      \* what has been read of the file
          section,    \* current_section
          cfg,        \* the global settings
          overrides   \* cfg.folder_overrides

vars == <<phase, cli, lines, section, cfg, overrides>>

Global == [io_delay_us |-> "0", bare |-> FALSE, exts |-> {}, targets |-> {},
           enable_folder_overrides |-> TRUE]
Override(p) == [path |-> p, enabled |-> TRUE, io_delay_us |-> Unset, bare |-> FALSE, exts |-> {}]

TypeOK == /\ phase \in {"reading", "loaded", "rereading", "reloaded"}
          /\ cli \in SUBSET CliDirs
          /\ section \in SectionNames \cup {"", "folder_override"}
          /\ overrides \in Seq([path : Folders, enabled : BOOLEAN, bare : BOOLEAN,
                                io_delay_us : {"1", "2", Unset}, exts : SUBSET {"x"}])
          /\ cfg \in [io_delay_us : {"0", "1", "2"}, bare : BOOLEAN, exts : SUBSET {"x", DefaultExt},
                      targets : SUBSET ({Dir, DefaultDir} \cup CliDirs),
                      enable_folder_overrides : BOOLEAN]

Init == /\ phase = "reading"
        /\ cli \in SUBSET CliDirs
        /\ lines = <<>>
        /\ section = "general"
        /\ cfg = Global
        /\ overrides = <<>>

Reading == phase \in {"reading", "rereading"} /\ Len(lines) < MaxLines
-----------------------------------------------------------------------------
\* [name]
ReadSection(l) == /\ Reading
                  /\ lines' = Append(lines, l)
                  /\ section' = l.section
                  /\ UNCHANGED <<phase, cli, cfg, overrides>>

\* [folder_override:path]: skipped when overrides are off at this line, or the
\* path is unsafe.
ReadFolder(l) == /\ Reading
                 /\ lines' = Append(lines, l)
                 /\ IF cfg.enable_folder_overrides /\ l.safe
                      THEN /\ section' = "folder_override"
                           /\ overrides' = Append(overrides, Override(l.folder))
                      ELSE section' = "" /\ UNCHANGED overrides
                 /\ UNCHANGED <<phase, cli, cfg>>

\* A key of [general]; a section that is skipped ("") is treated alike.
GlobalAfter(l) ==
    CASE l.key = "io_delay_us" ->
           [cfg EXCEPT !.io_delay_us = IF l.val = Invalid THEN Global.io_delay_us ELSE l.val]
      [] l.key = "ext" -> [cfg EXCEPT !.exts = @ \cup {l.val}]
      [] l.key = "target_path" -> [cfg EXCEPT !.targets = {l.val}]
      [] l.key = "bare" -> [cfg EXCEPT !.bare = (l.val = "true")]
      [] l.key = "enable_folder_overrides" -> [cfg EXCEPT !.enable_folder_overrides = (l.val = "true")]
      [] OTHER -> cfg

ReadGlobalKey(l) == /\ Reading
                    /\ section \in {"general", ""}
                    /\ lines' = Append(lines, l)
                    /\ cfg' = GlobalAfter(l)
                    /\ UNCHANGED <<phase, cli, section, overrides>>

OverrideAfter(o, l) ==
    CASE l.key = "io_delay_us" /\ l.val # Invalid -> [o EXCEPT !.io_delay_us = l.val]
      [] l.key = "ext" -> [o EXCEPT !.exts = @ \cup {l.val}]
      [] l.key = "bare" -> [o EXCEPT !.bare = (l.val = "true")]
      [] l.key = "enabled" -> [o EXCEPT !.enabled = (l.val = "true")]
      [] OTHER -> o

\* A key of a folder section goes to folder_overrides.back().
ReadOverrideKey(l) ==
    /\ Reading
    /\ section = "folder_override"
    /\ lines' = Append(lines, l)
    /\ overrides' = [overrides EXCEPT ![Len(overrides)] = OverrideAfter(@, l)]
    /\ UNCHANGED <<phase, cli, section, cfg>>

\* A key of a section nobody knows.
ReadOtherKey(l) == /\ Reading
                   /\ section = "other"
                   /\ lines' = Append(lines, l)
                   /\ UNCHANGED <<phase, cli, section, cfg, overrides>>

\* The end of the file: defaults, then the command line.
Finish ==
    /\ phase \in {"reading", "rereading"}
    /\ phase' = IF phase = "reading" THEN "loaded" ELSE "reloaded"
    /\ cfg' = [cfg EXCEPT !.exts = IF @ = {} THEN {DefaultExt} ELSE @,
                          !.targets = IF cli # {} THEN cli
                                      ELSE IF @ = {} THEN {DefaultDir} ELSE @]
    /\ UNCHANGED <<cli, lines, section, overrides>>

\* Mutant of Reload: it reads into the settings it already has.
ReloadOnTop == /\ phase = "loaded"
               /\ phase' = "rereading"
               /\ cli' = {}
               /\ lines' = <<>>
               /\ section' = "general"
               /\ overrides' = <<>>
               /\ UNCHANGED cfg

\* SIGHUP: load_config(0, nullptr), without the command line.
Reload == /\ phase = "loaded"
          /\ phase' = "rereading"
          /\ cli' = {}
          /\ lines' = <<>>
          /\ section' = "general"
          /\ cfg' = Global
          /\ overrides' = <<>>

Next == \/ \E l \in Sections : ReadSection(l)
        \/ \E l \in FolderSections : ReadFolder(l)
        \/ \E l \in Keys : ReadGlobalKey(l) \/ ReadOverrideKey(l) \/ ReadOtherKey(l)
        \/ Finish
        \/ Reload

Spec == Init /\ [][Next]_vars
-----------------------------------------------------------------------------
(* The settings of a path *)

\* The path is the folder's, or continues it after a separator.
Covers(f, p) == Len(f) <= Len(p) /\ SubSeq(p, 1, Len(f)) = f

\* Mutant of Better: `>=` for `>` in the comparison of the lengths.
LongerOrEqual(o, best) == Len(o.path) >= Len(best.path)
Better(o, best) == Len(o.path) > Len(best.path)

\* get_folder_override_index; 0 is nullopt.
OverrideIndex(p) ==
    LET best[i \in 0..Len(overrides)] ==
          IF i = 0 THEN 0
          ELSE IF /\ overrides[i].enabled
                  /\ Covers(overrides[i].path, p)
                  /\ best[i - 1] = 0 \/ Better(overrides[i], overrides[best[i - 1]])
               THEN i ELSE best[i - 1]
    IN best[Len(overrides)]

\* What compress_task and is_target_extension make of it.
Settings(p) ==
    LET i == OverrideIndex(p)
    IN IF i = 0 THEN [delay |-> cfg.io_delay_us, bare |-> cfg.bare, exts |-> cfg.exts]
       ELSE LET o == overrides[i]
            IN [delay |-> IF o.io_delay_us = Unset THEN cfg.io_delay_us ELSE o.io_delay_us,
                bare |-> o.bare,
                exts |-> IF o.exts = {} THEN cfg.exts ELSE o.exts]
-----------------------------------------------------------------------------
(* The settings of a path as the file says, read as a whole *)

LastOf(S) == CHOOSE i \in S : \A j \in S : j <= i
FirstOf(S) == CHOOSE i \in S : \A j \in S : j >= i

\* The header a line stands under; 0 at the top of the file.
HeaderOf(i) == LET above == {h \in 1..(i - 1) : ~IsKey(lines[h])}
               IN IF above = {} THEN 0 ELSE LastOf(above)
InGeneral(i) == HeaderOf(i) = 0 \/ lines[HeaderOf(i)] = [section |-> "general"]

\* The lines that give key k in [general], or under header h.
Given(k) == {i \in 1..Len(lines) : IsKey(lines[i]) /\ lines[i].key = k /\ InGeneral(i)}
GivenUnder(h, k) == {i \in 1..Len(lines) : IsKey(lines[i]) /\ lines[i].key = k /\ HeaderOf(i) = h}
LastValue(S, default) == IF S = {} THEN default ELSE lines[LastOf(S)].val

\* A folder section counts if its path is safe and the switch is on above it.
SwitchedOn(h) == LastValue({i \in Given("enable_folder_overrides") : i < h}, "true") = "true"
Counts(h) == IsFolder(lines[h]) /\ lines[h].safe /\ SwitchedOn(h)

WrittenDelay == LET v == LastValue(Given("io_delay_us"), "0") IN IF v = Invalid THEN "0" ELSE v
WrittenExts == IF Given("ext") = {} THEN {DefaultExt} ELSE {lines[i].val : i \in Given("ext")}
WrittenTargets == IF Given("target_path") = {} THEN {DefaultDir}
                  ELSE {lines[LastOf(Given("target_path"))].val}

\* The sections that apply to p, and of these the first of the deepest.
Applying(p) == {h \in 1..Len(lines) : /\ Counts(h)
                                      /\ Covers(lines[h].folder, p)
                                      /\ LastValue(GivenUnder(h, "enabled"), "true") = "true"}
Nearest(p) == FirstOf({h \in Applying(p) :
                         \A g \in Applying(p) : Len(lines[g].folder) <= Len(lines[h].folder)})

WrittenSettings(p) ==
    LET general == [delay |-> WrittenDelay, bare |-> LastValue(Given("bare"), "false") = "true",
                    exts |-> WrittenExts]
    IN IF Applying(p) = {} THEN general
       ELSE LET h == Nearest(p)
                valid == {i \in GivenUnder(h, "io_delay_us") : lines[i].val # Invalid}
                exts == GivenUnder(h, "ext")
            IN [delay |-> LastValue(valid, general.delay),
                bare |-> LastValue(GivenUnder(h, "bare"), "false") = "true",
                exts |-> IF exts = {} THEN general.exts ELSE {lines[i].val : i \in exts}]

\* Lines of a section that is skipped, which have a meaning in [general].
Spilled == {i \in 1..Len(lines) : /\ IsKey(lines[i])
                                  /\ HeaderOf(i) # 0
                                  /\ IsFolder(lines[HeaderOf(i)])
                                  /\ ~Counts(HeaderOf(i))}
-----------------------------------------------------------------------------
(* Safety *)

\* Every file gets the settings of its nearest section as written, whatever the
\* order and repetition of sections and keys, unless a skipped section (the
\* switch is off, or its path is unsafe) has spilled its keys into the global
\* settings.
SettingsAsWritten ==
    phase \in {"loaded", "reloaded"} /\ Spilled = {} =>
       \A p \in Files : Settings(p) = WrittenSettings(p)

\* The command line wins over the file, and the file over the default, until a
\* reload, which has forgotten the command line.
TargetsAsAsked ==
    phase \in {"loaded", "reloaded"} /\ Spilled = {} =>
       cfg.targets = IF cli # {} THEN cli ELSE WrittenTargets
=============================================================================
