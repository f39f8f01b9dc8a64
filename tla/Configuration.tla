---------------------------- MODULE Configuration ----------------------------
(***************************************************************************)
(* The configuration of each file: FluffConfig of core/config/fluffconfig, *)
(* the layers that load_config_up_to_path combines and caches              *)
(* (core/config/loader), inline directives, and the rules selected from    *)
(* the result. A process makes a root config and lints files and strings   *)
(* with it, while somebody may edit a config file.                         *)
(*                                                                         *)
(* A value is told by where it was set and by the version of that file; a  *)
(* layer stands for the config files of one directory. Configs are nested  *)
(* dicts, so the store says which object holds each section of whose       *)
(* config: a copy that is not deep would share objects.                    *)
(***************************************************************************)
EXTENDS RuleSelection, SequencesExt

CONSTANTS
    Dirs, Ancestry,     \* directories and the path of each from its root
    Home,               \* the user's home directory
    AppDir, Extra,      \* the layers of the appdir and of extra_config_path
    Files, Strings,     \* documents: files linted and strings linted
    DirOf,              \* the directory of each file
    Directives,         \* the keys that each document sets inline
    Lists,              \* the rule references that each source's lists hold
    Workdirs,           \* current working directories considered
    Registers,          \* registers of rules considered
    MaxSettings,        \* bound on the keys set in files and overrides
    MaxEdits,           \* bound on edits of config files
    MaxDocs             \* bound on the documents linted

Docs == Files \cup Strings
Layers == Dirs \cup {AppDir, Extra}
Default == "default"
Override == "override"
Sources == Layers \cup Docs \cup {Default, Override}
Root == "root"
Owners == Layers \cup Docs \cup {Root}

\* Two keys of the core section and one of another.
Settable == [core |-> {"rules", "exclude_rules"}, layout |-> {"indent_unit"}]
Sections == DOMAIN Settable
Keys == UNION {Settable[s] : s \in Sections}

ASSUME SourcesAssumption ==
    /\ Files \cap Strings = {}
    /\ Docs \cap (Layers \cup {Root, Default, Override}) = {}
    /\ Layers \cap {Root, Default, Override} = {}
ASSUME ConfigurationAssumption ==
    /\ Home \in Dirs /\ Workdirs \subseteq Dirs
    /\ Ancestry \in [Dirs -> Seq(Dirs)]
    /\ \A d \in Dirs : Ancestry[d] # <<>> /\ Last(Ancestry[d]) = d
    /\ DirOf \in [Files -> Dirs]
    /\ Directives \in [Docs -> SUBSET Keys]
    /\ Lists \in [Sources -> [Settable.core -> SUBSET (Refs \cup Globs)]]
    /\ \A register \in Registers : IsRegister(register)
    /\ MaxEdits \in Nat

VARIABLES
    cwd, ignoreLocal, overrides, register,  \* how the process was started
    disk,       \* the keys set in each layer and the version of its files
    store,      \* refs: the object of each section; heap: what objects hold
    pack,       \* the codes of the rules each document was linted with
    edits       \* config files edited so far

started == <<cwd, ignoreLocal, overrides, register>>
vars == <<started, disk, store, pack, edits>>

Value(from, ver) == [from |-> from, ver |-> ver]
Setting(keys, from, ver) ==
    [s \in Sections |-> [k \in keys \cap Settable[s] |-> Value(from, ver)]]

-----------------------------------------------------------------------------
(* The store. Layers own the objects of the cache (load_config_at_path).   *)

Unmade == <<>>
Fresh(o) == [s \in Sections |-> o]
NoValues == [s \in Sections |-> <<>>]
Made(st, o) == st.refs[o] # Unmade
Content(st, o) == [s \in Sections |-> st.heap[st.refs[o][s]][s]]

\* A new dict with new sections, as nested_combine and deepcopy make.
Put(st, o, config) ==
    [refs |-> [st.refs EXCEPT ![o] = Fresh(o)],
     heap |-> [st.heap EXCEPT ![o] = config]]

\* Assignment to keys of the dicts of o, whoever else holds them.
Assign(st, o, config) ==
    [st EXCEPT !.heap =
        [p \in Owners |-> [s \in Sections |->
            IF st.refs[o][s] = p THEN config[s] ELSE st.heap[p][s]]]]

\* Mutant for Isolation: copy() without the deep copy of _configs.
CopyShallow(st, o, p) == [st EXCEPT !.refs[o] = st.refs[p]]

\* FluffConfig.copy
Copy(st, o, p) == Put(st, o, Content(st, p))

\* Mutant for OneReading: nothing is cached.
LoadConfigsUncached(st, layers) ==
    [refs |-> [o \in Owners |-> IF o \in layers THEN Fresh(o) ELSE st.refs[o]],
     heap |-> [o \in Owners |->
         IF o \in layers THEN Setting(disk[o].keys, o, disk[o].ver) ELSE st.heap[o]]]

\* load_config_at_path for each of the layers, with its cache.
LoadConfigs(st, layers) ==
    LET new == {l \in layers : ~Made(st, l)}
    IN  [refs |-> [o \in Owners |-> IF o \in new THEN Fresh(o) ELSE st.refs[o]],
         heap |-> [o \in Owners |->
             IF o \in new THEN Setting(disk[o].keys, o, disk[o].ver) ELSE st.heap[o]]]

\* nested_combine: later dicts overwrite earlier ones key by key.
NestedCombine(configs) ==
    [s \in Sections |->
        [k \in UNION {DOMAIN configs[i][s] : i \in DOMAIN configs} |->
            LET last == Max({i \in DOMAIN configs : k \in DOMAIN configs[i][s]})
            IN  configs[last][s][k]]]

-----------------------------------------------------------------------------
\* From the common path, or the outer path where there is none, to the inner.
IterIntermediatePaths(inner, outer) ==
    LET common == LongestCommonPrefix({Ancestry[inner], Ancestry[outer]})
    IN  IF common = <<>> THEN <<outer, inner>>
        ELSE SubSeq(Ancestry[inner], Len(common), Len(Ancestry[inner]))

\* Mutant for NearestWins: the parent directories are combined last.
LayersUpToParentsLast(dir) ==
    LET parents == IterIntermediatePaths(dir, Home)
    IN  (IF ignoreLocal THEN <<>>
         ELSE <<AppDir, Home>> \o IterIntermediatePaths(dir, cwd)
                 \o SubSeq(parents, 2, Len(parents) - 1))
            \o <<Extra>>

\* The layers of load_config_up_to_path in order; both ends of the parents go.
LayersUpTo(dir) ==
    LET parents == IterIntermediatePaths(dir, Home)
    IN  (IF ignoreLocal THEN <<>>
         ELSE <<AppDir, Home>> \o SubSeq(parents, 2, Len(parents) - 1)
                 \o IterIntermediatePaths(dir, cwd))
            \o <<Extra>>

\* The lists are split into references each time the values may have changed.
HandleCommaSeparatedValues(config) ==
    [config EXCEPT !.core =
        Merged(@, [rule_allowlist |-> Lists[config.core.rules.from].rules,
                   rule_denylist |-> Lists[config.core.exclude_rules.from].exclude_rules])]

\* FluffConfig.from_path, make_child_from_path and from_root.
FromPath(st, o, dir) ==
    LET layers == LayersUpTo(dir)
        loaded == LoadConfigs(st, ToSet(layers))
        configs == [i \in DOMAIN layers |-> Content(loaded, layers[i])]
    IN  Put(loaded, o, HandleCommaSeparatedValues(NestedCombine(
            <<Setting(Keys, Default, 0)>> \o configs \o <<Setting(overrides, Override, 0)>>)))

\* Mutant for RulesFollowConfig: the lists are not split again.
ProcessRawFileForConfigUnsplit(st, d) ==
    Assign(st, d, NestedCombine(<<Content(st, d), Setting(Directives[d], d, 0)>>))

\* process_raw_file_for_config
ProcessRawFileForConfig(st, d) ==
    Assign(st, d, HandleCommaSeparatedValues(
        NestedCombine(<<Content(st, d), Setting(Directives[d], d, 0)>>)))

PackOf(st, o) == GetRulepack(register, Content(st, o).core.rule_allowlist,
                             Content(st, o).core.rule_denylist)

-----------------------------------------------------------------------------
LintedDocs == {d \in Docs : Made(store, d)}

\* Overrides come from the command line and are core keys only.
Init ==
    /\ cwd \in Workdirs
    /\ ignoreLocal \in BOOLEAN
    /\ register \in Registers
    /\ \E set \in {{}} \cup {ToSet(f) : f \in [1 .. MaxSettings -> (Layers \cup {Override}) \X Keys]} :
           /\ disk = [l \in Layers |-> [keys |-> {k \in Keys : <<l, k>> \in set}, ver |-> 0]]
           /\ overrides = {k \in Keys : <<Override, k>> \in set}
           /\ overrides \subseteq Settable.core
    /\ store = [refs |-> [o \in Owners |-> Unmade], heap |-> [o \in Owners |-> NoValues]]
    /\ pack = [d \in Docs |-> {}]
    /\ edits = 0

FromRoot ==
    /\ ~Made(store, Root)
    /\ store' = FromPath(store, Root, cwd)
    /\ UNCHANGED <<started, disk, pack, edits>>

\* load_raw_file_and_config, then the rule pack of the rendered file's config.
LintFile(d) ==
    /\ Made(store, Root) /\ ~Made(store, d)
    /\ Cardinality(LintedDocs) < MaxDocs
    /\ store' = ProcessRawFileForConfig(FromPath(store, d, DirOf[d]), d)
    /\ pack' = [pack EXCEPT ![d] = PackOf(store', d)]
    /\ UNCHANGED <<started, disk, edits>>

\* lint_string: parse_string works on a copy, the rule pack is of the original.
LintString(d) ==
    /\ Made(store, Root) /\ ~Made(store, d)
    /\ Cardinality(LintedDocs) < MaxDocs
    /\ store' = ProcessRawFileForConfig(Copy(store, d, Root), d)
    /\ pack' = [pack EXCEPT ![d] = PackOf(store', Root)]
    /\ UNCHANGED <<started, disk, edits>>

\* The user edits the config files of a layer.
Edit(l) ==
    /\ edits < MaxEdits
    /\ disk[l].keys # {}
    /\ disk' = [disk EXCEPT ![l].ver = @ + 1]
    /\ edits' = edits + 1
    /\ UNCHANGED <<started, store, pack>>

Next ==
    \/ FromRoot
    \/ \E d \in Files : LintFile(d)
    \/ \E d \in Strings : LintString(d)
    \/ \E l \in Layers : Edit(l)

Spec == Init /\ [][Next]_vars

-----------------------------------------------------------------------------
\* The store is closed: objects belong to configs that were made, and hold the
\* values of known sources.
TypeOK ==
    /\ disk \in [Layers -> [keys : SUBSET Keys, ver : 0 .. MaxEdits]]
    /\ pack \in [Docs -> SUBSET Codes]
    /\ \A o \in {p \in Owners : Made(store, p)} : \A s \in Sections :
           /\ Made(store, store.refs[o][s])
           /\ \A k \in Settable[s] \cap DOMAIN Content(store, o)[s] :
                  Content(store, o)[s][k] \in [from : Sources, ver : 0 .. MaxEdits]

\* Where the working directory is below the home directory and the file below
\* the working directory, each value is that of the source nearest to the file:
\* its directives, the overrides, the extra config, the directory of the file
\* and those above it up to the home directory, the appdir, the defaults.
Precedence(d) ==
    LET path == Ancestry[DirOf[d]]
    IN  <<Default, AppDir>> \o SubSeq(path, Len(Ancestry[Home]), Len(path))
            \o <<Extra, Override, d>>
Sets(source, k) ==
    \/ source = Default
    \/ source \in Docs /\ k \in Directives[source]
    \/ source = Override /\ k \in overrides
    \/ source \in Layers /\ k \in disk[source].keys /\ (ignoreLocal => source = Extra)
Nested(d) == /\ IsPrefix(Ancestry[Home], Ancestry[cwd])
             /\ IsPrefix(Ancestry[cwd], Ancestry[DirOf[d]])
NearestWins ==
    \A d \in Files \cap LintedDocs : Nested(d) =>
        \A s \in Sections : \A k \in Settable[s] : \E i \in DOMAIN Precedence(d) :
            /\ Content(store, d)[s][k].from = Precedence(d)[i]
            /\ Sets(Precedence(d)[i], k)
            /\ \A j \in DOMAIN Precedence(d) : j > i => ~Sets(Precedence(d)[j], k)

\* All configs of a process agree on what a config file says, although files
\* are loaded one by one while somebody edits it.
OneReading ==
    \A o, p \in {q \in Docs \cup {Root} : Made(store, q)} : \A s \in Sections :
        \A k, j \in Settable[s] :
            LET v == Content(store, o)[s][k]
                w == Content(store, p)[s][j]
            IN  v.from = w.from => v.ver = w.ver

\* A config, once made, is not changed by what is done to others: neither the
\* root config nor the cache take up the directives of a document.
Isolation ==
    [][\A o \in Owners : Made(store, o) => Content(store', o) = Content(store, o)]_vars

\* The rules that a document's own config asks for.
SelectedFor(d) ==
    LET core == Content(store, d).core
    IN  Asked(register, Lists[core.rules.from].rules,
              Lists[core.exclude_rules.from].exclude_rules)

\* A file is linted with the rules that its config selects, directives included.
RulesFollowConfig == \A d \in Files \cap LintedDocs : pack[d] = SelectedFor(d)
=============================================================================
