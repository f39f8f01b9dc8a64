------------------------- MODULE ConfigurationProofs -------------------------
(***************************************************************************)
(* Proofs about Configuration, for any directories, documents, directives  *)
(* and registers: what is done to one config never changes another, all    *)
(* configs of a process agree on what a config file says, each value is of *)
(* the nearest source that sets it, and a file is linted with the rules    *)
(* that its config asks for. For these, merging the maps of codes, names,  *)
(* groups and aliases comes to looking up each reference in that order of  *)
(* precedence, under globs as well.                                        *)
(***************************************************************************)
EXTENDS Configuration, WellFoundedInduction, TLAPS

-----------------------------------------------------------------------------
(* get_rulepack, for every register and every two lists of references.     *)

\* Every reference of the merged map stands for the rules it means.
LEMMA MapMeans ==
    ASSUME NEW reg, IsRegister(reg)
    PROVE  /\ DOMAIN RuleReferenceMap(reg) \subseteq Refs
           /\ \A r \in DOMAIN RuleReferenceMap(reg) :
                  RuleReferenceMap(reg)[r] = Means(reg, r)
           /\ \A r \in Refs \ DOMAIN RuleReferenceMap(reg) : Means(reg, r) = {}
<1> DEFINE at == DOMAIN reg
           names == {reg[i].name : i \in at} \ {NoName}
           groups == UNION {reg[i].groups : i \in at}
           aliases == UNION {reg[i].aliases : i \in at}
           map == RuleReferenceMap(reg)
<1>1. \A i \in at : reg[i] \in Manifest
  BY DEF IsRegister
<1>2. /\ Registered(reg) \subseteq Refs
      /\ names \subseteq Refs /\ groups \subseteq Refs /\ aliases \subseteq Refs
  BY <1>1, SelectionAssumption DEF Manifest, Registered
<1>3. /\ DOMAIN NameMap(reg) = names
      /\ DOMAIN GroupMap(reg) = groups
      /\ DOMAIN AliasMap(reg) = aliases
  BY DEF NameMap, GroupMap, AliasMap
<1>4. DOMAIN map = Registered(reg) \cup names \cup groups \cup aliases
  BY <1>3 DEF RuleReferenceMap, Merged
<1>5. ASSUME NEW r \in DOMAIN map
      PROVE  map[r] = Means(reg, r)
  <2>1. CASE r \in Registered(reg)
    BY <2>1, <1>3 DEF RuleReferenceMap, Merged, Means
  <2>2. CASE r \notin Registered(reg) /\ r \in names
    BY <2>2, <1>3 DEF RuleReferenceMap, Merged, Means, NameMap
  <2>3. CASE r \notin Registered(reg) \cup names /\ r \in groups
    <3>1. ~ \E i \in at : reg[i].name = r
      BY <2>3, <1>2, SelectionAssumption
    <3>2. {i \in at : r \in reg[i].groups} # {}
      BY <2>3
    <3>3. map[r] = GroupMap(reg)[r]
      BY <2>3, <1>3 DEF RuleReferenceMap, Merged
    <3>4. GroupMap(reg)[r]
            = {reg[i].code : i \in {j \in at : r \in reg[j].groups}}
      BY <2>3 DEF GroupMap
    <3> QED
      BY <2>3, <3>1, <3>2, <3>3, <3>4 DEF Means
  <2>4. CASE r \notin Registered(reg) \cup names \cup groups /\ r \in aliases
    <3>1. ~ \E i \in at : reg[i].name = r
      BY <2>4, <1>2, SelectionAssumption
    <3>2. {i \in at : r \in reg[i].groups} = {}
      BY <2>4
    <3>3. map[r] = AliasMap(reg)[r]
      BY <2>4, <1>3 DEF RuleReferenceMap, Merged
    <3>4. AliasMap(reg)[r]
            = {reg[i].code : i \in {j \in at : r \in reg[j].aliases}}
      BY <2>4 DEF AliasMap
    <3> QED
      BY <2>4, <3>1, <3>2, <3>3, <3>4 DEF Means
  <2> QED
    BY <1>4, <2>1, <2>2, <2>3, <2>4
<1>6. ASSUME NEW r \in Refs \ DOMAIN map
      PROVE  Means(reg, r) = {}
  BY <1>4, SelectionAssumption DEF Means
<1> QED
  BY <1>2, <1>4, <1>5, <1>6

\* Expanding a list of references and globs selects the rules it means.
LEMMA ExpandSelects ==
    ASSUME NEW reg, IsRegister(reg),
           NEW list \in SUBSET (Refs \cup Globs)
    PROVE  ExpandRuleRefs(list, RuleReferenceMap(reg)) = Selects(reg, list)
<1> DEFINE map == RuleReferenceMap(reg)
           globbed == UNION {GlobOf[g] : g \in list \cap Globs}
<1>1. /\ DOMAIN map \subseteq Refs
      /\ \A r \in DOMAIN map : map[r] = Means(reg, r)
      /\ \A r \in Refs \ DOMAIN map : Means(reg, r) = {}
  BY MapMeans
<1>2. globbed \subseteq Refs
  BY SelectionAssumption
<1>3. ASSUME NEW c
      PROVE  c \in ExpandRuleRefs(list, map)
               <=> \E r \in (list \cup globbed) \cap DOMAIN map : c \in map[r]
  BY DEF ExpandRuleRefs
<1>4. ASSUME NEW c
      PROVE  c \in Selects(reg, list)
               <=> \E r \in (list \cap Refs) \cup globbed : c \in Means(reg, r)
  BY DEF Selects
<1>5. ASSUME NEW c
      PROVE  c \in ExpandRuleRefs(list, map) <=> c \in Selects(reg, list)
  BY <1>1, <1>2, <1>3, <1>4
<1> QED
  BY <1>5

\* Whatever the rules' names, groups and aliases are and however they collide,
\* get_rulepack selects exactly the rules that the lists ask for, looked up
\* reference by reference as the docstring of rule_reference_map says.
THEOREM RulepackIsAsAsked ==
    ASSUME NEW reg, IsRegister(reg),
           NEW rules \in SUBSET (Refs \cup Globs),
           NEW excludeRules \in SUBSET (Refs \cup Globs)
    PROVE  GetRulepack(reg, rules, excludeRules) = Asked(reg, rules, excludeRules)
<1> DEFINE map == RuleReferenceMap(reg)
<1>1. Registered(reg) \subseteq Refs
  <2>1. \A i \in DOMAIN reg : reg[i] \in Manifest
    BY DEF IsRegister
  <2> QED
    BY <2>1, SelectionAssumption DEF Manifest, Registered
<1>2. \A r \in Refs : Means(reg, r) \subseteq Registered(reg)
  BY DEF Means, Registered, LastNamed
<1>3. ASSUME NEW list \in SUBSET (Refs \cup Globs)
      PROVE  /\ ExpandRuleRefs(list, map) = Selects(reg, list)
             /\ Selects(reg, list) \subseteq Registered(reg)
  <2>1. UNION {GlobOf[g] : g \in list \cap Globs} \subseteq Refs
    BY SelectionAssumption
  <2>2. Selects(reg, list) \subseteq Registered(reg)
    BY <1>2, <2>1 DEF Selects
  <2> QED
    BY <2>2, ExpandSelects
<1>4. Selects(reg, Registered(reg)) = Registered(reg)
  <2>1. \A r \in Registered(reg) : Means(reg, r) = {r}
    BY DEF Means
  <2>2. Registered(reg) \cap Refs = Registered(reg)
        /\ Registered(reg) \cap Globs = {}
    BY <1>1, SelectionAssumption
  <2>3. Registered(reg) \subseteq Selects(reg, Registered(reg))
    BY <2>1, <2>2 DEF Selects
  <2> QED
    BY <1>1, <1>3, <2>3
<1>5. CASE rules = {}
  BY <1>1, <1>3, <1>4, <1>5 DEF GetRulepack, Asked
<1>6. CASE rules # {}
  BY <1>3, <1>6 DEF GetRulepack, Asked
<1> QED
  BY <1>5, <1>6

-----------------------------------------------------------------------------
(* Values and sections.                                                    *)

LEMMA SectionsAre ==
    /\ Sections = {"core", "layout"}
    /\ Settable["core"] = {"rules", "exclude_rules"}
    /\ Settable["layout"] = {"indent_unit"}
    /\ Settable.core = Settable["core"]
  BY DEF Sections, Settable

LEMMA KeysAreAll == \A s \in Sections : Keys \cap Settable[s] = Settable[s]
  BY DEF Keys

LEMMA FreshIsMade == \A o : Fresh(o) # Unmade
  BY SectionsAre DEF Fresh, Unmade

-----------------------------------------------------------------------------
\* A bounded set of numbers has a largest one.
LEMMA BoundedHasLargest ==
    ASSUME NEW n \in Nat, NEW S \in SUBSET (0 .. n), S # {}
    PROVE  \E x \in S : \A y \in S : x >= y
  <1>. DEFINE T == {n - x : x \in S}
  <1>1. T \subseteq Nat /\ T # {}
    <2>1. \A x \in S : x \in Nat /\ n - x \in Nat
      OBVIOUS
    <2>. QED  BY <2>1
  <1>2. PICK t \in T : \A u \in T : ~(<<u, t>> \in OpToRel(<, Nat))
    BY <1>1, WFMin, NatLessThanWellFounded
  <1>3. \A u \in T : ~(u < t)
    BY <1>1, <1>2 DEF OpToRel
  <1>4. PICK x \in S : t = n - x
    OBVIOUS
  <1>5. \A y \in S : x >= y
    <2>1. TAKE y \in S
    <2>2. ~(n - y < n - x)
      BY <1>3, <1>4
    <2>. QED  BY <2>2
  <1>. QED  BY <1>5

LEMMA MaxIsLargest ==
    ASSUME NEW n \in Nat, NEW S \in SUBSET (0 .. n), S # {}
    PROVE  Max(S) \in S /\ \A y \in S : Max(S) >= y
  BY BoundedHasLargest DEF Max

-----------------------------------------------------------------------------
(* What configs hold.                                                      *)

ValuesOf(config) ==
    UNION {{config[s][k] : k \in Settable[s] \cap DOMAIN config[s]} : s \in Sections}

\* A combination holds the values of its parts, and all of their keys.
LEMMA CombinationHolds ==
    ASSUME NEW configs, NEW n \in Nat, DOMAIN configs = 1 .. n
    PROVE  /\ DOMAIN NestedCombine(configs) = Sections
           /\ \A s \in Sections :
                  /\ DOMAIN NestedCombine(configs)[s] = UNION {DOMAIN configs[i][s] : i \in 1 .. n}
                  /\ \A k \in DOMAIN NestedCombine(configs)[s] :
                         \E i \in 1 .. n : /\ k \in DOMAIN configs[i][s]
                                           /\ NestedCombine(configs)[s][k] = configs[i][s][k]
  <1>1. ASSUME NEW s \in Sections, NEW k \in UNION {DOMAIN configs[i][s] : i \in 1 .. n}
        PROVE  LET last == Max({i \in DOMAIN configs : k \in DOMAIN configs[i][s]})
               IN  last \in 1 .. n /\ k \in DOMAIN configs[last][s]
    <2>. DEFINE S == {i \in DOMAIN configs : k \in DOMAIN configs[i][s]}
    <2>1. S \in SUBSET (0 .. n) /\ S # {}
      BY <1>1
    <2>2. Max(S) \in S
      BY <2>1, MaxIsLargest
    <2>. QED  BY <2>2
  <1>2. DOMAIN NestedCombine(configs) = Sections
    BY DEF NestedCombine
  <1>3. ASSUME NEW s \in Sections
        PROVE  /\ DOMAIN NestedCombine(configs)[s] = UNION {DOMAIN configs[i][s] : i \in 1 .. n}
               /\ \A k \in DOMAIN NestedCombine(configs)[s] :
                      \E i \in 1 .. n : /\ k \in DOMAIN configs[i][s]
                                        /\ NestedCombine(configs)[s][k] = configs[i][s][k]
    BY <1>1 DEF NestedCombine
  <1>. QED  BY <1>2, <1>3

\* Splitting the lists changes no value that was set.
LEMMA SplittingHolds ==
    ASSUME NEW config, DOMAIN config = Sections, Settable["core"] \subseteq DOMAIN config["core"]
    PROVE  LET split == HandleCommaSeparatedValues(config)
           IN  /\ DOMAIN split = Sections
               /\ \A s \in Sections : Settable[s] \cap DOMAIN split[s] = Settable[s] \cap DOMAIN config[s]
               /\ \A s \in Sections : \A k \in Settable[s] \cap DOMAIN split[s] : split[s][k] = config[s][k]
               /\ split["core"]["rule_allowlist"] = Lists[split["core"]["rules"].from].rules
               /\ split["core"]["rule_denylist"] = Lists[split["core"]["exclude_rules"].from].exclude_rules
  BY SectionsAre DEF HandleCommaSeparatedValues, Merged

-----------------------------------------------------------------------------
(* The layers of a directory are layers.                                   *)

LEMMA CommonPathIsAPath ==
    ASSUME NEW a \in Seq(Dirs), NEW b \in Seq(Dirs)
    PROVE  LET common == LongestCommonPrefix({a, b})
           IN  common \in Seq(Dirs) /\ Len(common) <= Len(a)
  <1>. DEFINE C == CommonPrefixes({a, b})
              T == {Len(p) : p \in C}
  <1>1. \A p \in C : p \in Seq(Dirs) /\ Len(p) <= Len(a)
    <2>1. TAKE p \in C
    <2>2. PICK x \in {a, b} : p \in Prefixes(x)
      BY DEF CommonPrefixes
    <2>3. PICK l \in 0 .. Len(x) : p = SubSeq(x, 1, l)
      BY <2>2 DEF Prefixes
    <2>4. p \in Seq(Dirs)
      BY <2>2, <2>3
    <2>5. IsPrefix(p, a)
      BY DEF CommonPrefixes
    <2>. QED  BY <2>4, <2>5 DEF IsPrefix
  <1>2. <<>> \in C
    <2>1. \A x \in {a, b} : <<>> = SubSeq(x, 1, 0) /\ 0 \in 0 .. Len(x)
      OBVIOUS
    <2>2. \A x \in {a, b} : <<>> \in Prefixes(x)
      BY <2>1 DEF Prefixes
    <2>3. \A x \in {a, b} : IsPrefix(<<>>, x)
      BY DEF IsPrefix
    <2>. QED  BY <2>2, <2>3 DEF CommonPrefixes
  <1>3. T \in SUBSET (0 .. Len(a)) /\ T # {}
    <2>1. \A p \in C : Len(p) \in 0 .. Len(a)
      BY <1>1
    <2>. QED  BY <1>2, <2>1
  <1>. HIDE DEF T
  <1>4. PICK t \in T : \A u \in T : t >= u
    <2>1. Len(a) \in Nat
      OBVIOUS
    <2>. QED  BY <1>3, <2>1, BoundedHasLargest
  <1>. USE DEF T
  <1>5. \E longest \in C : \A other \in C : Len(other) <= Len(longest)
    <2>1. PICK p \in C : t = Len(p)
      OBVIOUS
    <2>2. \A other \in C : Len(other) \in T /\ Len(other) \in Nat /\ Len(p) \in Nat
      BY <1>1
    <2>3. \A other \in C : Len(other) <= Len(p)
      BY <1>4, <2>1, <2>2
    <2>. QED  BY <2>3
  <1>6. LongestCommonPrefix({a, b}) \in C
    BY <1>5 DEF LongestCommonPrefix
  <1>. QED  BY <1>1, <1>6

LEMMA PathsAreOfDirs ==
    ASSUME NEW inner \in Dirs, NEW outer \in Dirs
    PROVE  IterIntermediatePaths(inner, outer) \in Seq(Dirs)
  <1>. DEFINE a == Ancestry[inner]
              b == Ancestry[outer]
              common == LongestCommonPrefix({a, b})
  <1>1. a \in Seq(Dirs) /\ b \in Seq(Dirs)
    BY ConfigurationAssumption
  <1>2. common \in Seq(Dirs) /\ Len(common) <= Len(a)
    BY <1>1, CommonPathIsAPath
  <1>3. CASE common = <<>>
    BY <1>3 DEF IterIntermediatePaths
  <1>4. CASE common # <<>>
    <2>1. Len(common) \in 1 .. Len(a)
      BY <1>2, <1>4
    <2>2. SubSeq(a, Len(common), Len(a)) \in Seq(Dirs)
      BY <1>1, <2>1
    <2>. QED  BY <1>4, <2>2 DEF IterIntermediatePaths
  <1>. QED  BY <1>3, <1>4

LEMMA LayersAreLayers ==
    ASSUME NEW dir \in Dirs, cwd \in Dirs
    PROVE  LayersUpTo(dir) \in Seq(Layers)
  <1>. DEFINE parents == IterIntermediatePaths(dir, Home)
              local == IterIntermediatePaths(dir, cwd)
              inner == SubSeq(parents, 2, Len(parents) - 1)
  <1>1. parents \in Seq(Dirs) /\ local \in Seq(Dirs)
    BY PathsAreOfDirs, ConfigurationAssumption
  <1>2. inner \in Seq(Dirs)
    BY <1>1
  <1>3. /\ inner \in Seq(Layers) /\ local \in Seq(Layers)
        /\ <<AppDir, Home>> \in Seq(Layers) /\ <<Extra>> \in Seq(Layers)
    <2>. HIDE DEF parents, local, inner
    <2>1. Dirs \subseteq Layers /\ AppDir \in Layers /\ Home \in Layers /\ Extra \in Layers
      BY ConfigurationAssumption DEF Layers
    <2>. QED  BY <1>1, <1>2, <2>1
  <1>. HIDE DEF parents, local, inner
  <1>4. (<<AppDir, Home>> \o inner \o local) \o <<Extra>> \in Seq(Layers)
    BY <1>3
  <1>5. <<>> \o <<Extra>> \in Seq(Layers)
    BY <1>3
  <1>6. LayersUpTo(dir) = (IF ignoreLocal THEN <<>> ELSE <<AppDir, Home>> \o inner \o local) \o <<Extra>>
    BY DEF LayersUpTo, inner, local, parents
  <1>. QED  BY <1>4, <1>5, <1>6

-----------------------------------------------------------------------------
(* The store.                                                              *)

\* Every config that was made has its sections to itself.
Sound(st) ==
    /\ DOMAIN st = {"refs", "heap"}
    /\ DOMAIN st.refs = Owners
    /\ DOMAIN st.heap = Owners
    /\ \A o \in Owners : st.refs[o] \in {Unmade, Fresh(o)}

\* All values that some config holds.
Held(st) == UNION {ValuesOf(Content(st, o)) : o \in {p \in Owners : Made(st, p)}}

\* Values of sources that nobody edits.
Inert == {Value(x, 0) : x \in Sources \ Layers}

\* A value of a layer was read when the layer was, and read once.
Readings(st) ==
    /\ Held(st) \subseteq [from : Sources, ver : 0 .. MaxEdits]
    /\ \A v \in Held(st) : v.from \in Layers => Made(st, v.from)
    /\ \A v \in Held(st) : v.from \notin Layers => v.ver = 0
    /\ \A v, w \in Held(st) : v.from = w.from => v.ver = w.ver

\* A config that was made has sections, the core section among them with lists
\* that were split from its values.
Split(config) ==
    /\ \A s \in Sections : Settable[s] \subseteq DOMAIN config[s]
    /\ config["core"]["rule_allowlist"] = Lists[config["core"]["rules"].from].rules
    /\ config["core"]["rule_denylist"] = Lists[config["core"]["exclude_rules"].from].exclude_rules

LEMMA MadeIsFresh ==
    ASSUME NEW st, Sound(st), NEW o \in Owners
    PROVE  /\ Made(st, o) => st.refs[o] = Fresh(o)
           /\ Made(st, o) => \A s \in Sections : st.refs[o][s] = o
           /\ Made(st, o) => Content(st, o) = [s \in Sections |-> st.heap[o][s]]
  <1>1. Made(st, o) => st.refs[o] = Fresh(o)
    BY DEF Sound, Made
  <1>. QED  BY <1>1 DEF Fresh, Content

\* Putting a config in the store leaves all others as they were.
LEMMA PutIsLocal ==
    ASSUME NEW st, Sound(st), NEW o \in Owners, NEW config, DOMAIN config = Sections
    PROVE  /\ Sound(Put(st, o, config))
           /\ Made(Put(st, o, config), o)
           /\ \A s \in Sections : Content(Put(st, o, config), o)[s] = config[s]
           /\ \A p \in Owners \ {o} : Made(Put(st, o, config), p) <=> Made(st, p)
           /\ \A p \in Owners \ {o} :
                  Made(st, p) => Content(Put(st, o, config), p) = Content(st, p)
  <1>. DEFINE new == Put(st, o, config)
  <1>1. /\ new.refs = [st.refs EXCEPT ![o] = Fresh(o)]
        /\ new.heap = [st.heap EXCEPT ![o] = config]
        /\ DOMAIN new = {"refs", "heap"}
    BY DEF Put
  <1>. HIDE DEF new
  <1>2. /\ DOMAIN new.refs = Owners /\ DOMAIN new.heap = Owners
        /\ new.refs[o] = Fresh(o) /\ new.heap[o] = config
        /\ \A p \in Owners \ {o} : new.refs[p] = st.refs[p] /\ new.heap[p] = st.heap[p]
    BY <1>1 DEF Sound
  <1>3. Sound(new)
    BY <1>1, <1>2 DEF Sound
  <1>4. Made(new, o) /\ \A p \in Owners \ {o} : Made(new, p) <=> Made(st, p)
    BY <1>2, FreshIsMade DEF Made
  <1>5. \A s \in Sections : Content(new, o)[s] = config[s]
    BY <1>2, <1>3, <1>4, MadeIsFresh
  <1>6. ASSUME NEW p \in Owners \ {o}, Made(st, p)
        PROVE  Content(new, p) = Content(st, p)
    BY <1>2, <1>3, <1>4, <1>6, MadeIsFresh
  <1>. QED  BY <1>3, <1>4, <1>5, <1>6 DEF new

\* Assigning to the sections of a config reaches no other.
LEMMA AssignIsLocal ==
    ASSUME NEW st, Sound(st), NEW o \in Owners, Made(st, o), NEW config
    PROVE  /\ Sound(Assign(st, o, config))
           /\ \A p \in Owners : Made(Assign(st, o, config), p) <=> Made(st, p)
           /\ \A s \in Sections : Content(Assign(st, o, config), o)[s] = config[s]
           /\ \A p \in Owners \ {o} :
                  Made(st, p) => Content(Assign(st, o, config), p) = Content(st, p)
  <1>. DEFINE new == Assign(st, o, config)
              heap == [p \in Owners |-> [s \in Sections |->
                          IF st.refs[o][s] = p THEN config[s] ELSE st.heap[p][s]]]
  <1>1. new.refs = st.refs /\ new.heap = heap /\ DOMAIN new = {"refs", "heap"}
    BY DEF Assign, Sound
  <1>. HIDE DEF new
  <1>2. Sound(new)
    BY <1>1 DEF Sound
  <1>3. \A p \in Owners : Made(new, p) <=> Made(st, p)
    BY <1>1 DEF Made
  <1>4. \A s \in Sections : st.refs[o][s] = o
    BY MadeIsFresh
  <1>5. \A s \in Sections : Content(new, o)[s] = config[s]
    BY <1>1, <1>2, <1>3, <1>4, MadeIsFresh
  <1>6. ASSUME NEW p \in Owners \ {o}, Made(st, p)
        PROVE  Content(new, p) = Content(st, p)
    <2>1. Content(new, p) = [s \in Sections |-> new.heap[p][s]]
      BY <1>2, <1>3, <1>6, MadeIsFresh
    <2>2. Content(st, p) = [s \in Sections |-> st.heap[p][s]]
      BY <1>6, MadeIsFresh
    <2>3. \A s \in Sections : new.heap[p][s] = st.heap[p][s]
      BY <1>1, <1>4
    <2>. QED  BY <2>1, <2>2, <2>3
  <1>. QED  BY <1>2, <1>3, <1>5, <1>6 DEF new

-----------------------------------------------------------------------------
(* What is read.                                                           *)

LEMMA HeldValues ==
    ASSUME NEW st
    PROVE  \A v : v \in Held(st) <=>
               \E o \in Owners : Made(st, o) /\ v \in ValuesOf(Content(st, o))
  BY DEF Held

LEMMA SettingHolds ==
    ASSUME NEW keys, NEW from, NEW ver
    PROVE  /\ DOMAIN Setting(keys, from, ver) = Sections
           /\ \A s \in Sections : DOMAIN Setting(keys, from, ver)[s] = keys \cap Settable[s]
           /\ \A v \in ValuesOf(Setting(keys, from, ver)) : v = Value(from, ver)
  BY DEF Setting, ValuesOf

\* The values of a combination are values of its parts.
LEMMA CombinedValues ==
    ASSUME NEW configs, NEW n \in Nat, DOMAIN configs = 1 .. n,
           NEW V, \A i \in 1 .. n : ValuesOf(configs[i]) \subseteq V
    PROVE  ValuesOf(NestedCombine(configs)) \subseteq V
  <1>1. ASSUME NEW s \in Sections, NEW k \in Settable[s] \cap DOMAIN NestedCombine(configs)[s]
        PROVE  NestedCombine(configs)[s][k] \in V
    <2>1. PICK i \in 1 .. n : /\ k \in DOMAIN configs[i][s]
                              /\ NestedCombine(configs)[s][k] = configs[i][s][k]
      BY <1>1, CombinationHolds
    <2>2. configs[i][s][k] \in ValuesOf(configs[i])
      BY <1>1, <2>1 DEF ValuesOf
    <2>. QED  BY <2>1, <2>2
  <1>. QED  BY <1>1 DEF ValuesOf

LEMMA SplitValues ==
    ASSUME NEW config, DOMAIN config = Sections, \A s \in Sections : Settable[s] \subseteq DOMAIN config[s]
    PROVE  /\ DOMAIN HandleCommaSeparatedValues(config) = Sections
           /\ ValuesOf(HandleCommaSeparatedValues(config)) = ValuesOf(config)
           /\ Split(HandleCommaSeparatedValues(config))
  <1>. DEFINE split == HandleCommaSeparatedValues(config)
  <1>1. Settable["core"] \subseteq DOMAIN config["core"]
    BY SectionsAre
  <1>2. /\ DOMAIN split = Sections
        /\ \A s \in Sections : Settable[s] \cap DOMAIN split[s] = Settable[s] \cap DOMAIN config[s]
        /\ \A s \in Sections : \A k \in Settable[s] \cap DOMAIN split[s] : split[s][k] = config[s][k]
        /\ split["core"]["rule_allowlist"] = Lists[split["core"]["rules"].from].rules
        /\ split["core"]["rule_denylist"] = Lists[split["core"]["exclude_rules"].from].exclude_rules
    BY <1>1, SplittingHolds
  <1>. HIDE DEF split
  <1>3. ValuesOf(split) = ValuesOf(config)
    <2>1. \A s \in Sections : {split[s][k] : k \in Settable[s] \cap DOMAIN split[s]}
                                = {config[s][k] : k \in Settable[s] \cap DOMAIN config[s]}
      BY <1>2
    <2>. QED  BY <2>1 DEF ValuesOf
  <1>4. \A s \in Sections : Settable[s] \subseteq DOMAIN split[s]
    BY <1>2
  <1>. QED  BY <1>2, <1>3, <1>4 DEF Split, split

\* Readings stay in order if only values already read, or inert ones, are copied.
LEMMA ReadingsKept ==
    ASSUME NEW st, NEW new, Readings(st),
           \A o \in Owners : Made(st, o) => Made(new, o),
           Held(new) \subseteq Held(st) \cup Inert
    PROVE  Readings(new)
  <1>1. \A v \in Inert : v.from \in Sources /\ v.from \notin Layers /\ v.ver = 0
    BY DEF Inert, Value
  <1>2. 0 \in 0 .. MaxEdits
    BY ConfigurationAssumption
  <1>3. Layers \subseteq Owners
    BY DEF Owners
  <1>4. Inert \subseteq [from : Sources, ver : 0 .. MaxEdits]
    BY <1>2 DEF Inert, Value
  <1>5. Held(new) \subseteq [from : Sources, ver : 0 .. MaxEdits]
    BY <1>4 DEF Readings
  <1>. QED  BY <1>1, <1>3, <1>5 DEF Readings

\* Loading the layers that are not in the cache.
LEMMA LoadingReads ==
    ASSUME NEW st, Sound(st), Readings(st), NEW layers \in SUBSET Layers,
           disk \in [Layers -> [keys : SUBSET Keys, ver : 0 .. MaxEdits]]
    PROVE  LET new == LoadConfigs(st, layers)
           IN  /\ Sound(new)
               /\ Readings(new)
               /\ \A l \in layers : Made(new, l)
               /\ \A o \in Owners : Made(st, o) => Made(new, o) /\ Content(new, o) = Content(st, o)
               /\ \A o \in Owners \ Layers : Made(new, o) <=> Made(st, o)
  <1>. DEFINE new == LoadConfigs(st, layers)
              fresh == {l \in layers : ~Made(st, l)}
  <1>0. fresh \subseteq Layers /\ Layers \subseteq Owners /\ Layers \subseteq Sources
    BY DEF Owners, Sources
  <1>1. /\ new.refs = [o \in Owners |-> IF o \in fresh THEN Fresh(o) ELSE st.refs[o]]
        /\ new.heap = [o \in Owners |->
               IF o \in fresh THEN Setting(disk[o].keys, o, disk[o].ver) ELSE st.heap[o]]
        /\ DOMAIN new = {"refs", "heap"}
    BY DEF LoadConfigs
  <1>. HIDE DEF new
  <1>2. Sound(new)
    BY <1>1 DEF Sound
  <1>3. \A o \in Owners : Made(new, o) <=> Made(st, o) \/ o \in fresh
    BY <1>1, FreshIsMade DEF Made
  <1>4. ASSUME NEW o \in Owners, Made(st, o)
        PROVE  Content(new, o) = Content(st, o)
    <2>1. o \notin fresh
      BY <1>4
    <2>2. Content(new, o) = [s \in Sections |-> new.heap[o][s]]
      BY <1>2, <1>3, <1>4, MadeIsFresh
    <2>3. Content(st, o) = [s \in Sections |-> st.heap[o][s]]
      BY <1>4, MadeIsFresh
    <2>. QED  BY <1>1, <2>1, <2>2, <2>3
  <1>5. ASSUME NEW l \in fresh, NEW v \in ValuesOf(Content(new, l))
        PROVE  v = Value(l, disk[l].ver)
    <2>1. Made(new, l)
      BY <1>0, <1>3, <1>5
    <2>2. Content(new, l) = [s \in Sections |-> Setting(disk[l].keys, l, disk[l].ver)[s]]
      BY <1>0, <1>1, <1>2, <2>1, MadeIsFresh
    <2>3. ValuesOf(Content(new, l)) = ValuesOf(Setting(disk[l].keys, l, disk[l].ver))
      BY <2>2 DEF ValuesOf
    <2>. QED  BY <1>5, <2>3, SettingHolds
  <1>6. ASSUME NEW v \in Held(new)
        PROVE  v \in Held(st) \/ \E l \in fresh : v = Value(l, disk[l].ver)
    <2>1. PICK o \in Owners : Made(new, o) /\ v \in ValuesOf(Content(new, o))
      BY <1>6, HeldValues
    <2>2. CASE o \in fresh
      BY <1>5, <2>1, <2>2
    <2>3. CASE o \notin fresh
      <3>1. Made(st, o) /\ v \in ValuesOf(Content(st, o))
        BY <1>3, <1>4, <2>1, <2>3
      <3>. QED  BY <3>1, HeldValues
    <2>. QED  BY <2>2, <2>3
  <1>7. Readings(new)
    <2>1. \A l \in fresh : /\ Value(l, disk[l].ver).from = l
                           /\ Value(l, disk[l].ver).ver = disk[l].ver
                           /\ disk[l].ver \in 0 .. MaxEdits
                           /\ l \in Sources /\ l \in Layers /\ Made(new, l) /\ ~Made(st, l)
      BY <1>0, <1>3 DEF Value
    <2>2. \A v \in Held(st) : v.from \in Layers => Made(st, v.from) /\ Made(new, v.from)
      BY <1>0, <1>3 DEF Readings
    <2>3. Held(new) \subseteq [from : Sources, ver : 0 .. MaxEdits]
      <3>1. \A l \in fresh : Value(l, disk[l].ver) \in [from : Sources, ver : 0 .. MaxEdits]
        BY <2>1 DEF Value
      <3>. QED  BY <1>6, <3>1 DEF Readings
    <2>4. \A v \in Held(new) : v.from \in Layers => Made(new, v.from)
      BY <1>6, <2>1, <2>2
    <2>5. \A v \in Held(new) : v.from \notin Layers => v.ver = 0
      BY <1>6, <2>1 DEF Readings
    <2>6. ASSUME NEW v \in Held(new), NEW w \in Held(new), v.from = w.from
          PROVE  v.ver = w.ver
      <3>1. CASE v \in Held(st) /\ w \in Held(st)
        BY <2>6, <3>1 DEF Readings
      <3>2. CASE \E l \in fresh : v = Value(l, disk[l].ver)
        BY <1>6, <2>1, <2>2, <2>6, <3>2
      <3>3. CASE \E l \in fresh : w = Value(l, disk[l].ver)
        BY <1>6, <2>1, <2>2, <2>6, <3>3
      <3>. QED  BY <1>6, <3>1, <3>2, <3>3
    <2>. QED  BY <2>3, <2>4, <2>5, <2>6 DEF Readings
  <1>8. \A l \in layers : Made(new, l)
    BY <1>0, <1>3
  <1>9. \A o \in Owners \ Layers : Made(new, o) <=> Made(st, o)
    BY <1>0, <1>3
  <1>. QED  BY <1>2, <1>3, <1>4, <1>7, <1>8, <1>9 DEF new

-----------------------------------------------------------------------------
(* Making and changing configs.                                            *)

DocsAndRoot == Docs \cup {Root}

LEMMA OwnersAreDistinct ==
    /\ DocsAndRoot \subseteq Owners \ Layers
    /\ Layers \subseteq Owners
    /\ {Default, Override} \cup Docs \subseteq Sources \ Layers
    /\ Files \subseteq Docs /\ Strings \subseteq Docs
    /\ Files \cap Strings = {}
    /\ Root \notin Docs
  BY SourcesAssumption DEF DocsAndRoot, Owners, Sources, Docs

\* What Held becomes when a config is put in, or changed in place.
LEMMA HeldAfter ==
    ASSUME NEW st, NEW new, NEW o \in Owners, NEW V,
           ValuesOf(Content(new, o)) \subseteq V,
           \A p \in Owners \ {o} : Made(new, p) => Made(st, p) /\ Content(new, p) = Content(st, p)
    PROVE  Held(new) \subseteq Held(st) \cup V
  <1>1. ASSUME NEW v \in Held(new)
        PROVE  v \in Held(st) \cup V
    <2>1. PICK p \in Owners : Made(new, p) /\ v \in ValuesOf(Content(new, p))
      BY <1>1, HeldValues
    <2>2. CASE p = o
      BY <2>1, <2>2
    <2>3. CASE p # o
      <3>1. Made(st, p) /\ v \in ValuesOf(Content(st, p))
        BY <2>1, <2>3
      <3>. QED  BY <3>1, HeldValues
    <2>. QED  BY <2>2, <2>3
  <1>. QED  BY <1>1

LEMMA SameSections ==
    ASSUME NEW a, NEW b, \A s \in Sections : a[s] = b[s]
    PROVE  ValuesOf(a) = ValuesOf(b) /\ (Split(a) => Split(b))
  <1>1. ValuesOf(a) = ValuesOf(b)
    BY DEF ValuesOf
  <1>2. Split(a) => Split(b)
    BY SectionsAre DEF Split
  <1>. QED  BY <1>1, <1>2

\* Putting in a config whose values have been read, or are inert.
LEMMA PutReads ==
    ASSUME NEW st, Sound(st), Readings(st), NEW o \in Owners,
           NEW config, DOMAIN config = Sections,
           ValuesOf(config) \subseteq Held(st) \cup Inert
    PROVE  Readings(Put(st, o, config))
  <1>. DEFINE new == Put(st, o, config)
  <1>1. /\ Made(new, o)
        /\ \A s \in Sections : Content(new, o)[s] = config[s]
        /\ \A p \in Owners \ {o} : Made(new, p) <=> Made(st, p)
        /\ \A p \in Owners \ {o} : Made(st, p) => Content(new, p) = Content(st, p)
    BY PutIsLocal
  <1>. HIDE DEF new
  <1>2. ValuesOf(Content(new, o)) \subseteq Held(st) \cup Inert
    BY <1>1, SameSections
  <1>3. Held(new) \subseteq Held(st) \cup (Held(st) \cup Inert)
    BY <1>1, <1>2, HeldAfter
  <1>4. \A p \in Owners : Made(st, p) => Made(new, p)
    BY <1>1
  <1>5. Held(new) \subseteq Held(st) \cup Inert
    BY <1>3
  <1>6. Readings(new)
    BY <1>4, <1>5, ReadingsKept
  <1>. QED  BY <1>6 DEF new

\* A config is put together from the layers, and no config that was made before
\* is touched.
LEMMA FromPathMakes ==
    ASSUME NEW st, Sound(st), Readings(st), NEW o \in DocsAndRoot, NEW dir \in Dirs, cwd \in Dirs,
           disk \in [Layers -> [keys : SUBSET Keys, ver : 0 .. MaxEdits]]
    PROVE  LET new == FromPath(st, o, dir)
           IN  /\ Sound(new)
               /\ Readings(new)
               /\ Made(new, o)
               /\ Split(Content(new, o))
               /\ \A p \in Owners \ {o} :
                      Made(st, p) => Made(new, p) /\ Content(new, p) = Content(st, p)
               /\ \A p \in DocsAndRoot \ {o} : Made(new, p) <=> Made(st, p)
  <1>. DEFINE layers == LayersUpTo(dir)
              loaded == LoadConfigs(st, ToSet(layers))
              first == Setting(Keys, Default, 0)
              last == Setting(overrides, Override, 0)
              read == [i \in DOMAIN layers |-> Content(loaded, layers[i])]
              configs == <<first>> \o read \o <<last>>
              combined == NestedCombine(configs)
              config == HandleCommaSeparatedValues(combined)
              n == Len(layers) + 2
              new == Put(loaded, o, config)
  <1>1. layers \in Seq(Layers)
    BY LayersAreLayers
  <1>2. ToSet(layers) \in SUBSET Layers
    BY <1>1 DEF ToSet
  <1>. HIDE DEF layers
  <1>3. /\ Sound(loaded) /\ Readings(loaded)
        /\ \A l \in ToSet(layers) : Made(loaded, l)
        /\ \A p \in Owners : Made(st, p) => Made(loaded, p) /\ Content(loaded, p) = Content(st, p)
        /\ \A p \in Owners \ Layers : Made(loaded, p) <=> Made(st, p)
    BY <1>2, LoadingReads
  <1>. HIDE DEF loaded
  <1>. DEFINE parts == {first, last} \cup {Content(loaded, l) : l \in ToSet(layers)}
  <1>4. /\ DOMAIN configs = 1 .. n /\ n \in Nat
        /\ configs[1] = first
        /\ \A i \in 1 .. n : configs[i] \in parts
    <2>. HIDE DEF first, last
    <2>1. /\ read \in Seq(parts) /\ Len(read) = Len(layers)
          /\ <<first>> \in Seq(parts) /\ <<last>> \in Seq(parts)
      BY <1>1 DEF ToSet
    <2>2. Len(layers) \in Nat
      BY <1>1
    <2>. HIDE DEF read, parts
    <2>3. configs \in Seq(parts) /\ Len(configs) = n /\ configs[1] = first
      BY <2>1, <2>2
    <2>. HIDE DEF configs
    <2>. QED  BY <2>2, <2>3
  <1>5. \A part \in parts : ValuesOf(part) \subseteq Held(loaded) \cup Inert
    <2>1. ValuesOf(first) \subseteq Inert /\ ValuesOf(last) \subseteq Inert
      <3>1. Value(Default, 0) \in Inert /\ Value(Override, 0) \in Inert
        BY OwnersAreDistinct DEF Inert
      <3>. QED  BY <3>1, SettingHolds
    <2>2. \A l \in ToSet(layers) : ValuesOf(Content(loaded, l)) \subseteq Held(loaded)
      BY <1>2, <1>3, OwnersAreDistinct, HeldValues
    <2>. QED  BY <2>1, <2>2
  <1>6. \A s \in Sections : DOMAIN first[s] = Settable[s]
    <2>1. \A s \in Sections : DOMAIN first[s] = Keys \cap Settable[s]
      BY SettingHolds
    <2>. QED  BY <2>1, KeysAreAll
  <1>. HIDE DEF configs, parts, first, last, n
  <1>7. /\ DOMAIN combined = Sections
        /\ \A s \in Sections : Settable[s] \subseteq DOMAIN combined[s]
        /\ ValuesOf(combined) \subseteq Held(loaded) \cup Inert
    <2>1. DOMAIN combined = Sections
      BY <1>4, CombinationHolds
    <2>2. \A s \in Sections : Settable[s] \subseteq DOMAIN combined[s]
      <3>1. TAKE s \in Sections
      <3>2. DOMAIN combined[s] = UNION {DOMAIN configs[i][s] : i \in 1 .. n}
        BY <1>4, CombinationHolds
      <3>3. 1 \in 1 .. n /\ DOMAIN configs[1][s] = Settable[s]
        BY <1>4, <1>6 DEF n
      <3>. QED  BY <3>2, <3>3
    <2>3. \A i \in 1 .. n : ValuesOf(configs[i]) \subseteq Held(loaded) \cup Inert
      BY <1>4, <1>5
    <2>4. ValuesOf(combined) \subseteq Held(loaded) \cup Inert
      BY <1>4, <2>3, CombinedValues
    <2>. QED  BY <2>1, <2>2, <2>4
  <1>. HIDE DEF combined
  <1>8. /\ DOMAIN config = Sections
        /\ ValuesOf(config) \subseteq Held(loaded) \cup Inert
        /\ Split(config)
    BY <1>7, SplitValues
  <1>. HIDE DEF config
  <1>9. o \in Owners
    BY OwnersAreDistinct
  <1>10. /\ Sound(new) /\ Made(new, o)
         /\ \A s \in Sections : Content(new, o)[s] = config[s]
         /\ \A p \in Owners \ {o} : Made(new, p) <=> Made(loaded, p)
         /\ \A p \in Owners \ {o} : Made(loaded, p) => Content(new, p) = Content(loaded, p)
    BY <1>3, <1>8, <1>9, PutIsLocal
  <1>11. Readings(new)
    BY <1>3, <1>8, <1>9, PutReads
  <1>12. FromPath(st, o, dir) = new
    BY DEF FromPath, new, config, combined, configs, first, last, loaded, layers
  <1>. HIDE DEF new
  <1>13. Split(Content(new, o))
    BY <1>8, <1>10, SameSections
  <1>14. \A p \in Owners \ {o} : Made(st, p) => Made(new, p) /\ Content(new, p) = Content(st, p)
    BY <1>3, <1>10
  <1>15. \A p \in DocsAndRoot \ {o} : Made(new, p) <=> Made(st, p)
    BY <1>3, <1>10, OwnersAreDistinct
  <1>. QED  BY <1>10, <1>11, <1>12, <1>13, <1>14, <1>15

\* Directives change the config of their document and no other.
LEMMA DirectivesAreLocal ==
    ASSUME NEW st, Sound(st), Readings(st), NEW d \in Docs, Made(st, d), Split(Content(st, d))
    PROVE  LET new == ProcessRawFileForConfig(st, d)
           IN  /\ Sound(new)
               /\ Readings(new)
               /\ Split(Content(new, d))
               /\ \A p \in Owners : Made(new, p) <=> Made(st, p)
               /\ \A p \in Owners \ {d} : Made(st, p) => Content(new, p) = Content(st, p)
  <1>. DEFINE own == Content(st, d)
              inline == Setting(Directives[d], d, 0)
              configs == <<own, inline>>
              combined == NestedCombine(configs)
              config == HandleCommaSeparatedValues(combined)
              n == 2
              new == Assign(st, d, config)
  <1>1. d \in Owners /\ d \in Sources \ Layers
    BY OwnersAreDistinct DEF DocsAndRoot
  <1>2. ValuesOf(own) \subseteq Held(st) /\ ValuesOf(inline) \subseteq Inert
    <2>1. Value(d, 0) \in Inert
      BY <1>1 DEF Inert
    <2>. QED  BY <1>1, <2>1, SettingHolds, HeldValues
  <1>3. \A s \in Sections : Settable[s] \subseteq DOMAIN own[s]
    BY DEF Split
  <1>. HIDE DEF own, inline
  <1>4. /\ DOMAIN configs = 1 .. n /\ n \in Nat
        /\ \A i \in 1 .. n : configs[i] \in {own, inline}
        /\ 1 \in 1 .. n /\ configs[1] = own
    OBVIOUS
  <1>. HIDE DEF configs, n
  <1>5. /\ DOMAIN combined = Sections
        /\ \A s \in Sections : Settable[s] \subseteq DOMAIN combined[s]
        /\ ValuesOf(combined) \subseteq Held(st) \cup Inert
    <2>1. /\ DOMAIN combined = Sections
          /\ \A s \in Sections : DOMAIN combined[s] = UNION {DOMAIN configs[i][s] : i \in 1 .. n}
      BY <1>4, CombinationHolds
    <2>2. \A s \in Sections : Settable[s] \subseteq DOMAIN combined[s]
      BY <1>3, <1>4, <2>1
    <2>3. \A i \in 1 .. n : ValuesOf(configs[i]) \subseteq Held(st) \cup Inert
      BY <1>2, <1>4
    <2>4. ValuesOf(combined) \subseteq Held(st) \cup Inert
      BY <1>4, <2>3, CombinedValues
    <2>. QED  BY <2>1, <2>2, <2>4
  <1>. HIDE DEF combined
  <1>6. /\ DOMAIN config = Sections
        /\ ValuesOf(config) \subseteq Held(st) \cup Inert
        /\ Split(config)
    BY <1>5, SplitValues
  <1>. HIDE DEF config
  <1>7. /\ Sound(new)
        /\ \A p \in Owners : Made(new, p) <=> Made(st, p)
        /\ \A s \in Sections : Content(new, d)[s] = config[s]
        /\ \A p \in Owners \ {d} : Made(st, p) => Content(new, p) = Content(st, p)
    BY <1>1, AssignIsLocal
  <1>8. ProcessRawFileForConfig(st, d) = new
    BY DEF ProcessRawFileForConfig, new, config, combined, configs, own, inline
  <1>. HIDE DEF new
  <1>9. ValuesOf(Content(new, d)) \subseteq Held(st) \cup Inert /\ Split(Content(new, d))
    BY <1>6, <1>7, SameSections
  <1>10. Held(new) \subseteq Held(st) \cup Inert
    <2>1. Held(new) \subseteq Held(st) \cup (Held(st) \cup Inert)
      BY <1>1, <1>7, <1>9, HeldAfter
    <2>. QED  BY <2>1
  <1>11. Readings(new)
    BY <1>7, <1>10, ReadingsKept
  <1>. QED  BY <1>7, <1>8, <1>9, <1>11

-----------------------------------------------------------------------------
(* The invariant.                                                          *)

InputInv ==
    /\ cwd \in Dirs
    /\ register \in Registers
    /\ edits \in 0 .. MaxEdits
    /\ disk \in [Layers -> [keys : SUBSET Keys, ver : 0 .. edits]]

SplitInv == \A o \in DocsAndRoot : Made(store, o) => Split(Content(store, o))

PackInv ==
    /\ pack \in [Docs -> SUBSET Codes]
    /\ \A d \in Files : Made(store, d) => pack[d] = PackOf(store, d)

Inv ==
    /\ InputInv
    /\ Sound(store)
    /\ Readings(store)
    /\ SplitInv
    /\ PackInv

LEMMA DiskIsBounded ==
    ASSUME Inv
    PROVE  disk \in [Layers -> [keys : SUBSET Keys, ver : 0 .. MaxEdits]]
  <1>1. 0 .. edits \subseteq 0 .. MaxEdits
    BY ConfigurationAssumption DEF Inv, InputInv
  <1>2. disk \in [Layers -> [keys : SUBSET Keys, ver : 0 .. edits]]
    BY DEF Inv, InputInv
  <1>. QED  BY <1>1, <1>2

LEMMA PacksAreOfCodes ==
    ASSUME InputInv, NEW st, NEW o
    PROVE  PackOf(st, o) \in SUBSET Codes
  <1>1. IsRegister(register)
    BY ConfigurationAssumption DEF InputInv
  <1>2. \A i \in DOMAIN register : register[i].code \in Codes
    <2>1. \A i \in DOMAIN register : register[i] \in Manifest
      BY <1>1 DEF IsRegister
    <2>. QED  BY <2>1 DEF Manifest
  <1>. QED  BY <1>2 DEF PackOf, GetRulepack, Registered

LEMMA InitInv == Init => Inv
  <1>. SUFFICES ASSUME Init PROVE Inv
    OBVIOUS
  <1>1. InputInv
    <2>1. cwd \in Dirs /\ register \in Registers /\ edits = 0 /\ 0 \in 0 .. MaxEdits
      BY ConfigurationAssumption DEF Init
    <2>2. PICK set : disk = [l \in Layers |-> [keys |-> {k \in Keys : <<l, k>> \in set}, ver |-> 0]]
      BY DEF Init
    <2>3. disk \in [Layers -> [keys : SUBSET Keys, ver : 0 .. 0]]
      BY <2>2
    <2>. QED  BY <2>1, <2>3 DEF InputInv
  <1>2. /\ DOMAIN store = {"refs", "heap"}
        /\ store.refs = [o \in Owners |-> Unmade] /\ DOMAIN store.heap = Owners
    BY DEF Init
  <1>3. \A o \in Owners : ~Made(store, o)
    BY <1>2 DEF Made
  <1>4. Sound(store)
    BY <1>2 DEF Sound
  <1>5. Held(store) = {}
    BY <1>3, HeldValues
  <1>6. Readings(store)
    BY <1>5 DEF Readings
  <1>7. SplitInv /\ PackInv
    BY <1>3, OwnersAreDistinct DEF SplitInv, PackInv, DocsAndRoot, Init
  <1>. QED  BY <1>1, <1>4, <1>6, <1>7 DEF Inv

\* What a step that makes the config of one owner has to leave as it was.
Grows(o) ==
    /\ \A p \in Owners \ {o} : Made(store, p) => Content(store', p) = Content(store, p)
    /\ \A p \in DocsAndRoot \ {o} : Made(store', p) <=> Made(store, p)

LEMMA FromRootKeeps == Inv /\ FromRoot => Inv' /\ Grows(Root)
  <1>. SUFFICES ASSUME Inv, FromRoot PROVE Inv' /\ Grows(Root)
    OBVIOUS
  <1>1. store' = FromPath(store, Root, cwd) /\ UNCHANGED <<cwd, register, disk, pack, edits>>
    BY DEF FromRoot, started
  <1>2. Root \in DocsAndRoot /\ cwd \in Dirs
    BY DEF DocsAndRoot, Inv, InputInv
  <1>3. /\ Sound(store') /\ Readings(store') /\ Split(Content(store', Root))
        /\ \A p \in Owners \ {Root} :
               Made(store, p) => Made(store', p) /\ Content(store', p) = Content(store, p)
        /\ \A p \in DocsAndRoot \ {Root} : Made(store', p) <=> Made(store, p)
    BY <1>1, <1>2, FromPathMakes, DiskIsBounded DEF Inv
  <1>4. Grows(Root)
    BY <1>3 DEF Grows
  <1>5. SplitInv'
    BY <1>3, OwnersAreDistinct DEF Inv, SplitInv
  <1>6. PackInv'
    <2>1. ASSUME NEW d \in Files, Made(store', d)
          PROVE  pack[d] = PackOf(store', d)
      <3>1. d \in DocsAndRoot \ {Root} /\ d \in Owners \ {Root}
        BY OwnersAreDistinct DEF DocsAndRoot
      <3>2. Made(store, d) /\ Content(store', d) = Content(store, d)
        BY <1>3, <2>1, <3>1
      <3>. QED  BY <1>1, <3>2 DEF Inv, PackInv, PackOf
    <2>2. pack' \in [Docs -> SUBSET Codes]
      BY <1>1 DEF Inv, PackInv
    <2>3. ASSUME NEW d \in Files, Made(store, d)'
          PROVE  (pack[d] = PackOf(store, d))'
      <3>1. pack[d] = PackOf(store', d)
        BY <2>1, <2>3 DEF Made
      <3>. QED  BY <1>1, <3>1 DEF PackOf
    <2>. QED  BY <2>2, <2>3 DEF PackInv
  <1>. QED  BY <1>1, <1>3, <1>4, <1>5, <1>6 DEF Inv, InputInv

LEMMA LintFileKeeps ==
    ASSUME Inv, NEW d \in Files, LintFile(d)
    PROVE  Inv' /\ Grows(d)
  <1>. DEFINE made == FromPath(store, d, DirOf[d])
  <1>1. /\ store' = ProcessRawFileForConfig(made, d)
        /\ pack' = [pack EXCEPT ![d] = PackOf(store', d)]
        /\ UNCHANGED <<cwd, register, disk, edits>>
    BY DEF LintFile, started
  <1>2. d \in Docs /\ d \in DocsAndRoot /\ DirOf[d] \in Dirs /\ cwd \in Dirs
    BY OwnersAreDistinct, ConfigurationAssumption DEF DocsAndRoot, Inv, InputInv
  <1>3. /\ Sound(made) /\ Readings(made) /\ Made(made, d) /\ Split(Content(made, d))
        /\ \A p \in Owners \ {d} :
               Made(store, p) => Made(made, p) /\ Content(made, p) = Content(store, p)
        /\ \A p \in DocsAndRoot \ {d} : Made(made, p) <=> Made(store, p)
    BY <1>2, FromPathMakes, DiskIsBounded DEF Inv
  <1>. HIDE DEF made
  <1>4. /\ Sound(store') /\ Readings(store') /\ Split(Content(store', d))
        /\ \A p \in Owners : Made(store', p) <=> Made(made, p)
        /\ \A p \in Owners \ {d} : Made(made, p) => Content(store', p) = Content(made, p)
    BY <1>1, <1>2, <1>3, DirectivesAreLocal
  <1>5. Grows(d)
    BY <1>3, <1>4, OwnersAreDistinct DEF Grows
  <1>6. SplitInv'
    BY <1>4, <1>5, OwnersAreDistinct DEF Inv, SplitInv, Grows
  <1>7. PackInv'
    <2>1. ASSUME NEW f \in Files, Made(store', f)
          PROVE  pack'[f] = PackOf(store', f)
      <3>1. f \in DocsAndRoot /\ f \in Owners /\ f \in Docs
        BY OwnersAreDistinct DEF DocsAndRoot
      <3>2. CASE f = d
        BY <1>1, <1>2, <3>2 DEF Inv, PackInv
      <3>3. CASE f # d
        <4>1. Made(store, f) /\ Content(store', f) = Content(store, f)
          BY <1>5, <2>1, <3>1, <3>3 DEF Grows
        <4>2. pack'[f] = pack[f]
          BY <1>1, <3>1, <3>3 DEF Inv, PackInv
        <4>. QED  BY <1>1, <4>1, <4>2 DEF Inv, PackInv, PackOf
      <3>. QED  BY <3>2, <3>3
    <2>2. pack' \in [Docs -> SUBSET Codes]
      <3>1. PackOf(store', d) \in SUBSET Codes
        BY PacksAreOfCodes DEF Inv
      <3>. QED  BY <1>1, <3>1 DEF Inv, PackInv
    <2>3. ASSUME NEW f \in Files, Made(store, f)'
          PROVE  (pack[f] = PackOf(store, f))'
      <3>1. pack'[f] = PackOf(store', f)
        BY <2>1, <2>3 DEF Made
      <3>. QED  BY <1>1, <3>1 DEF PackOf
    <2>. QED  BY <2>2, <2>3 DEF PackInv
  <1>. QED  BY <1>1, <1>4, <1>5, <1>6, <1>7 DEF Inv, InputInv

LEMMA LintStringKeeps ==
    ASSUME Inv, NEW d \in Strings, LintString(d)
    PROVE  Inv' /\ Grows(d)
  <1>. DEFINE root == Content(store, Root)
              made == Put(store, d, root)
  <1>1. /\ store' = ProcessRawFileForConfig(made, d)
        /\ pack' = [pack EXCEPT ![d] = PackOf(store', Root)]
        /\ Made(store, Root)
        /\ UNCHANGED <<cwd, register, disk, edits>>
    BY DEF LintString, Copy, started
  <1>2. /\ d \in Docs /\ d \in DocsAndRoot /\ d \in Owners /\ d \notin Files
        /\ Root \in Owners /\ Root \in DocsAndRoot
    BY OwnersAreDistinct DEF DocsAndRoot
  <1>3. DOMAIN root = Sections /\ Split(root) /\ ValuesOf(root) \subseteq Held(store)
    BY <1>1, <1>2, HeldValues DEF Content, Inv, SplitInv
  <1>. HIDE DEF root
  <1>4. /\ Sound(made) /\ Made(made, d)
        /\ \A s \in Sections : Content(made, d)[s] = root[s]
        /\ \A p \in Owners \ {d} : Made(made, p) <=> Made(store, p)
        /\ \A p \in Owners \ {d} : Made(store, p) => Content(made, p) = Content(store, p)
    BY <1>2, <1>3, PutIsLocal DEF Inv
  <1>5. Readings(made)
    BY <1>2, <1>3, PutReads DEF Inv
  <1>. HIDE DEF made
  <1>6. Split(Content(made, d))
    BY <1>3, <1>4, SameSections
  <1>7. /\ Sound(store') /\ Readings(store') /\ Split(Content(store', d))
        /\ \A p \in Owners : Made(store', p) <=> Made(made, p)
        /\ \A p \in Owners \ {d} : Made(made, p) => Content(store', p) = Content(made, p)
    BY <1>1, <1>2, <1>4, <1>5, <1>6, DirectivesAreLocal
  <1>8. Grows(d)
    BY <1>4, <1>7, OwnersAreDistinct DEF Grows
  <1>9. SplitInv'
    BY <1>7, <1>8, OwnersAreDistinct DEF Inv, SplitInv, Grows
  <1>10. PackInv'
    <2>1. PackOf(store', Root) \in SUBSET Codes
      BY PacksAreOfCodes DEF Inv
    <2>2. pack' \in [Docs -> SUBSET Codes]
      BY <1>1, <2>1 DEF Inv, PackInv
    <2>3. ASSUME NEW f \in Files, Made(store, f)'
          PROVE  (pack[f] = PackOf(store, f))'
      <3>1. f \in DocsAndRoot \ {d} /\ f \in Owners \ {d} /\ f \in Docs
        BY <1>2, OwnersAreDistinct DEF DocsAndRoot
      <3>2. Made(store, f) /\ Content(store', f) = Content(store, f)
        BY <1>8, <2>3, <3>1 DEF Grows, Made
      <3>3. pack'[f] = pack[f]
        BY <1>1, <3>1 DEF Inv, PackInv
      <3>. QED  BY <1>1, <3>2, <3>3 DEF Inv, PackInv, PackOf
    <2>. QED  BY <2>2, <2>3 DEF PackInv
  <1>. QED  BY <1>1, <1>7, <1>9, <1>10, <1>8 DEF Inv, InputInv

LEMMA EditKeeps ==
    ASSUME Inv, NEW l \in Layers, Edit(l)
    PROVE  Inv' /\ store' = store
  <1>1. /\ disk' = [disk EXCEPT ![l].ver = @ + 1] /\ edits' = edits + 1 /\ edits < MaxEdits
        /\ store' = store /\ UNCHANGED <<cwd, register, pack>>
    BY DEF Edit, started
  <1>2. /\ edits \in Nat /\ MaxEdits \in Nat
        /\ disk \in [Layers -> [keys : SUBSET Keys, ver : 0 .. edits]]
    BY ConfigurationAssumption DEF Inv, InputInv
  <1>3. disk' \in [Layers -> [keys : SUBSET Keys, ver : 0 .. edits']]
    <2>1. ASSUME NEW m \in Layers
          PROVE  disk'[m] \in [keys : SUBSET Keys, ver : 0 .. edits']
      <3>1. disk[m] \in [keys : SUBSET Keys, ver : 0 .. edits]
        BY <1>2
      <3>2. disk'[m] = IF m = l THEN [disk[m] EXCEPT !.ver = @ + 1] ELSE disk[m]
        BY <1>1, <1>2
      <3>. QED  BY <1>1, <1>2, <3>1, <3>2
    <2>. QED  BY <1>1, <1>2, <2>1
  <1>4. InputInv'
    BY <1>1, <1>2, <1>3 DEF Inv, InputInv
  <1>5. (Sound(store) /\ Readings(store) /\ SplitInv)'
    BY <1>1 DEF Inv, SplitInv
  <1>6. PackInv'
    BY <1>1 DEF Inv, PackInv, PackOf
  <1>. QED  BY <1>1, <1>4, <1>5, <1>6 DEF Inv

LEMMA StutterKeeps == Inv /\ UNCHANGED vars => Inv' /\ store' = store
  BY DEF Inv, InputInv, SplitInv, PackInv, PackOf, vars, started

\* What was read, split and selected stays so, whatever is linted or edited.
THEOREM Invariance == Spec => []Inv
  <1>1. Inv /\ [Next]_vars => Inv'
    BY FromRootKeeps, LintFileKeeps, LintStringKeeps, EditKeeps, StutterKeeps DEF Next
  <1>. QED  BY <1>1, InitInv, PTL DEF Spec

-----------------------------------------------------------------------------
\* FluffConfig.copy is deep and from_path combines into new dicts: linting a
\* document changes neither the root config, nor the cached layers, nor the
\* config of another document.
THEOREM ConfigsAreIsolated == Spec => Isolation
  <1>1. ASSUME Inv, [Next]_vars, NEW o \in Owners, Made(store, o)
        PROVE  Content(store', o) = Content(store, o)
    <2>1. CASE FromRoot
      BY <1>1, <2>1, FromRootKeeps DEF Grows, FromRoot
    <2>2. ASSUME NEW d \in Files, LintFile(d)
          PROVE  Content(store', o) = Content(store, o)
      BY <1>1, <2>2, LintFileKeeps DEF Grows, LintFile
    <2>3. ASSUME NEW d \in Strings, LintString(d)
          PROVE  Content(store', o) = Content(store, o)
      BY <1>1, <2>3, LintStringKeeps DEF Grows, LintString
    <2>4. ASSUME NEW l \in Layers, Edit(l)
          PROVE  Content(store', o) = Content(store, o)
      BY <1>1, <2>4, EditKeeps
    <2>5. CASE UNCHANGED vars
      BY <1>1, <2>5, StutterKeeps
    <2>. QED  BY <1>1, <2>1, <2>2, <2>3, <2>4, <2>5 DEF Next
  <1>2. Inv /\ [Next]_vars =>
            [\A o \in Owners : Made(store, o) => Content(store', o) = Content(store, o)]_vars
    BY <1>1
  <1>. QED  BY <1>2, Invariance, PTL DEF Spec, Isolation

\* The values of a config that was made are held by the store.
LEMMA ValuesAreHeld ==
    ASSUME Inv, NEW o \in DocsAndRoot, Made(store, o), NEW s \in Sections, NEW k \in Settable[s]
    PROVE  Content(store, o)[s][k] \in Held(store)
  <1>1. o \in Owners /\ Split(Content(store, o))
    BY OwnersAreDistinct DEF Inv, SplitInv
  <1>2. k \in DOMAIN Content(store, o)[s]
    BY <1>1 DEF Split
  <1>. QED  BY <1>1, <1>2, HeldValues DEF ValuesOf

\* load_config_at_path reads a file once and keeps what it says: all configs of
\* a process have the values of one version of it.
THEOREM ReadingsAgree == Spec => []OneReading
  <1>1. Inv => OneReading
    BY ValuesAreHeld DEF OneReading, DocsAndRoot, Inv, Readings
  <1>. QED  BY <1>1, Invariance, PTL

\* load_raw_file_and_config splits the lists again after the directives, so that
\* get_rulepack gives the rules that the file's own config asks for.
THEOREM RulesAreAsConfigured == Spec => []RulesFollowConfig
  <1>1. ASSUME Inv, NEW d \in Files, Made(store, d)
        PROVE  pack[d] = SelectedFor(d)
    <2>. DEFINE core == Content(store, d)["core"]
                rules == Lists[core["rules"].from].rules
                excluded == Lists[core["exclude_rules"].from].exclude_rules
    <2>1. d \in DocsAndRoot /\ pack[d] = PackOf(store, d)
      BY <1>1, OwnersAreDistinct DEF DocsAndRoot, Inv, PackInv
    <2>2. core["rules"] \in Held(store) /\ core["exclude_rules"] \in Held(store)
      BY <1>1, <2>1, ValuesAreHeld, SectionsAre
    <2>3. core["rules"].from \in Sources /\ core["exclude_rules"].from \in Sources
      BY <1>1, <2>2 DEF Inv, Readings
    <2>4. core["rule_allowlist"] = rules /\ core["rule_denylist"] = excluded
      BY <1>1, <2>1 DEF Inv, SplitInv, Split
    <2>. HIDE DEF core
    <2>5. rules \in SUBSET (Refs \cup Globs) /\ excluded \in SUBSET (Refs \cup Globs)
      <3>1. \A x \in Sources : Lists[x] \in [{"rules", "exclude_rules"} -> SUBSET (Refs \cup Globs)]
        BY ConfigurationAssumption, SectionsAre
      <3>. QED  BY <2>3, <3>1
    <2>6. IsRegister(register)
      BY <1>1, ConfigurationAssumption DEF Inv, InputInv
    <2>. HIDE DEF rules, excluded
    <2>7. GetRulepack(register, rules, excluded) = Asked(register, rules, excluded)
      BY <2>5, <2>6, RulepackIsAsAsked
    <2>. QED  BY <2>1, <2>4, <2>7 DEF PackOf, SelectedFor, core, rules, excluded
  <1>2. Inv => RulesFollowConfig
    BY <1>1 DEF RulesFollowConfig, LintedDocs
  <1>. QED  BY <1>2, Invariance, PTL

\* Objects belong to configs that were made, and values come from known sources.
THEOREM TypeCorrect == Spec => []TypeOK
  <1>1. ASSUME Inv, NEW o \in Owners, Made(store, o), NEW s \in Sections
        PROVE  /\ Made(store, store.refs[o][s])
               /\ \A k \in Settable[s] \cap DOMAIN Content(store, o)[s] :
                      Content(store, o)[s][k] \in [from : Sources, ver : 0 .. MaxEdits]
    <2>1. store.refs[o][s] = o
      BY <1>1, MadeIsFresh DEF Inv
    <2>2. \A k \in Settable[s] \cap DOMAIN Content(store, o)[s] : Content(store, o)[s][k] \in Held(store)
      BY <1>1, HeldValues DEF ValuesOf
    <2>. QED  BY <1>1, <2>1, <2>2 DEF Inv, Readings
  <1>2. Inv => TypeOK
    BY <1>1, DiskIsBounded DEF TypeOK, Inv, PackInv
  <1>. QED  BY <1>2, Invariance, PTL
-----------------------------------------------------------------------------
(* Which source a value comes from.                                        *)

\* The last of a sequence of sources that sets a key; none of them sets it.
LastSets(sources, k, x) ==
    \E i \in DOMAIN sources :
        /\ x = sources[i]
        /\ Sets(sources[i], k)
        /\ \A j \in DOMAIN sources : j > i => ~Sets(sources[j], k)

NoneSets(sources, k) == \A i \in DOMAIN sources : ~Sets(sources[i], k)

LEMMA LastOfBoth ==
    ASSUME NEW a \in Seq(Sources), NEW b \in Seq(Sources), NEW k, NEW x
    PROVE  /\ NoneSets(a \o b, k) <=> NoneSets(a, k) /\ NoneSets(b, k)
           /\ LastSets(a \o b, k, x) <=> LastSets(b, k, x) \/ (LastSets(a, k, x) /\ NoneSets(b, k))
  <1>. DEFINE c == a \o b
              m == Len(a)
              n == Len(b)
  <1>1. /\ m \in Nat /\ n \in Nat /\ DOMAIN a = 1 .. m /\ DOMAIN b = 1 .. n /\ DOMAIN c = 1 .. m + n
        /\ \A i \in 1 .. m : c[i] = a[i] /\ i \in 1 .. m + n
        /\ \A i \in 1 .. n : c[m + i] = b[i] /\ m + i \in 1 .. m + n
        /\ \A i \in 1 .. m + n : i \in 1 .. m \/ i - m \in 1 .. n
        /\ \A i \in 1 .. m + n : i - m \in 1 .. n => c[i] = b[i - m]
    OBVIOUS
  <1>. HIDE DEF c, m, n
  <1>2. NoneSets(c, k) <=> NoneSets(a, k) /\ NoneSets(b, k)
    BY <1>1 DEF NoneSets
  <1>3. LastSets(b, k, x) => LastSets(c, k, x)
    <2>1. SUFFICES ASSUME NEW i \in 1 .. n, x = b[i], Sets(b[i], k),
                          \A j \in 1 .. n : j > i => ~Sets(b[j], k)
                   PROVE  LastSets(c, k, x)
      BY <1>1 DEF LastSets
    <2>2. ASSUME NEW j \in 1 .. m + n, j > m + i PROVE ~Sets(c[j], k)
      <3>1. j - m \in 1 .. n /\ j - m > i
        BY <1>1, <2>2
      <3>. QED  BY <1>1, <2>1, <3>1
    <2>3. m + i \in 1 .. m + n /\ c[m + i] = b[i]
      BY <1>1
    <2>. QED  BY <1>1, <2>1, <2>2, <2>3 DEF LastSets
  <1>4. LastSets(a, k, x) /\ NoneSets(b, k) => LastSets(c, k, x)
    <2>1. SUFFICES ASSUME NEW i \in 1 .. m, x = a[i], Sets(a[i], k), NoneSets(b, k),
                          \A j \in 1 .. m : j > i => ~Sets(a[j], k)
                   PROVE  LastSets(c, k, x)
      BY <1>1 DEF LastSets
    <2>2. \A j \in 1 .. m + n : j > i => ~Sets(c[j], k)
      BY <1>1, <2>1 DEF NoneSets
    <2>. QED  BY <1>1, <2>1, <2>2 DEF LastSets
  <1>5. LastSets(c, k, x) => LastSets(b, k, x) \/ (LastSets(a, k, x) /\ NoneSets(b, k))
    <2>1. SUFFICES ASSUME NEW i \in 1 .. m + n, x = c[i], Sets(c[i], k),
                          \A j \in 1 .. m + n : j > i => ~Sets(c[j], k)
                   PROVE  LastSets(b, k, x) \/ (LastSets(a, k, x) /\ NoneSets(b, k))
      BY <1>1 DEF LastSets
    <2>2. CASE i \in 1 .. m
      <3>1. \A j \in 1 .. m : j > i => ~Sets(a[j], k)
        BY <1>1, <2>1
      <3>2. ASSUME NEW j \in 1 .. n PROVE ~Sets(b[j], k)
        <4>1. m + j > i
          BY <1>1, <2>2
        <4>. QED  BY <1>1, <2>1, <4>1
      <3>. QED  BY <1>1, <2>1, <2>2, <3>1, <3>2 DEF LastSets, NoneSets
    <2>3. CASE i - m \in 1 .. n
      <3>1. ASSUME NEW j \in 1 .. n, j > i - m PROVE ~Sets(b[j], k)
        <4>1. m + j > i
          BY <1>1, <3>1
        <4>. QED  BY <1>1, <2>1, <4>1
      <3>. QED  BY <1>1, <2>1, <2>3, <3>1 DEF LastSets
    <2>. QED  BY <1>1, <2>2, <2>3
  <1>. QED  BY <1>2, <1>3, <1>4, <1>5 DEF c

\* What nested_combine takes comes from the last source that sets the key.
LEMMA CombinedFromLast ==
    ASSUME NEW n \in Nat, NEW configs, DOMAIN configs = 1 .. n,
           NEW sources, DOMAIN sources = 1 .. n,
           NEW s \in Sections, NEW k,
           \A i \in 1 .. n : k \in DOMAIN configs[i][s] <=> Sets(sources[i], k),
           \A i \in 1 .. n : k \in DOMAIN configs[i][s] => configs[i][s][k].from = sources[i],
           NEW e \in 1 .. n, Sets(sources[e], k)
    PROVE  LastSets(sources, k, NestedCombine(configs)[s][k].from)
  <1>. DEFINE S == {i \in DOMAIN configs : k \in DOMAIN configs[i][s]}
              last == Max(S)
  <1>1. S \in SUBSET (0 .. n) /\ S # {}
    OBVIOUS
  <1>2. last \in S /\ \A i \in S : last >= i
    <2>. HIDE DEF S
    <2>. QED  BY <1>1, MaxIsLargest
  <1>3. k \in UNION {DOMAIN configs[i][s] : i \in DOMAIN configs}
    OBVIOUS
  <1>4. NestedCombine(configs)[s][k] = configs[last][s][k]
    BY <1>3 DEF NestedCombine
  <1>. HIDE DEF last
  <1>5. \A i \in 1 .. n : i > last => ~Sets(sources[i], k)
    <2>1. \A i \in 1 .. n : i > last => i \notin S
      BY <1>1, <1>2
    <2>. QED  BY <2>1
  <1>6. last \in 1 .. n /\ Sets(sources[last], k) /\ configs[last][s][k].from = sources[last]
    BY <1>2
  <1>. QED  BY <1>4, <1>5, <1>6 DEF LastSets
-----------------------------------------------------------------------------
(* The order of the sources.                                               *)

LEMMA PrefixIsCommonPath ==
    ASSUME NEW a \in Seq(Dirs), NEW b \in Seq(Dirs), IsPrefix(b, a)
    PROVE  LongestCommonPrefix({a, b}) = b
  <1>. DEFINE C == CommonPrefixes({a, b})
  <1>1. b \in C
    <2>1. b = SubSeq(b, 1, Len(b)) /\ Len(b) \in 0 .. Len(b)
      OBVIOUS
    <2>2. b \in Prefixes(b)
      BY <2>1 DEF Prefixes
    <2>3. IsPrefix(b, b)
      BY DEF IsPrefix
    <2>. QED  BY <2>2, <2>3 DEF CommonPrefixes
  <1>2. ASSUME NEW p \in C PROVE Len(p) <= Len(b) /\ (Len(p) >= Len(b) => p = b)
    <2>1. PICK y \in {a, b} : p \in Prefixes(y)
      BY DEF CommonPrefixes
    <2>2. PICK l \in 0 .. Len(y) : p = SubSeq(y, 1, l)
      BY <2>1 DEF Prefixes
    <2>3. p \in Seq(Dirs)
      BY <2>1, <2>2
    <2>4. IsPrefix(p, b)
      BY DEF CommonPrefixes
    <2>5. Len(p) <= Len(b) /\ SubSeq(p, 1, Len(p)) = SubSeq(b, 1, Len(p))
      BY <2>4 DEF IsPrefix
    <2>6. SubSeq(p, 1, Len(p)) = p /\ SubSeq(b, 1, Len(b)) = b /\ Len(p) \in Nat /\ Len(b) \in Nat
      BY <2>3
    <2>. QED  BY <2>5, <2>6
  <1>3. \A other \in C : Len(other) <= Len(b)
    BY <1>2
  <1>4. LongestCommonPrefix({a, b}) \in C /\ Len(b) <= Len(LongestCommonPrefix({a, b}))
    <2>1. \E longest \in C : \A other \in C : Len(other) <= Len(longest)
      BY <1>1, <1>3
    <2>. QED  BY <1>1, <2>1 DEF LongestCommonPrefix
  <1>5. LongestCommonPrefix({a, b}) \in Seq(Dirs)
    BY CommonPathIsAPath
  <1>. DEFINE common == LongestCommonPrefix({a, b})
  <1>. HIDE DEF common
  <1>6. Len(common) >= Len(b)
    <2>1. Len(common) \in Nat /\ Len(b) \in Nat
      BY <1>5 DEF common
    <2>. QED  BY <1>4, <2>1 DEF common
  <1>7. common = b
    BY <1>2, <1>4, <1>6 DEF common
  <1>. QED  BY <1>7 DEF common

\* Below the outer path, the paths are those of the ancestry from there on.
LEMMA PathsBelow ==
    ASSUME NEW inner \in Dirs, NEW outer \in Dirs, IsPrefix(Ancestry[outer], Ancestry[inner])
    PROVE  LET a == Ancestry[inner]
               b == Ancestry[outer]
           IN  /\ a \in Seq(Dirs) /\ b \in Seq(Dirs)
               /\ Len(b) \in 1 .. Len(a)
               /\ a[Len(b)] = outer
               /\ IterIntermediatePaths(inner, outer) = SubSeq(a, Len(b), Len(a))
  <1>. DEFINE a == Ancestry[inner]
              b == Ancestry[outer]
  <1>1. a \in Seq(Dirs) /\ b \in Seq(Dirs) /\ b # <<>> /\ b[Len(b)] = outer
    BY ConfigurationAssumption DEF Last
  <1>2. LongestCommonPrefix({a, b}) = b
    BY <1>1, PrefixIsCommonPath
  <1>3. Len(b) <= Len(a) /\ SubSeq(b, 1, Len(b)) = SubSeq(a, 1, Len(b))
    BY DEF IsPrefix
  <1>4. Len(b) \in 1 .. Len(a)
    BY <1>1, <1>3
  <1>5. a[Len(b)] = outer
    <2>1. SubSeq(b, 1, Len(b))[Len(b)] = b[Len(b)] /\ SubSeq(a, 1, Len(b))[Len(b)] = a[Len(b)]
      BY <1>1, <1>4
    <2>. QED  BY <1>1, <1>3, <2>1
  <1>6. IterIntermediatePaths(inner, outer) = SubSeq(a, Len(b), Len(a))
    BY <1>1, <1>2 DEF IterIntermediatePaths
  <1>. QED  BY <1>1, <1>4, <1>5, <1>6

\* The sources in the order in which load_raw_file_and_config combines them.
CombinedSources(d) == <<Default>> \o LayersUpTo(DirOf[d]) \o <<Override, d>>

LEMMA SourcesAreApart ==
    /\ Layers \subseteq Sources /\ Docs \subseteq Sources /\ Default \in Sources /\ Override \in Sources
    /\ Dirs \subseteq Layers /\ AppDir \in Layers /\ Extra \in Layers /\ Home \in Dirs
    /\ Default # Override
    /\ \A l \in Layers : l \notin Docs /\ l # Default /\ l # Override /\ l # Root
    /\ \A d \in Docs : d \notin Layers /\ d # Default /\ d # Override /\ d # Root
    /\ Default \notin Docs /\ Override \notin Docs /\ Default \notin Layers /\ Override \notin Layers
  BY SourcesAssumption, ConfigurationAssumption DEF Layers, Sources, Docs, Default, Override

\* Local config files in the order of load_config_up_to_path: with the parents
\* of the directory below home first, then its paths from the working directory.
LEMMA LocalLayersInOrder ==
    ASSUME NEW d \in Files, cwd \in Dirs, Nested(d), NEW k, NEW x
    PROVE  LET path == Ancestry[DirOf[d]]
               parents == IterIntermediatePaths(DirOf[d], Home)
               outer == SubSeq(parents, 2, Len(parents) - 1)
               local == IterIntermediatePaths(DirOf[d], cwd)
               whole == SubSeq(path, Len(Ancestry[Home]), Len(path))
           IN  /\ whole \in Seq(Layers)
               /\ NoneSets(<<Home>> \o outer \o local, k) => NoneSets(whole, k)
               /\ LastSets(<<Home>> \o outer \o local, k, x) => LastSets(whole, k, x)
  <1>. DEFINE dir == DirOf[d]
              path == Ancestry[dir]
              parents == IterIntermediatePaths(dir, Home)
              outer == SubSeq(parents, 2, Len(parents) - 1)
              local == IterIntermediatePaths(dir, cwd)
              h == Len(Ancestry[Home])
              c == Len(Ancestry[cwd])
              n == Len(path)
              whole == SubSeq(path, h, n)
  <1>1. dir \in Dirs /\ Home \in Dirs /\ cwd \in Dirs
    BY ConfigurationAssumption
  <1>2. IsPrefix(Ancestry[Home], Ancestry[cwd]) /\ IsPrefix(Ancestry[cwd], path)
    BY DEF Nested
  <1>3. /\ Ancestry[Home] \in Seq(Dirs) /\ Ancestry[cwd] \in Seq(Dirs) /\ path \in Seq(Dirs)
        /\ c \in 1 .. n /\ local = SubSeq(path, c, n) /\ h \in 1 .. c
    BY <1>1, <1>2, PathsBelow
  <1>4. IsPrefix(Ancestry[Home], path)
    <2>1. /\ SubSeq(Ancestry[Home], 1, h) = SubSeq(Ancestry[cwd], 1, h)
          /\ SubSeq(Ancestry[cwd], 1, c) = SubSeq(path, 1, c)
      BY <1>2 DEF IsPrefix
    <2>2. \A i \in 1 .. c : Ancestry[cwd][i] = path[i]
      <3>1. \A i \in 1 .. c : SubSeq(Ancestry[cwd], 1, c)[i] = Ancestry[cwd][i] /\ SubSeq(path, 1, c)[i] = path[i]
        BY <1>3
      <3>. QED  BY <2>1, <3>1
    <2>3. SubSeq(Ancestry[cwd], 1, h) = SubSeq(path, 1, h)
      BY <1>3, <2>2
    <2>. QED  BY <1>3, <2>1, <2>3 DEF IsPrefix
  <1>5. path[h] = Home /\ parents = SubSeq(path, h, n)
    BY <1>1, <1>4, PathsBelow
  <1>. HIDE DEF dir, path, local, h, c, parents
  <1>6. n \in Nat /\ c \in 1 .. n /\ h \in 1 .. c /\ DOMAIN path = 1 .. n
    BY <1>3
  <1>. HIDE DEF n
  <1>7. /\ DOMAIN whole = 1 .. n - h + 1 /\ \A i \in 1 .. n - h + 1 : whole[i] = path[h + i - 1]
        /\ whole \in Seq(Dirs) /\ Len(whole) = n - h + 1
    BY <1>3, <1>6
  <1>8. /\ DOMAIN local = 1 .. n - c + 1 /\ \A i \in 1 .. n - c + 1 : local[i] = path[c + i - 1]
        /\ local \in Seq(Dirs)
    BY <1>3, <1>6
  <1>9. /\ outer \in Seq(Dirs)
        /\ \A i \in 1 .. n - h - 1 : i \in DOMAIN outer
        /\ \A i \in DOMAIN outer : i \in 1 .. n - h - 1 /\ outer[i] = path[h + i]
    <2>1. parents = whole
      BY <1>5
    <2>. HIDE DEF whole
    <2>2. outer = SubSeq(whole, 2, n - h)
      <3>1. Len(parents) - 1 = n - h
        BY <1>6, <1>7, <2>1
      <3>. QED  BY <2>1, <3>1
    <2>3. CASE n - h < 2
      <3>1. outer = <<>>
        BY <1>6, <1>7, <2>2, <2>3
      <3>2. 1 .. n - h - 1 = {} /\ DOMAIN <<>> = {} /\ <<>> \in Seq(Dirs)
        BY <1>6, <2>3
      <3>. HIDE DEF outer
      <3>. QED  BY <3>1, <3>2
    <2>4. CASE n - h >= 2
      <3>1. DOMAIN outer = 1 .. n - h - 1 /\ \A i \in 1 .. n - h - 1 : outer[i] = whole[i + 1]
        BY <1>6, <1>7, <2>2, <2>4
      <3>2. \A i \in 1 .. n - h - 1 : i + 1 \in 1 .. n - h + 1 /\ h + (i + 1) - 1 = h + i
        BY <1>6, <2>4
      <3>3. outer \in Seq(Dirs)
        BY <1>6, <1>7, <2>2, <2>4
      <3>. HIDE DEF outer
      <3>4. \A i \in 1 .. n - h - 1 : outer[i] = path[h + i]
        BY <1>7, <3>1, <3>2
      <3>. QED  BY <3>1, <3>3, <3>4
    <2>. QED  BY <1>6, <2>3, <2>4
  <1>. HIDE DEF outer, whole
  <1>10. NoneSets(<<Home>> \o outer \o local, k) <=> ~Sets(Home, k) /\ NoneSets(outer, k) /\ NoneSets(local, k)
    <2>1. <<Home>> \in Seq(Sources) /\ outer \in Seq(Sources) /\ local \in Seq(Sources)
      BY <1>8, <1>9, SourcesAreApart
    <2>2. <<Home>> \o outer \in Seq(Sources)
      BY <2>1
    <2>3. NoneSets(<<Home>>, k) <=> ~Sets(Home, k)
      BY DEF NoneSets
    <2>. QED  BY <2>1, <2>2, <2>3, LastOfBoth
  <1>11. LastSets(<<Home>> \o outer \o local, k, x) <=>
            \/ LastSets(local, k, x)
            \/ LastSets(outer, k, x) /\ NoneSets(local, k)
            \/ x = Home /\ Sets(Home, k) /\ NoneSets(outer, k) /\ NoneSets(local, k)
    <2>1. <<Home>> \in Seq(Sources) /\ outer \in Seq(Sources) /\ local \in Seq(Sources)
      BY <1>8, <1>9, SourcesAreApart
    <2>2. <<Home>> \o outer \in Seq(Sources)
      BY <2>1
    <2>3. LastSets(<<Home>>, k, x) <=> x = Home /\ Sets(Home, k)
      BY DEF LastSets
    <2>. QED  BY <2>1, <2>2, <2>3, LastOfBoth
  <1>12. \A i \in 1 .. n - h + 1 : i = 1 \/ i - 1 \in DOMAIN outer \/ h + i - c \in DOMAIN local
    BY <1>6, <1>8, <1>9
  <1>13. ASSUME NEW i \in 1 .. n - h + 1, i - 1 \in DOMAIN outer PROVE outer[i - 1] = whole[i]
    <2>1. outer[i - 1] = path[h + (i - 1)] /\ h + (i - 1) = h + i - 1
      BY <1>6, <1>9, <1>13
    <2>. QED  BY <1>7, <2>1
  <1>14. ASSUME NEW i \in 1 .. n - h + 1, h + i - c \in DOMAIN local PROVE local[h + i - c] = whole[i]
    <2>1. local[h + i - c] = path[c + (h + i - c) - 1] /\ c + (h + i - c) - 1 = h + i - 1
      BY <1>6, <1>8, <1>14
    <2>. QED  BY <1>7, <2>1
  <1>15. whole[1] = Home /\ 1 \in 1 .. n - h + 1
    BY <1>5, <1>6, <1>7
  <1>16. NoneSets(<<Home>> \o outer \o local, k) => NoneSets(whole, k)
    BY <1>7, <1>10, <1>12, <1>13, <1>14, <1>15 DEF NoneSets
  <1>17. ASSUME LastSets(local, k, x) PROVE LastSets(whole, k, x)
    <2>1. PICK i \in DOMAIN local : /\ x = local[i] /\ Sets(local[i], k)
                                    /\ \A j \in DOMAIN local : j > i => ~Sets(local[j], k)
      BY <1>17 DEF LastSets
    <2>. DEFINE e == i + c - h
    <2>2. e \in 1 .. n - h + 1 /\ h + e - c = i
      BY <1>6, <1>8
    <2>3. ASSUME NEW j \in 1 .. n - h + 1, j > e PROVE ~Sets(whole[j], k)
      <3>1. h + j - c \in DOMAIN local /\ h + j - c > i
        BY <1>6, <1>8, <2>3
      <3>. QED  BY <1>14, <2>1, <3>1
    <2>. QED  BY <1>7, <1>14, <2>1, <2>2, <2>3 DEF LastSets
  <1>18. ASSUME LastSets(outer, k, x), NoneSets(local, k) PROVE LastSets(whole, k, x)
    <2>1. PICK i \in DOMAIN outer : /\ x = outer[i] /\ Sets(outer[i], k)
                                    /\ \A j \in DOMAIN outer : j > i => ~Sets(outer[j], k)
      BY <1>18 DEF LastSets
    <2>2. i + 1 \in 1 .. n - h + 1 /\ i + 1 - 1 = i
      BY <1>6, <1>9
    <2>3. ASSUME NEW j \in 1 .. n - h + 1, j > i + 1 PROVE ~Sets(whole[j], k)
      <3>1. j # 1 /\ j - 1 > i
        BY <1>6, <1>9, <2>3
      <3>2. CASE j - 1 \in DOMAIN outer
        BY <1>13, <2>1, <3>1, <3>2
      <3>3. CASE h + j - c \in DOMAIN local
        BY <1>14, <1>18, <3>3 DEF NoneSets
      <3>. QED  BY <1>12, <3>1, <3>2, <3>3
    <2>4. whole[i + 1] = outer[i]
      <3>. DEFINE e == i + 1
      <3>1. e \in 1 .. n - h + 1 /\ e - 1 = i
        BY <1>6, <1>9
      <3>. HIDE DEF e
      <3>2. whole[e] = outer[i]
        BY <1>13, <3>1
      <3>. QED  BY <3>2 DEF e
    <2>. QED  BY <1>7, <2>1, <2>2, <2>3, <2>4 DEF LastSets
  <1>19. ASSUME x = Home, Sets(Home, k), NoneSets(outer, k), NoneSets(local, k) PROVE LastSets(whole, k, x)
    <2>1. \A j \in 1 .. n - h + 1 : j > 1 => ~Sets(whole[j], k)
      BY <1>12, <1>13, <1>14, <1>19 DEF NoneSets
    <2>. QED  BY <1>7, <1>15, <1>19, <2>1 DEF LastSets
  <1>20. whole \in Seq(Layers)
    BY <1>7, SourcesAreApart
  <1>. QED  BY <1>11, <1>16, <1>17, <1>18, <1>19, <1>20 DEF dir, path, parents, outer, local, whole, h, n
\* Where the documented precedence applies it names the last of the sources.
LEMMA PrecedenceIsOrder ==
    ASSUME NEW d \in Files, cwd \in Dirs, Nested(d), NEW k, NEW x,
           LastSets(CombinedSources(d), k, x)
    PROVE  LastSets(Precedence(d), k, x)
  <1>. DEFINE dir == DirOf[d]
              path == Ancestry[dir]
              parents == IterIntermediatePaths(dir, Home)
              outer == SubSeq(parents, 2, Len(parents) - 1)
              local == IterIntermediatePaths(dir, cwd)
              whole == SubSeq(path, Len(Ancestry[Home]), Len(path))
              found == <<Home>> \o outer \o local
  <1>1. dir \in Dirs /\ d \in Docs
    BY ConfigurationAssumption DEF Docs
  <1>2. /\ whole \in Seq(Layers)
        /\ NoneSets(found, k) => NoneSets(whole, k)
        /\ LastSets(found, k, x) => LastSets(whole, k, x)
    BY LocalLayersInOrder
  <1>3. outer \in Seq(Dirs) /\ local \in Seq(Dirs)
    <2>1. parents \in Seq(Dirs) /\ local \in Seq(Dirs)
      BY <1>1, PathsAreOfDirs, SourcesAreApart
    <2>. HIDE DEF parents
    <2>. QED  BY <2>1
  <1>. HIDE DEF outer, local, whole, parents, path, dir
  <1>4. /\ found \in Seq(Sources) /\ whole \in Seq(Sources)
        /\ <<Default>> \in Seq(Sources) /\ <<AppDir>> \in Seq(Sources)
        /\ <<Extra>> \in Seq(Sources) /\ <<Override, d>> \in Seq(Sources)
    <2>1. outer \in Seq(Sources) /\ local \in Seq(Sources) /\ whole \in Seq(Sources)
      BY <1>2, <1>3, SourcesAreApart
    <2>2. Home \in Sources /\ AppDir \in Sources /\ Extra \in Sources /\ Default \in Sources
          /\ Override \in Sources /\ d \in Sources
      BY <1>1, SourcesAreApart
    <2>. QED  BY <2>1, <2>2
  <1>. HIDE DEF found
  <1>. DEFINE final == <<Extra>> \o <<Override, d>>
  <1>5. final \in Seq(Sources) /\ final = <<Extra, Override, d>>
    <2>1. final \in Seq(Sources)
      BY <1>4
    <2>2. <<Extra, Override, d>> = final
      OBVIOUS
    <2>. QED  BY <2>1, <2>2
  <1>6. Precedence(d) = ((<<Default>> \o <<AppDir>>) \o whole) \o final
    <2>1. <<Extra, Override, d>> = final /\ <<Default, AppDir>> = <<Default>> \o <<AppDir>>
      OBVIOUS
    <2>. QED  BY <2>1 DEF Precedence, whole, path, dir
  <1>7. CombinedSources(d) = IF ignoreLocal THEN <<Default>> \o final
                             ELSE ((<<Default>> \o <<AppDir>>) \o found) \o final
    <2>1. CASE ignoreLocal
      <3>1. LayersUpTo(dir) = <<>> \o <<Extra>>
        BY <2>1 DEF LayersUpTo
      <3>2. <<>> \o <<Extra>> = <<Extra>>
        BY <1>4
      <3>3. (<<Default>> \o <<Extra>>) \o <<Override, d>> = <<Default>> \o final
        BY <1>4
      <3>. QED  BY <2>1, <3>1, <3>2, <3>3 DEF CombinedSources, dir
    <2>2. CASE ~ignoreLocal
      <3>1. LayersUpTo(dir) = (<<AppDir, Home>> \o outer \o local) \o <<Extra>>
        BY <2>2 DEF LayersUpTo, outer, local, parents
      <3>2. outer \in Seq(Sources) /\ local \in Seq(Sources) /\ <<Home>> \in Seq(Sources)
        BY <1>3, SourcesAreApart
      <3>3. <<AppDir, Home>> = <<AppDir>> \o <<Home>>
        OBVIOUS
      <3>4. <<AppDir, Home>> \o outer \o local = <<AppDir>> \o found
        <4>1. (<<AppDir>> \o <<Home>>) \o outer = <<AppDir>> \o (<<Home>> \o outer)
          BY <1>4, <3>2
        <4>2. <<Home>> \o outer \in Seq(Sources)
          BY <3>2
        <4>3. (<<AppDir>> \o (<<Home>> \o outer)) \o local = <<AppDir>> \o ((<<Home>> \o outer) \o local)
          BY <1>4, <3>2, <4>2
        <4>. QED  BY <3>3, <4>1, <4>3 DEF found
      <3>5. (<<Default>> \o ((<<AppDir>> \o found) \o <<Extra>>)) \o <<Override, d>>
                = ((<<Default>> \o <<AppDir>>) \o found) \o final
        BY <1>4
      <3>. QED  BY <2>2, <3>1, <3>4, <3>5 DEF CombinedSources, dir
    <2>. QED  BY <2>1, <2>2
  <1>. HIDE DEF final
  <1>. DEFINE start == <<Default>> \o <<AppDir>>
  <1>8. start \in Seq(Sources)
    BY <1>4
  <1>9. start \o whole \in Seq(Sources) /\ start \o found \in Seq(Sources)
    BY <1>4, <1>8
  <1>10. /\ LastSets(<<Default>>, k, x) <=> x = Default
         /\ NoneSets(<<AppDir>>, k) <=> ~Sets(AppDir, k)
         /\ NoneSets(final, k) => ~Sets(Extra, k)
    <2>1. NoneSets(<<Extra, Override, d>>, k) => ~Sets(Extra, k)
      BY DEF NoneSets
    <2>2. NoneSets(<<AppDir>>, k) <=> ~Sets(AppDir, k)
      BY DEF NoneSets
    <2>3. LastSets(<<Default>>, k, x) <=> x = Default
      BY DEF LastSets, Sets
    <2>. QED  BY <1>5, <2>1, <2>2, <2>3
  <1>11. LastSets(Precedence(d), k, x) <=>
            \/ LastSets(final, k, x)
            \/ /\ NoneSets(final, k)
               /\ LastSets(whole, k, x) \/ (LastSets(start, k, x) /\ NoneSets(whole, k))
    <2>1. LastSets(start \o whole, k, x) <=>
              LastSets(whole, k, x) \/ (LastSets(start, k, x) /\ NoneSets(whole, k))
      BY <1>4, <1>8, LastOfBoth
    <2>. HIDE DEF start
    <2>2. LastSets((start \o whole) \o final, k, x) <=>
              LastSets(final, k, x) \/ (LastSets(start \o whole, k, x) /\ NoneSets(final, k))
      BY <1>5, <1>9, LastOfBoth
    <2>. QED  BY <1>6, <2>1, <2>2 DEF start
  <1>12. CASE ~ignoreLocal
    <2>1. LastSets(CombinedSources(d), k, x) <=>
            \/ LastSets(final, k, x)
            \/ /\ NoneSets(final, k)
               /\ LastSets(found, k, x) \/ (LastSets(start, k, x) /\ NoneSets(found, k))
      <3>1. LastSets(start \o found, k, x) <=>
                LastSets(found, k, x) \/ (LastSets(start, k, x) /\ NoneSets(found, k))
        BY <1>4, <1>8, LastOfBoth
      <3>. HIDE DEF start
      <3>2. LastSets((start \o found) \o final, k, x) <=>
                LastSets(final, k, x) \/ (LastSets(start \o found, k, x) /\ NoneSets(final, k))
        BY <1>5, <1>9, LastOfBoth
      <3>. QED  BY <1>7, <1>12, <3>1, <3>2 DEF start
    <2>. QED  BY <1>2, <1>11, <2>1
  <1>13. CASE ignoreLocal
    <2>1. LastSets(<<Default>> \o final, k, x)
      BY <1>7, <1>13
    <2>2. CASE LastSets(final, k, x)
      BY <1>11, <2>2
    <2>3. CASE ~LastSets(final, k, x)
      <3>1. LastSets(<<Default>>, k, x) /\ NoneSets(final, k)
        BY <1>4, <1>5, <2>1, <2>3, LastOfBoth
      <3>2. ~Sets(Extra, k)
        BY <1>10, <3>1
      <3>3. \A l \in Layers : ~Sets(l, k)
        BY <1>13, <3>2, SourcesAreApart DEF Sets
      <3>4. NoneSets(whole, k)
        BY <1>2, <3>3 DEF NoneSets
      <3>5. LastSets(start, k, x)
        BY <1>4, <1>10, <3>1, <3>3, SourcesAreApart, LastOfBoth
      <3>. QED  BY <1>11, <3>1, <3>4, <3>5
    <2>. QED  BY <2>2, <2>3
  <1>. QED  BY <1>12, <1>13
-----------------------------------------------------------------------------
(* The values of a config are those of its sources, in their order.        *)

\* The config of a layer has the keys that its files set.
OfLayer(config, l) ==
    \A s \in Sections :
        /\ DOMAIN config[s] = disk[l].keys \cap Settable[s]
        /\ \A k \in DOMAIN config[s] : config[s][k].from = l

LayersHold(st) == \A l \in Layers : Made(st, l) => OfLayer(Content(st, l), l)

FromLast(config, sources) ==
    \A s \in Sections : \A k \in Settable[s] : LastSets(sources, k, config[s][k].from)

LEMMA SettingIsFrom ==
    ASSUME NEW keys, NEW from, NEW ver, NEW s \in Sections
    PROVE  /\ DOMAIN Setting(keys, from, ver)[s] = keys \cap Settable[s]
           /\ \A k \in keys \cap Settable[s] : Setting(keys, from, ver)[s][k].from = from
  BY DEF Setting, Value

LEMMA LoadedLayers ==
    ASSUME NEW st, Sound(st), Readings(st), LayersHold(st), NEW layers \in SUBSET Layers,
           disk \in [Layers -> [keys : SUBSET Keys, ver : 0 .. MaxEdits]]
    PROVE  LayersHold(LoadConfigs(st, layers))
  <1>. DEFINE new == LoadConfigs(st, layers)
              fresh == {l \in layers : ~Made(st, l)}
  <1>1. /\ Sound(new)
        /\ \A o \in Owners : Made(st, o) => Content(new, o) = Content(st, o)
    BY LoadingReads
  <1>2. \A o \in Owners : o \in fresh => new.heap[o] = Setting(disk[o].keys, o, disk[o].ver)
    BY DEF LoadConfigs
  <1>3. \A o \in Owners : Made(new, o) => Made(st, o) \/ o \in fresh
    BY DEF LoadConfigs, Made
  <1>. HIDE DEF new
  <1>4. ASSUME NEW l \in Layers, Made(new, l), ~Made(st, l)
        PROVE  OfLayer(Content(new, l), l)
    <2>1. l \in Owners /\ l \in fresh
      BY <1>3, <1>4, OwnersAreDistinct
    <2>2. Content(new, l) = [s \in Sections |-> Setting(disk[l].keys, l, disk[l].ver)[s]]
      BY <1>1, <1>2, <1>4, <2>1, MadeIsFresh
    <2>3. ASSUME NEW s \in Sections
          PROVE  /\ DOMAIN Content(new, l)[s] = disk[l].keys \cap Settable[s]
                 /\ \A k \in DOMAIN Content(new, l)[s] : Content(new, l)[s][k].from = l
      BY <2>2, SettingIsFrom
    <2>. QED  BY <2>3 DEF OfLayer
  <1>5. \A l \in Layers : Made(new, l) => OfLayer(Content(new, l), l)
    BY <1>1, <1>4, OwnersAreDistinct DEF LayersHold
  <1>. QED  BY <1>5 DEF LayersHold, new

\* Which of the sources that are combined set a key.
LEMMA WhoSets ==
    ASSUME NEW dir \in Dirs, cwd \in Dirs, NEW k
    PROVE  /\ Sets(Default, k)
           /\ Sets(Override, k) <=> k \in overrides
           /\ \A d \in Docs : Sets(d, k) <=> k \in Directives[d]
           /\ \A l \in ToSet(LayersUpTo(dir)) : l \in Layers /\ (Sets(l, k) <=> k \in disk[l].keys)
  <1>1. Sets(Default, k) /\ (Sets(Override, k) <=> k \in overrides)
    BY SourcesAreApart DEF Sets
  <1>2. \A d \in Docs : Sets(d, k) <=> k \in Directives[d]
    BY SourcesAreApart DEF Sets
  <1>3. ASSUME NEW l \in ToSet(LayersUpTo(dir))
        PROVE  l \in Layers /\ (ignoreLocal => l = Extra)
    <2>1. LayersUpTo(dir) \in Seq(Layers)
      BY LayersAreLayers
    <2>2. PICK i \in DOMAIN LayersUpTo(dir) : l = LayersUpTo(dir)[i]
      BY DEF ToSet
    <2>3. ignoreLocal => LayersUpTo(dir) = <<>> \o <<Extra>>
      BY DEF LayersUpTo
    <2>4. <<>> \o <<Extra>> = <<Extra>>
      OBVIOUS
    <2>. QED  BY <2>1, <2>2, <2>3, <2>4
  <1>4. \A l \in ToSet(LayersUpTo(dir)) : l \in Layers /\ (Sets(l, k) <=> k \in disk[l].keys)
    BY <1>3, SourcesAreApart DEF Sets
  <1>. QED  BY <1>1, <1>2, <1>4

\* from_path takes each value from the last source that sets it.
LEMMA FromPathFromLast ==
    ASSUME NEW st, Sound(st), Readings(st), LayersHold(st),
           NEW o \in DocsAndRoot, NEW dir \in Dirs, cwd \in Dirs,
           disk \in [Layers -> [keys : SUBSET Keys, ver : 0 .. MaxEdits]]
    PROVE  LET new == FromPath(st, o, dir)
           IN  /\ LayersHold(new)
               /\ FromLast(Content(new, o), <<Default>> \o LayersUpTo(dir) \o <<Override>>)
  <1>. DEFINE layers == LayersUpTo(dir)
              loaded == LoadConfigs(st, ToSet(layers))
              first == Setting(Keys, Default, 0)
              last == Setting(overrides, Override, 0)
              read == [i \in DOMAIN layers |-> Content(loaded, layers[i])]
              configs == <<first>> \o read \o <<last>>
              sources == <<Default>> \o layers \o <<Override>>
              combined == NestedCombine(configs)
              config == HandleCommaSeparatedValues(combined)
              m == Len(layers)
              n == m + 2
              new == Put(loaded, o, config)
  <1>1. layers \in Seq(Layers)
    BY LayersAreLayers
  <1>2. ToSet(layers) \in SUBSET Layers /\ \A i \in DOMAIN layers : layers[i] \in ToSet(layers)
    BY <1>1 DEF ToSet
  <1>. HIDE DEF layers
  <1>3. /\ Sound(loaded) /\ LayersHold(loaded)
        /\ \A l \in ToSet(layers) : Made(loaded, l)
    BY <1>2, LoadingReads, LoadedLayers
  <1>. HIDE DEF loaded
  <1>4. /\ m \in Nat /\ DOMAIN layers = 1 .. m
        /\ DOMAIN sources = 1 .. n /\ sources[1] = Default /\ sources[n] = Override
        /\ \A i \in 1 .. m : sources[i + 1] = layers[i]
    <2>. DEFINE heads == <<Default>> \o layers
    <2>1. m \in Nat /\ DOMAIN layers = 1 .. m
      BY <1>1
    <2>2. layers \in Seq(Sources) /\ Default \in Sources /\ Override \in Sources
      BY <1>1, SourcesAreApart
    <2>3. /\ heads \in Seq(Sources) /\ Len(heads) = m + 1 /\ heads[1] = Default
          /\ \A i \in 1 .. m : heads[i + 1] = layers[i]
      BY <2>1, <2>2
    <2>. HIDE DEF heads, m
    <2>4. /\ DOMAIN (heads \o <<Override>>) = 1 .. n /\ (heads \o <<Override>>)[n] = Override
          /\ \A i \in 1 .. m + 1 : (heads \o <<Override>>)[i] = heads[i]
      BY <2>1, <2>2, <2>3
    <2>5. 1 \in 1 .. m + 1 /\ \A i \in 1 .. m : i + 1 \in 1 .. m + 1
      BY <2>1
    <2>. QED  BY <2>1, <2>3, <2>4, <2>5 DEF heads
  <1>. HIDE DEF sources, m
  <1>5. /\ DOMAIN configs = 1 .. n /\ configs[1] = first /\ configs[n] = last
        /\ \A i \in 1 .. m : configs[i + 1] = Content(loaded, layers[i])
    <2>. HIDE DEF first, last
    <2>. DEFINE parts == {first, last} \cup {Content(loaded, l) : l \in ToSet(layers)}
                heads == <<first>> \o read
    <2>1. read \in [1 .. m -> parts] /\ \A i \in 1 .. m : read[i] = Content(loaded, layers[i])
      BY <1>2, <1>4
    <2>2. read \in Seq(parts) /\ Len(read) = m /\ first \in parts /\ last \in parts
      BY <1>4, <2>1
    <2>. HIDE DEF read, parts
    <2>3. /\ heads \in Seq(parts) /\ Len(heads) = m + 1 /\ heads[1] = first
          /\ \A i \in 1 .. m : heads[i + 1] = read[i]
      BY <1>4, <2>2
    <2>. HIDE DEF heads
    <2>4. /\ DOMAIN (heads \o <<last>>) = 1 .. n /\ (heads \o <<last>>)[n] = last
          /\ \A i \in 1 .. m + 1 : (heads \o <<last>>)[i] = heads[i]
      BY <1>4, <2>2, <2>3
    <2>5. 1 \in 1 .. m + 1 /\ \A i \in 1 .. m : i + 1 \in 1 .. m + 1
      BY <1>4
    <2>. QED  BY <2>1, <2>3, <2>4, <2>5 DEF heads
  <1>. HIDE DEF configs
  <1>6. n \in Nat /\ 1 \in 1 .. n /\ \A i \in 1 .. n : i = 1 \/ i = n \/ \E j \in 1 .. m : i = j + 1
    <2>1. \A i \in 1 .. n : i = 1 \/ i = n \/ (i - 1 \in 1 .. m /\ i = (i - 1) + 1)
      BY <1>4
    <2>. QED  BY <1>4, <2>1
  <1>. HIDE DEF n
  <1>7. ASSUME NEW s \in Sections, NEW k \in Settable[s], NEW i \in 1 .. n
        PROVE  /\ k \in DOMAIN configs[i][s] <=> Sets(sources[i], k)
               /\ k \in DOMAIN configs[i][s] => configs[i][s][k].from = sources[i]
    <2>1. CASE i = 1
      <3>1. Keys \cap Settable[s] = Settable[s]
        BY KeysAreAll
      <3>. QED  BY <1>4, <1>5, <2>1, <3>1, SettingIsFrom, WhoSets
    <2>2. CASE i = n
      BY <1>4, <1>5, <2>2, SettingIsFrom, WhoSets
    <2>3. ASSUME NEW j \in 1 .. m, i = j + 1
          PROVE  /\ k \in DOMAIN configs[i][s] <=> Sets(sources[i], k)
                 /\ k \in DOMAIN configs[i][s] => configs[i][s][k].from = sources[i]
      <3>1. configs[i] = Content(loaded, layers[j]) /\ sources[i] = layers[j]
        BY <1>4, <1>5, <2>3
      <3>2. layers[j] \in ToSet(layers) /\ layers[j] \in Layers /\ Made(loaded, layers[j])
        BY <1>2, <1>3, <1>4
      <3>3. OfLayer(Content(loaded, layers[j]), layers[j])
        BY <1>3, <3>2 DEF LayersHold
      <3>4. Sets(layers[j], k) <=> k \in disk[layers[j]].keys
        BY <3>2, WhoSets DEF layers
      <3>. QED  BY <3>1, <3>3, <3>4 DEF OfLayer
    <2>. QED  BY <1>6, <2>1, <2>2, <2>3
  <1>8. ASSUME NEW s \in Sections, NEW k \in Settable[s]
        PROVE  LastSets(sources, k, combined[s][k].from)
    <2>1. Sets(sources[1], k)
      BY <1>4, WhoSets
    <2>2. /\ \A i \in 1 .. n : k \in DOMAIN configs[i][s] <=> Sets(sources[i], k)
          /\ \A i \in 1 .. n : k \in DOMAIN configs[i][s] => configs[i][s][k].from = sources[i]
      BY <1>7
    <2>3. DOMAIN sources = 1 .. n
      BY <1>4 DEF n
    <2>4. DOMAIN configs = 1 .. n
      BY <1>5 DEF n
    <2>. QED  BY <1>6, <2>1, <2>2, <2>3, <2>4, CombinedFromLast
  <1>9. /\ DOMAIN combined = Sections
        /\ \A s \in Sections : Settable[s] \subseteq DOMAIN combined[s]
    <2>1. DOMAIN combined = Sections
      BY <1>5, <1>6, CombinationHolds DEF n
    <2>2. \A s \in Sections : Settable[s] \subseteq DOMAIN combined[s]
      <3>1. TAKE s \in Sections
      <3>2. DOMAIN combined[s] = UNION {DOMAIN configs[i][s] : i \in 1 .. n}
        BY <1>5, <1>6, CombinationHolds DEF n
      <3>3. DOMAIN configs[1][s] = Keys \cap Settable[s]
        BY <1>5, SettingIsFrom
      <3>. QED  BY <1>6, <3>2, <3>3, KeysAreAll
    <2>. QED  BY <2>1, <2>2
  <1>. HIDE DEF combined
  <1>10. /\ DOMAIN config = Sections
         /\ \A s \in Sections : \A k \in Settable[s] : config[s][k] = combined[s][k]
    <2>1. Settable["core"] \subseteq DOMAIN combined["core"]
      BY <1>9, SectionsAre
    <2>2. /\ DOMAIN config = Sections
          /\ \A s \in Sections : Settable[s] \cap DOMAIN config[s] = Settable[s] \cap DOMAIN combined[s]
          /\ \A s \in Sections : \A k \in Settable[s] \cap DOMAIN config[s] : config[s][k] = combined[s][k]
      BY <1>9, <2>1, SplittingHolds
    <2>. QED  BY <1>9, <2>2
  <1>. HIDE DEF config
  <1>11. o \in Owners /\ o \notin Layers
    BY OwnersAreDistinct
  <1>12. /\ \A s \in Sections : Content(new, o)[s] = config[s]
         /\ \A p \in Owners \ {o} : Made(new, p) <=> Made(loaded, p)
         /\ \A p \in Owners \ {o} : Made(loaded, p) => Content(new, p) = Content(loaded, p)
    BY <1>3, <1>10, <1>11, PutIsLocal
  <1>13. FromPath(st, o, dir) = new
    BY DEF FromPath, new, config, combined, configs, first, last, loaded, layers
  <1>. HIDE DEF new
  <1>14. FromLast(Content(new, o), sources)
    BY <1>8, <1>10, <1>12 DEF FromLast
  <1>15. LayersHold(new)
    BY <1>3, <1>11, <1>12, OwnersAreDistinct DEF LayersHold
  <1>. QED  BY <1>13, <1>14, <1>15 DEF sources, layers
\* The directives of a document come last, and change its own config only.
LEMMA DirectivesComeLast ==
    ASSUME NEW st, Sound(st), Readings(st), LayersHold(st),
           NEW d \in Docs, Made(st, d), Split(Content(st, d)), cwd \in Dirs,
           NEW sources \in Seq(Sources), FromLast(Content(st, d), sources)
    PROVE  LET new == ProcessRawFileForConfig(st, d)
           IN  LayersHold(new) /\ FromLast(Content(new, d), sources \o <<d>>)
  <1>. DEFINE own == Content(st, d)
              inline == Setting(Directives[d], d, 0)
              configs == <<own, inline>>
              combined == NestedCombine(configs)
              config == HandleCommaSeparatedValues(combined)
              n == 2
              new == Assign(st, d, config)
  <1>1. d \in Owners /\ d \notin Layers /\ <<d>> \in Seq(Sources)
    BY OwnersAreDistinct DEF DocsAndRoot
  <1>2. /\ \A s \in Sections : Settable[s] \subseteq DOMAIN own[s]
        /\ \A s \in Sections : DOMAIN inline[s] = Directives[d] \cap Settable[s]
        /\ \A s \in Sections : \A k \in Directives[d] \cap Settable[s] : inline[s][k].from = d
    BY SettingIsFrom DEF Split
  <1>. HIDE DEF own, inline
  <1>3. DOMAIN configs = 1 .. n /\ n \in Nat /\ 1 \in 1 .. n /\ configs[1] = own
    OBVIOUS
  <1>4. ASSUME NEW s \in Sections, NEW k \in Settable[s]
        PROVE  combined[s][k] = IF k \in Directives[d] THEN inline[s][k] ELSE own[s][k]
    <2>. DEFINE S == {i \in DOMAIN configs : k \in DOMAIN configs[i][s]}
                last == Max(S)
    <2>1. DOMAIN configs = {1, 2} /\ configs[1] = own /\ configs[2] = inline
      OBVIOUS
    <2>. HIDE DEF configs
    <2>2. k \in DOMAIN configs[1][s] /\ (k \in DOMAIN configs[2][s] <=> k \in Directives[d])
      BY <1>2, <2>1
    <2>3. S = IF k \in Directives[d] THEN {1, 2} ELSE {1}
      BY <2>1, <2>2
    <2>4. combined[s][k] = configs[last][s][k]
      <3>1. k \in UNION {DOMAIN configs[i][s] : i \in DOMAIN configs}
        BY <2>1, <2>2
      <3>. QED  BY <3>1 DEF NestedCombine
    <2>5. last \in S /\ \A i \in S : last >= i
      <3>. HIDE DEF S
      <3>1. S \in SUBSET (0 .. 2) /\ S # {}
        BY <2>3
      <3>. QED  BY <3>1, MaxIsLargest
    <2>. HIDE DEF S, last
    <2>6. last = IF k \in Directives[d] THEN 2 ELSE 1
      <3>1. CASE k \in Directives[d]
        <4>1. last \in {1, 2} /\ last >= 2
          BY <2>3, <2>5, <3>1
        <4>. QED  BY <3>1, <4>1
      <3>2. CASE k \notin Directives[d]
        BY <2>3, <2>5, <3>2
      <3>. QED  BY <3>1, <3>2
    <2>. QED  BY <2>1, <2>4, <2>6
  <1>. HIDE DEF configs, n
  <1>5. DOMAIN combined = Sections /\ \A s \in Sections : Settable[s] \subseteq DOMAIN combined[s]
    <2>1. /\ DOMAIN combined = Sections
          /\ \A s \in Sections : DOMAIN combined[s] = UNION {DOMAIN configs[i][s] : i \in 1 .. n}
      BY <1>3, CombinationHolds
    <2>. QED  BY <1>2, <1>3, <2>1
  <1>. HIDE DEF combined
  <1>6. \A s \in Sections : \A k \in Settable[s] : config[s][k] = combined[s][k]
    <2>1. Settable["core"] \subseteq DOMAIN combined["core"]
      BY <1>5, SectionsAre
    <2>2. /\ \A s \in Sections : Settable[s] \cap DOMAIN config[s] = Settable[s] \cap DOMAIN combined[s]
          /\ \A s \in Sections : \A k \in Settable[s] \cap DOMAIN config[s] : config[s][k] = combined[s][k]
      BY <1>5, <2>1, SplittingHolds
    <2>. QED  BY <1>5, <2>2
  <1>. HIDE DEF config
  <1>7. /\ \A s \in Sections : Content(new, d)[s] = config[s]
        /\ \A p \in Owners : Made(new, p) <=> Made(st, p)
        /\ \A p \in Owners \ {d} : Made(st, p) => Content(new, p) = Content(st, p)
    BY <1>1, AssignIsLocal
  <1>8. ProcessRawFileForConfig(st, d) = new
    BY DEF ProcessRawFileForConfig, new, config, combined, configs, own, inline
  <1>. HIDE DEF new
  <1>9. LayersHold(new)
    BY <1>1, <1>7, OwnersAreDistinct DEF LayersHold
  <1>10. ASSUME NEW s \in Sections, NEW k \in Settable[s]
         PROVE  LastSets(sources \o <<d>>, k, Content(new, d)[s][k].from)
    <2>1. /\ LastSets(sources, k, own[s][k].from)
          /\ Sets(d, k) <=> k \in Directives[d]
      BY SourcesAreApart DEF own, FromLast, Sets
    <2>2. Content(new, d)[s][k] = IF k \in Directives[d] THEN inline[s][k] ELSE own[s][k]
      BY <1>4, <1>6, <1>7
    <2>3. CASE k \in Directives[d]
      <3>1. Content(new, d)[s][k].from = d
        BY <1>2, <2>2, <2>3
      <3>2. LastSets(<<d>>, k, d)
        BY <2>1, <2>3 DEF LastSets
      <3>. QED  BY <1>1, <3>1, <3>2, LastOfBoth
    <2>4. CASE k \notin Directives[d]
      <3>1. NoneSets(<<d>>, k)
        BY <2>1, <2>4 DEF NoneSets
      <3>. QED  BY <1>1, <2>1, <2>2, <2>4, <3>1, LastOfBoth
    <2>. QED  BY <2>3, <2>4
  <1>. QED  BY <1>8, <1>9, <1>10 DEF FromLast

-----------------------------------------------------------------------------
\* The layers read have their files' keys, and each value of a file's config
\* comes from the last of the file's sources that sets it.
OrderInv ==
    /\ LayersHold(store)
    /\ \A d \in Files : Made(store, d) => FromLast(Content(store, d), CombinedSources(d))

\* Neither a step of the process nor an edit changes who sets what.
LEMMA SetsStand ==
    ASSUME Inv, [Next]_vars
    PROVE  /\ \A l \in Layers : disk'[l].keys = disk[l].keys
           /\ cwd' = cwd /\ overrides' = overrides /\ ignoreLocal' = ignoreLocal
           /\ \A x, k : Sets(x, k)' <=> Sets(x, k)
  <1>1. cwd' = cwd /\ overrides' = overrides /\ ignoreLocal' = ignoreLocal
    BY DEF Next, FromRoot, LintFile, LintString, Edit, vars, started
  <1>2. \A l \in Layers : disk'[l].keys = disk[l].keys
    <2>1. disk \in [Layers -> [keys : SUBSET Keys, ver : 0 .. MaxEdits]]
      BY DiskIsBounded
    <2>2. ASSUME NEW l \in Layers, Edit(l)
          PROVE  \A m \in Layers : disk'[m].keys = disk[m].keys
      <3>1. TAKE m \in Layers
      <3>2. disk' = [disk EXCEPT ![l].ver = @ + 1]
        BY <2>2 DEF Edit
      <3>3. disk[m] \in [keys : SUBSET Keys, ver : 0 .. MaxEdits]
        BY <2>1
      <3>4. disk'[m] = IF m = l THEN [disk[m] EXCEPT !.ver = @ + 1] ELSE disk[m]
        BY <2>1, <3>2
      <3>. QED  BY <3>3, <3>4
    <2>. QED  BY <2>2 DEF Next, FromRoot, LintFile, LintString, vars, started
  <1>. QED  BY <1>1, <1>2 DEF Sets

LEMMA OrderStands ==
    ASSUME Inv, [Next]_vars, LayersHold(store'),
           \A d \in Files : Made(store', d) => FromLast(Content(store', d), CombinedSources(d))
    PROVE  OrderInv'
  <1>1. LayersHold(store)'
    BY SetsStand DEF LayersHold, OfLayer, Made, Content
  <1>2. ASSUME NEW d \in Files, Made(store, d)'
        PROVE  FromLast(Content(store, d), CombinedSources(d))'
    <2>1. PICK sources : sources = CombinedSources(d)
      OBVIOUS
    <2>2. PICK config : config = Content(store', d)
      OBVIOUS
    <2>3. CombinedSources(d)' = sources
      <3>1. cwd' = cwd /\ (ignoreLocal' <=> ignoreLocal)
        BY SetsStand
      <3>2. IterIntermediatePaths(DirOf[d], cwd)' = IterIntermediatePaths(DirOf[d], cwd)
        BY <3>1
      <3>. QED  BY <2>1, <3>1, <3>2 DEF CombinedSources, LayersUpTo
    <2>4. Content(store, d)' = config
      BY <2>2 DEF Content
    <2>5. FromLast(config, sources)
      BY <1>2, <2>1, <2>2 DEF Made
    <2>6. FromLast(config, sources)'
      BY <2>5, SetsStand DEF FromLast, LastSets
    <2>. QED  BY <2>3, <2>4, <2>6 DEF FromLast, LastSets
  <1>. QED  BY <1>1, <1>2 DEF OrderInv
LEMMA InitOrder == Init => OrderInv
  <1>1. Init => \A o \in Owners : ~Made(store, o)
    BY DEF Init, Made
  <1>. QED  BY <1>1, OwnersAreDistinct DEF OrderInv, LayersHold, DocsAndRoot

LEMMA FromRootOrders == Inv /\ OrderInv /\ FromRoot => OrderInv'
  <1>. SUFFICES ASSUME Inv, OrderInv, FromRoot PROVE OrderInv'
    OBVIOUS
  <1>1. store' = FromPath(store, Root, cwd) /\ Root \in DocsAndRoot /\ cwd \in Dirs
    BY DEF FromRoot, DocsAndRoot, Inv, InputInv
  <1>2. LayersHold(store')
    BY <1>1, FromPathFromLast, DiskIsBounded DEF Inv, OrderInv
  <1>3. ASSUME NEW d \in Files, Made(store', d)
        PROVE  FromLast(Content(store', d), CombinedSources(d))
    <2>1. d \in DocsAndRoot \ {Root} /\ d \in Owners \ {Root}
      BY OwnersAreDistinct DEF DocsAndRoot
    <2>2. Made(store, d) /\ Content(store', d) = Content(store, d)
      BY <1>3, <2>1, FromRootKeeps DEF Grows
    <2>. QED  BY <2>2 DEF OrderInv
  <1>4. [Next]_vars
    BY DEF Next
  <1>. QED  BY <1>2, <1>3, <1>4, OrderStands

LEMMA LintFileOrders ==
    ASSUME Inv, OrderInv, NEW d \in Files, LintFile(d)
    PROVE  OrderInv'
  <1>. DEFINE made == FromPath(store, d, DirOf[d])
              sources == <<Default>> \o LayersUpTo(DirOf[d]) \o <<Override>>
  <1>1. store' = ProcessRawFileForConfig(made, d)
    BY DEF LintFile
  <1>2. d \in Docs /\ d \in DocsAndRoot /\ DirOf[d] \in Dirs /\ cwd \in Dirs
    BY OwnersAreDistinct, ConfigurationAssumption DEF DocsAndRoot, Inv, InputInv
  <1>3. Sound(made) /\ Readings(made) /\ Made(made, d) /\ Split(Content(made, d))
    BY <1>2, FromPathMakes, DiskIsBounded DEF Inv
  <1>4. LayersHold(made) /\ FromLast(Content(made, d), sources)
    BY <1>2, FromPathFromLast, DiskIsBounded DEF Inv, OrderInv
  <1>5. /\ LayersUpTo(DirOf[d]) \in Seq(Sources) /\ <<Default>> \in Seq(Sources)
        /\ <<Override>> \in Seq(Sources) /\ <<d>> \in Seq(Sources)
    <2>1. LayersUpTo(DirOf[d]) \in Seq(Layers)
      BY <1>2, LayersAreLayers
    <2>. QED  BY <1>2, <2>1, SourcesAreApart
  <1>6. sources \in Seq(Sources)
    BY <1>5
  <1>7. sources \o <<d>> = CombinedSources(d)
    <2>1. <<Default>> \o LayersUpTo(DirOf[d]) \in Seq(Sources)
      BY <1>5
    <2>2. <<Override, d>> = <<Override>> \o <<d>>
      OBVIOUS
    <2>. DEFINE start == <<Default>> \o LayersUpTo(DirOf[d])
    <2>. HIDE DEF start
    <2>3. (start \o <<Override>>) \o <<d>> = start \o (<<Override>> \o <<d>>)
      BY <1>5, <2>1 DEF start
    <2>. QED  BY <2>2, <2>3 DEF start, CombinedSources
  <1>. HIDE DEF made, sources
  <1>8. LayersHold(store') /\ FromLast(Content(store', d), CombinedSources(d))
    BY <1>1, <1>2, <1>3, <1>4, <1>6, <1>7, DirectivesComeLast
  <1>9. ASSUME NEW f \in Files, Made(store', f)
        PROVE  FromLast(Content(store', f), CombinedSources(f))
    <2>1. CASE f = d
      BY <1>8, <2>1
    <2>2. CASE f # d
      <3>1. f \in DocsAndRoot \ {d} /\ f \in Owners \ {d}
        BY <2>2, OwnersAreDistinct DEF DocsAndRoot
      <3>2. Made(store, f) /\ Content(store', f) = Content(store, f)
        BY <1>9, <3>1, LintFileKeeps DEF Grows
      <3>. QED  BY <3>2 DEF OrderInv
    <2>. QED  BY <2>1, <2>2
  <1>10. [Next]_vars
    BY DEF Next
  <1>. QED  BY <1>8, <1>9, <1>10, OrderStands

LEMMA LintStringOrders ==
    ASSUME Inv, OrderInv, NEW d \in Strings, LintString(d)
    PROVE  OrderInv'
  <1>1. Inv' /\ Grows(d)
    BY LintStringKeeps
  <1>2. /\ d \in Docs /\ d \in DocsAndRoot /\ d \in Owners \ Layers /\ d \notin Files
    BY OwnersAreDistinct DEF DocsAndRoot
  <1>3. LayersHold(store')
    <2>. DEFINE made == Put(store, d, Content(store, Root))
    <2>1. store' = ProcessRawFileForConfig(made, d) /\ Made(store, Root)
      BY DEF LintString, Copy
    <2>2. DOMAIN Content(store, Root) = Sections
      BY DEF Content
    <2>3. /\ Sound(made) /\ Made(made, d)
          /\ \A p \in Owners \ {d} : Made(made, p) <=> Made(store, p)
      BY <1>2, <2>2, PutIsLocal DEF Inv
    <2>4. \A p \in Owners : store'.refs = made.refs
      BY <2>1 DEF ProcessRawFileForConfig, Assign, Put
    <2>5. \A p \in Owners : Made(store', p) <=> Made(made, p)
      BY <2>4 DEF Made
    <2>6. ASSUME NEW l \in Layers, Made(store', l)
          PROVE  OfLayer(Content(store', l), l)
      <3>1. l \in Owners \ {d}
        BY <1>2, OwnersAreDistinct
      <3>2. Made(store, l)
        BY <2>3, <2>5, <2>6, <3>1
      <3>3. Content(store', l) = Content(store, l)
        BY <1>1, <3>1, <3>2 DEF Grows
      <3>. QED  BY <3>2, <3>3 DEF OrderInv, LayersHold
    <2>. QED  BY <2>6 DEF LayersHold
  <1>4. ASSUME NEW f \in Files, Made(store', f)
        PROVE  FromLast(Content(store', f), CombinedSources(f))
    <2>1. f \in DocsAndRoot \ {d} /\ f \in Owners \ {d}
      BY <1>2, OwnersAreDistinct DEF DocsAndRoot
    <2>2. Made(store, f) /\ Content(store', f) = Content(store, f)
      BY <1>1, <1>4, <2>1 DEF Grows
    <2>. QED  BY <2>2 DEF OrderInv
  <1>5. [Next]_vars
    BY DEF Next
  <1>. QED  BY <1>3, <1>4, <1>5, OrderStands

\* The sources of the values keep their order in every behaviour.
THEOREM OrderInvariance == Spec => []OrderInv
  <1>1. ASSUME Inv, OrderInv, [Next]_vars, store' = store
        PROVE  OrderInv'
    <2>1. /\ LayersHold(store')
          /\ \A d \in Files : Made(store', d) => FromLast(Content(store', d), CombinedSources(d))
      BY <1>1 DEF OrderInv
    <2>. QED  BY <1>1, <2>1, OrderStands
  <1>2. Inv /\ OrderInv /\ [Next]_vars => OrderInv'
    <2>1. ASSUME Inv, NEW l \in Layers, Edit(l) PROVE store' = store
      BY <2>1, EditKeeps
    <2>2. Inv /\ UNCHANGED vars => store' = store
      BY StutterKeeps
    <2>. QED  BY <1>1, <2>1, <2>2, FromRootOrders, LintFileOrders, LintStringOrders DEF Next
  <1>. QED  BY <1>2, InitOrder, Invariance, PTL DEF Spec

\* load_config_up_to_path and load_raw_file_and_config combine so that, where
\* the file is below the working directory and that below home, the value of
\* each key is that of the source nearest to the file, for any directories.
THEOREM NearestSourceWins == Spec => []NearestWins
  <1>1. ASSUME Inv, OrderInv, NEW d \in Files, Made(store, d), Nested(d),
               NEW s \in Sections, NEW k \in Settable[s]
        PROVE  LastSets(Precedence(d), k, Content(store, d)[s][k].from)
    <2>1. LastSets(CombinedSources(d), k, Content(store, d)[s][k].from)
      BY <1>1 DEF OrderInv, FromLast
    <2>2. cwd \in Dirs
      BY <1>1 DEF Inv, InputInv
    <2>. QED  BY <1>1, <2>1, <2>2, PrecedenceIsOrder
  <1>2. Inv /\ OrderInv => NearestWins
    BY <1>1 DEF NearestWins, LintedDocs, LastSets
  <1>. QED  BY <1>2, Invariance, OrderInvariance, PTL
=============================================================================
